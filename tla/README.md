# Where-Is-My-Bus: formal models

TLA+ models of the school-bus tracking backend under `src/src` (TypeScript,
Express, Prisma/PostgreSQL, Redis, Socket.IO), checked with TLC on small
instances and, where it matters most, proved with TLAPS for every instance.

Run `tlc -workers 2 -config <cfg> <MC module>` for a run and `tlapm <module>`
for a proof module. PROJECT.json lists the components, the runs, a mutant for
every checked property, the source lines each definition stands for, the
findings, the hazards and the theorems.

## 1. The system

The backend is one Node process per container (several may run against one
database and one Redis). Inside a process nothing is preempted: code runs until
an `await`, and any other request may run there. Across processes every
database or Redis call may interleave with any other. So in all modules
**a step is what lies between two awaits**, and a request is a small process
with a program counter.

| Component | State it keeps | Operations | Hard because | What makes it correct |
|---|---|---|---|---|
| Trip lifecycle and assignment (`modules/trip`) | `Trip` rows | assign, start, change status, end; publishes `trip.status.updated`, `trip.started`, `trip.completed` | read, validate, conditional update, re-read and publication are separate awaits; assignment is check-then-insert at read committed | no double booking (it holds but for overlapping assignments), only legal histories, a start announced once |
| GPS ping ingestion (`trip/gps.tracking.service.ts`) | `TripPing` rows | submit a ping, read the track | next sequence number read, then written; trip status stale | sequence numbers unique and in order, no ping after the end |
| ETA (`trip/eta.engine.ts`, `realtime/services/eta-engine.service.ts`) | per-trip progress in memory | location update, clear trip | passed stops, smoothing, out-of-order locations | a passed stop stays passed |
| Authentication (`modules/auth`) | `DeviceSession` rows, refresh tokens held by clients | register, login, refresh, logout | rotation is compare-and-set; lost answers, concurrent refreshes, expiry, suspension | a token is exchanged once; ended sessions stay ended |
| Emergency service (`modules/emergency`) | `Emergency` and `EmergencyHistory` rows | report, transition | check-then-insert, validation outside the transaction, optimistic version, a unique constraint | history is a path of the table; at most one active per trip; no open emergency is stuck |
| Notification pipeline (`modules/notification`) | `Notification`, `NotificationRecipient` rows, Redis lists, preference cache | dispatch, worker loop, retry, shutdown, preferences | several nodes pop one list, crashes lose popped jobs, retries, unpolled lists | a job is in one place, is tried a bounded number of times, and is dealt with |
| Realtime gateway (`src/realtime`) | socket rooms, presence, sequence and attendance caches, offline queues | connect, join, leave, location, attendance, acknowledge, disconnect | joins await an authorisation query; reconnects; caches lost on restart; three different room names for one trip | only members get broadcasts; positions never go back |
| Smart alerts (`modules/alert`) | `SmartAlert` rows, Redis locks and state keys | raise, acknowledge, resolve, evaluate, purge | lock before insert, unconditional status updates | an alert is raised once and not lost; resolved stays resolved |
| Geofences (`modules/geofence`) | `Geofence` rows, per-node cache, Redis channel | create, update, delete, evaluate | a hydration races an invalidation; publications get lost | a node does not serve a stale fence for ever |
| Reports (`modules/report`) | subscriptions, executions, files | claim due, generate, retry, clean up | several schedulers, crash after a claim | each due run is produced once; retries are bounded |
| Health (`modules/health`) | metrics, last state in Redis | collect, alert | get and set in two calls by several nodes | one alert per change |
| Fleet (`modules/fleet`) and its browser store | snapshot, version, delta queue | event, flush, snapshot | queue limit, restart resets the version | a client converges to the snapshot |
| HTTP attendance (`modules/attendance`) | `DailyAttendance` rows | record, lock | lock checked, then upserted | a locked day does not change |
| Organisation, user, bus, driver, student, parent, route, schedule | one table each | create, read, update, delete | little | uniqueness |
| Audit, storage, analytics, middlewares | rows, files, none | append, read | little | append-only |
| Browser client (`frontend/src`) | tokens in local storage, offline queue, stores | refresh on 401, emit, flush, apply deltas | two tabs share one token; bounded queue; stale deltas | one refresh at a time; nothing is sent twice |

How they interact: HTTP handlers call services; services talk to the database
through Prisma and to each other through an in-process event bus
(`utils/event-bus.ts`: notification module, fleet aggregator) and through
socket rooms; notification jobs travel through Redis lists; alerts and health
call `NotificationService.dispatch` directly; refresh looks at the user and
organisation rows that the administration services write. The browser talks to
all of it over REST (`apiClient`) and over one socket (`socketClient`).

Remarks on the wiring at this commit, which decide what the models' inputs are:

* No route constructs `EmergencyService`; its module is about the service's own
  promises to whoever calls it. The same holds of `updatePreferences`,
  `getPreferences` and `invalidateCache`, and of the attendance and fleet hooks
  of the browser, which no page mounts.
* `startTripSchema` strips `vehicleId` from the body of `POST /trips/start`, so
  over HTTP every start is refused at `trip.orchestrator.ts:43`; the model is of
  `TripService.startTrip`.
* The mounted login form sends e-mail and password only, while `loginSchema`
  requires a `deviceType`; `useLogin` then stores `data.token`, a field the answer
  does not have; and `AuthProvider` asks `GET /auth/me`, which no router serves.
  `BrowserSession` has the form's fields as a constant, `LoginSends`, so that what
  follows a login can be checked as well.
* One trip has three room names: a join enters `trip_<id>`, the socket handlers
  broadcast to `trip_room:<id>`, the REST path to `trip:<id>`.
* Nothing emits `trip:end` in the browser, no handler serves
  `client:fleet:request_snapshot`, no service registers itself with the health
  registry, nothing sets `isLocked`, and only tests enqueue an offline notification.

## 2. Modules

| Module | Models |
|---|---|
| `TripStateMachine` | `TRIP_TRANSITIONS`, `validateTransition`, and the closure `Later` of the table |
| `TripLifecycle` | `assignTrip` and the orchestrator's three operations over the `Trip` table |
| `TripBoard` | abstract: every trip operation takes effect at once; an assignment respects the live trips that were on the board when it opened |
| `TripLifecycleProofs` | theorems about `TripLifecycle` |
| `AuthSession` | register, login, refresh, logout over `DeviceSession` |
| `TokenChain` | abstract: a session is one chain of refresh tokens, cut at most once |
| `AuthSessionProofs` | theorems about `AuthSession` |
| `EmergencyService` | report and transition with both transactions and the event |
| `EmergencyDesk` | abstract: atomic legal moves, no two ACTIVE emergencies of a trip |
| `EmergencyServiceProofs` | theorems about `EmergencyService` |
| `NotificationPipeline` | dispatch, lists, workers, retries, shutdown, crash, restart |
| `NotificationPipelineProofs` | theorems about `NotificationPipeline` |
| `SocketGateway` | connections, rooms, presence, joins that await their authorisation, the location broadcast |
| `LocationFeed` | fixes of a driver's devices, through queues and sockets, to the room and the ETA engine |
| `FleetFeed` | the fleet's deltas and snapshots, and the administrator's copy |
| `Reports` | the scheduler's claims, generation, mails, retries, exports, retention, crashes |
| `FenceWatch` | stored pings, cached fences, crossings, deduplicated alerts, purges |
| `Records` | the registers of eight administration services with their keys and audit trail |
| `DailyAttendance` | submissions of HTTP attendance, row by row, with row locks and deadlock |
| `Preferences` | the cache of notification preferences and the decisions made by it |
| `HealthAlerts` | overlapping evaluations and the last state in Redis |
| `HealthSnapshots` | the hourly snapshot behind an expiring lock |
| `SocketClient` | the browser's socket: offline queue, status, tokens, sign-out |
| `AttendanceSync` | taps, the offline store, the flush loop and the server's handler |
| `RollCall` | abstract: taps are entered on the server's roll once each, in order, until it restarts |
| `BrowserSession` | session store, hydration, login, single refresh, router guards |
| `Screens` | React Query's cached views and the user's own changes |
| `MCTripLifecycle`, `MCAuthSession`, `MCEmergencyService`, `MCNotificationPipeline` | instances for TLC |
| `MCRealtime` | `SocketGateway`, `SocketClient`, `AttendanceSync`, `BrowserSession`, `Screens` side by side |
| `MCOperations` | `SocketGateway` and the nine modules from `LocationFeed` to `HealthSnapshots` side by side |
| `RealtimeProofs` | theorems about `SocketGateway`, `LocationFeed`, `FleetFeed` |
| `RegisterProofs` | theorems about `Records`, `DailyAttendance`, `Preferences` |
| `JobsProofs` | theorems about `FenceWatch`, `Reports`, `HealthAlerts`, `HealthSnapshots`, and about `MCOperations` as a whole |
| `BrowserProofs` | theorems about `SocketClient`, `AttendanceSync`, `BrowserSession`, `Screens`, and about `MCRealtime` as a whole |

`MCRealtime` and `MCOperations` are sums, not products. Their components share no
state, so their interleavings would say nothing; the initial state chooses one
component, in the variable `part`, and that one runs alone while the others stay
as they are. A run over a sum checks each component exactly as a run of its own
would. In `MCRealtime` the fairness of all components is assumed at once: none of
the fair actions is enabled in an initial state, so for a component at rest it
asks for nothing. In `MCOperations` the sets of interchangeable values (workers,
servers, requests, readers and so on) are all the same `{one, two}`, so that one
symmetry serves whichever component runs; no component compares such values but
for equality. No liveness is checked there.

Operators named `...Lax`, `...Blind`, `...Unchecked` and the like, commented
MUTANT, are not part of any specification. Each is a plausible bug of the
definition that follows it, and PROJECT.json says which property it breaks.

### TripLifecycle and the code

`status` and `booking` are the columns of `Trip`; `today` is the service date
of the organisation's time zone; `pc`, `want` and `call` are the handlers'
local variables; `started` counts publications of `trip.started`. `ABSENT` is a
row that does not exist yet. `AssignBegin` is `validateAssignment` up to its
first availability query, `AssignCheck` the other two, `AssignCreate` the
insert. `StartRead`, `EndRead` and `UpdateStatusRead` are the three operations
up to their validation; from there they share `UpdateWins`/`UpdateLoses` (the
`updateMany` with the status that was read in its WHERE clause), `Reread` and
`Publish`. The audit write has no state of its own: its failure is `Abort`,
which also stands for a failed query, a refusal and the death of the process.
Driver and vehicle of a start request are taken to be the booked ones, since
the code refuses all others without effect. `TripStatus` has the seven values
some code writes; `COMPLETED` and `CANCELLED` have no entry in the code's table,
which `validateTransition` treats as no successor. `known` and `foreseen` are history
variables: the rows there were when a handler began to assign, and, for a row, when its
own assignment began. In `TripBoard` the open assignments and `known` are part of what
is promised: `ImplementsTripBoard` maps `open` to the handlers between `AssignBegin`
and the end of their transaction.

### AuthSession and the code

A refresh token is a session and a generation; `gen` is the generation whose
hash the row holds, so equality of hashes is equality of generations.
`expires[s][g]` is the expiry of that token and of the row while it holds it
(both are set from one `Date.now()` and seven days). One account is modelled:
`register` or an administrator creates it, and `SetAccount` suspends or
reactivates it or its organisation; refresh reads both in `RefreshAccount`.
`known` holds the tokens that reached a client: an answer may be lost (`Abort`
in `greet` or `answer`), after which the row is ahead of every client.
`exchanged` and `rival` are history variables of the properties.

### EmergencyService and the code

`CreateCheck` is `findActiveByTripId`; `CreateWithHistory` is the insert
transaction, one step because it waits on nothing but its own two inserts.
`ValidateTransition` is `findById` and the table; `ReadCurrent` the
transaction's own read; `UpdateByVersion` the update by id and version, the
history row and the commit, one step because the updated row stays locked until
the commit. The unique constraint guards insert and update.

### NotificationPipeline and the code

A recipient is a `NotificationRecipient` row (a user and a channel). `Dispatch`
is the transaction of `dispatch`, `Enqueue` one turn of its loop. `Poll` is
`LPOP`, on the same end `LPUSH` pushes to, as in the code. `MarkProcessing`,
`Send`, `RecordSent`, `StepFails`, `MarkFailed` are the awaits of `processJob`;
`Retry`, `Exhaust` and `RetryFails` the catch of `startPolling`. `Shutdown`
disconnects Redis first, then waits: a stopping node pops and pushes nothing,
and its jobs in hand finish or are lost at `Stopped`.

### SocketGateway and the code

A socket id is used once; a client that reconnects comes back under another.
`Connect` is the authentication middleware and the connection handler with its
default rooms. `JoinTrip` begins a join; `FindTrip`, `FindStudentStop` and
`QueryFails` are the answers of its queries, each with the rest of the join up to
the next query (`Decide`). `LeaveTrip`, `LocationUpdate`, `LocationStop`, `TripStart`
and `Disconnect` run to their end without an await. `session` is the presence map
of the process, `told` what the admin room last heard. The driver's handlers do not
ask whether the trip is his: the sender's active trip is what `TripStart` stored,
and no guard ties it to the driver. `entitled` is a history variable.

### LocationFeed and the code

Fixes are numbered over all devices and the number is the timestamp. `Emit` sends
over the connection or into the client's queue; `GoOnline` is a new connection with
the flush of that queue, `GoOffline` its loss with everything on it; `Receive` is
the server's handler for the next packet of a device. On the server the active
trip is kept with the socket and the last sequence number with the driver; a trip
start resets the latter. `useETAUpdates` and `useTripSubscription` parse the envelope
instead of its payload and are dead code; stop events of the engine cannot occur,
since nothing gives it stops. `late` is a history variable.

### FleetFeed and the code

A state of a vehicle is the number of its change; a version is the server's clock
in milliseconds, so several changes may share one. `Change` with `QueueDelta` cuts
the queue at its limit, `FlushDeltas` is the broadcast of the merge every three seconds,
`Visit` sends a snapshot, and the page's copy takes a delta only if its version is
newer (`TakeMessage`). The aggregator reads `payload.latitude`, `longitude` and
`vehicleId`, which the updates of trips do not carry: the changes of the model are
those that do reach it. `missed` says what the page cannot know: changes cut from a
full queue, or of the millisecond of a version the page already had.

### Reports and the code

Subscriptions and executions are rows; workers are the scheduler's loop or a request
on any process. `FindDue` and `FindFailed` are the queries, `ClaimDue` and `ClaimRetry`
the conditional updates that claim a row; `ExportOnDemand` is a request. Each goes on
with `CreateExecution`, `Generate`, `Mail` and the settlement, or `GenerationFails`;
`CrashOf` may come after any of them. A retry claims the failed row and generates a
new one. `Cleanup` is the retention job.

### FenceWatch and the code

A ping is read against the trip (`FindActiveTrip`, `FindLatestPing`), numbered and
stored (`CreatePing`), placed by the fence its process has cached (`AskForFences`,
`Hydrate`, `Evaluate`), compared with the last place by `GETSET` (`Compare`), and
announced under the deduplication lock (`TakeLock`, `StoreAlert`). `Attend` is
acknowledgement and resolution, `CleanupExpired` the nightly purge. Concurrent pings
of one trip can take the same sequence number; they are stored in the order of their
own times or not. Two hydrations of the cache may store the older table last. The
categories of alerts are those of one vehicle: two of them, each with its lock.

### Records and the code

`rows` has the rows of all tables by id, in order of creation. `Request` chooses an
actor, an operation and its arguments as the router lets them through, with the
reads before the transaction; `Write` is the transaction with its unique and
foreign keys and, but for routes and schedules, the audit entry; `LogWrite` is the
statement after it; `Fail` is the end of a request at any await. The tenant of a request is the
caller's, except for the SUPER_ADMIN's header, and schedules use the token's home
organisation in either case. `services/audit.service.ts` swallows errors in `log()`;
a refusal by `requireOwnership` writes an entry that is not modelled. Route names
have a pre-check only, `deleteRoute`'s check of active schedules races
`createSchedule`, and `UserService` deletes or demotes a driver without looking for
an open trip; these are in the model, and no property promises otherwise. That rows
differ in their keys is the database's doing and is not stated as a property.

### DailyAttendance, Preferences, HealthAlerts, HealthSnapshots and the code

`DailyAttendance`: `RowsAskedFor` is the query for schedules, `WriteRow` one turn of the
transaction's loop, which waits for the row lock of another transaction; `RollBack`
stands for a failing statement, a crash, and the database ending one of two
transactions that wait for each other. A `scheduleId` of the body is not compared
with the student's. `Preferences`: `Look` finds a fresh entry or starts a query; the
answer of a query that began before an update may be stored after it. An entry of
`getManyPreferences` expires by the time of the look, that of `getPreferences` by that
of the answer. `HealthAlerts`: `Record` sets the last state before `DispatchAlert`, so
a failed dispatch loses the alert; two evaluations may both tell one change; a
recovery is not told when another evaluation overwrote the CRITICAL it would have
read; OFFLINE cannot be recorded in Redis while Redis is what is off. `HealthSnapshots`:
the lock is never given back, it expires.

### SocketClient, AttendanceSync, BrowserSession, Screens and the code

`SocketClient`: `EmitNow` and `EmitLater` are `socketClient.emit` on a connection and
into the queue; `Accepted` flushes the queue. The status is set by `Accepted`,
`Refused`, `Unreachable` and `Dropped`; a status of `AUTH_FAILED` is never repaired
by itself. `AttendanceSync`: a tap's number is its event id and timestamp;
`StartFlush`, `AckArrives` and `AckTimeout` are the turns of the flush loop,
`HandleMark` the server's handler with its processed ids and latest timestamps, both
lost by a restart. `BrowserSession`: `Hydrate`, `Redirect`, `RefreshFails`,
`Unauthorised` are the callbacks of the provider, the guards and the interceptor.
`Screens`: a view is the number of changes its answer has seen; `SubmitChange`,
`ChangeCommits` and `ChangeSucceeds` are a mutation, its commit on the server and the
invalidation that follows its answer, and fetches may outlive each of them. The resources
differ in what they poll and invalidate. Only some of the hooks are mounted by a
page, and the geofence, alert and health hooks use an axios without the
Authorization header.

## 3. Runs

| Run | Checks | Instance |
|---|---|---|
| `trip` | `OnlyRacesDoubleBook`, `StartAnnouncedOnce`, `AnnouncementIsHistory`, refinement of `TripBoard` | 2 trips, 2 drivers, 1 vehicle, 1 schedule, 2 days, 2 handlers (3 200 000 distinct states, two minutes) |
| `trip_double_booking` | `NoDoubleBooking` is violated | 2 trips, 1 driver, 1 day, 2 handlers |
| `auth` | `TokenExchangedOnce`, `ReplayMeansStale`, refinement of `TokenChain` | 1 session, 3 handlers, 3 generations, clock to 3, lifetime 2 |
| `auth_replay` | `LosingRefreshKeepsSession` is violated | 2 handlers |
| `emergency` | `HistoryIsPath`, `AnnouncedOnce`, refinement of `EmergencyDesk` | 2 emergencies of 1 trip, 2 handlers |
| `emergency_stuck` | `OpenEmergencyCanMove` is violated | the same |
| `notifications` | `OneCopy`, `Persistence`, `SentIsSettled`, `PolledQueuesDrain` (liveness) | 1 notification, 2 recipients, 2 nodes with 4 workers each, 1 stop, priorities HIGH and CRITICAL |
| `notifications_critical` | `EveryQueueDrains` is violated | the same with 1 node |
| `realtime` | browser and gateway, with liveness; see below | one of five components at a time |
| `realtime_unfed` | `SubscribersAreFed` is violated | the gateway with a parent and a driver |
| `operations` | the server's other components, safety; see below | one of ten components at a time |
| `report_retries` | `RetriesAreBounded` is violated | 1 worker, `MaxRetries` 1, no crash, no export |

`realtime` (70 000 distinct states, one minute):

| Component | Properties | Bounds |
|---|---|---|
| `SocketGateway` | `JoinsAreAnswered` | 2 sockets, a parent's and a driver's, 1 trip |
| `SocketClient` | `ReceivedInOrder`, `SignOutForgets`, `AttemptsEnd` | queue of 2, 4 events, 2 tokens, 1 connection lost |
| `AttendanceSync` | `MarksSurviveTheLink`, `MarksAreSettled`, refinement of `RollCall` | 2 students, 3 taps, 1 break, 1 restart, 1 late acknowledgement |
| `BrowserSession` | `RedirectsEnd`, `RequestsAreSettled` | 2 calls, every role, every page of the router |
| `Screens` | `OwnChangesShow` | 2 changes, every view of fourteen resources |

`operations` (900 000 distinct states, two minutes):

| Component | Properties | Bounds |
|---|---|---|
| `SocketGateway` | `PresenceIsTrue`, `MembersAreEntitled` | 4 sockets: two of a parent, one of the driver, one of an operator of another organisation |
| `LocationFeed` | `PositionsGoToTheirTrip`, `OnlyRivalsAreLate` | 2 devices, 2 trips, 3 fixes, 1 outage, 2 starts |
| `FleetFeed` | `QuietCopyIsTrue`, `PictureNeverGoesBack` | 2 vehicles, queue of 2, 4 changes, clock to 3, 2 visits |
| `Reports` | `MailedOnce` | 1 subscription, 2 workers, clock to 3, 3 executions, 1 export, 1 crash |
| `FenceWatch` | `CrossingsAlternate`, `OneAlertPerLock`, `StoredInOrder` | 2 pings, 1 process, 1 edit, 1 expiry of a lock |
| `Records` | `AccountedFor` | 2 requests by 4 actors over 13 rows of two tenants |
| `DailyAttendance` | `DayIsUniform` | 2 submissions, 2 schedules, 1 switch |
| `Preferences` | `DecisionsAreRecent` | 2 readers, a day of 4 minutes, 3 versions of the row |
| `HealthAlerts` | `RecoveriesAreEarned` | 2 evaluations at a time, 4 altogether |
| `HealthSnapshots` | `OneSnapshotPerHour` | 2 processes, 3 hours of 4 steps |

The types, of each component and as the conjunction `TypeOK` of each sum, are
theorems and not checked by a run.

### Bounds, and why they are enough

* `MaxDay` (trip): the code compares service dates with equality and with
  today; a past, a present and a future booking need two days.
* Two trips and two handlers: every race in the orchestrator is between one
  reader and one writer of one row, and a clash is between two rows. The
  theorems lift both numbers.
* `MaxTime`, `TTL`, `MaxGen` (auth): with a lifetime of 2 and a clock to 3 a token
  is fresh, at its last instant and expired, and a rotated one outlives the
  first; three generations give a token, its successor and a stale one. Three
  handlers allow a winner, a loser and a third one that deletes or is late. The theorems
  lift all of them.
* Emergencies are bounded only by their number: the table has no cycle, so
  versions are bounded by it.
* `MaxStops` (notifications): one crash or shutdown, at any point. Attempts are
  bounded by the code's own `MAX_RETRIES`.
* Two of everything that competes (workers, readers, requests, devices, evaluations,
  processes): the code never counts its competitors, and each race is between one that
  read and one that wrote meanwhile.
* `QueueCap` (100 in the code) and `DeltaCap` (500) are 2, so that the full queue is
  reached with events to spare: four events pass a queue of two twice, four
  changes cut one from a queue of two and still flush.
* `MaxOutages`, `MaxDrops`, `MaxBreaks`, `MaxCrashes`, `MaxCrashesOf` are one: a fault may
  come at any point, and what it loses is then seen by everything after it. A
  second fault would start from a state that is reached without the first, except
  in `SocketClient`, where `MaxTokens` brings a second connection.
* `MaxTaps` of 3 over two students: a mark, a later one for the same student, and one
  for another that may be lost between them.
* `Hour`, `LockTtl`, `MaxSkew` (health): the shortest hour that is longer than the
  lock, and the shortest lock that is longer than the skew; theorem
  `SnapshotsAreSingle` lifts the numbers. `CacheTtl`, `MaxQuery` and `DayLength`
  (preferences): an entry of each minute of the day, read while it holds and after;
  the two preferences are quiet hours that cross midnight and none at all. Theorem
  `PreferencesAreRecent` lifts the numbers and the preferences.
* The seed of `Records` has a row of every kind in the tenant of the actors, and what a
  second tenant needs; two requests are every pair of operations.
* `Retention`, `Day` (reports): an execution falls due, fails, is retried and is cleaned
  up within the clock. `MaxRetries` is the code's 3, except in `report_retries`, where
  1 gives the shortest counterexample.
* `CHECK_DEADLOCK FALSE` in the emergency, notification, `realtime` and `operations`
  runs: the system stops when all emergencies are closed or all jobs dealt with; a
  gateway whose sockets have all closed, or a component that has used up its bounds, rests.

### Fairness

`notifications` and `notifications_critical`: `FairSpec` assumes weak fairness of each
dispatch loop, each worker, and each node's stop and restart: the event loop
resumes a settled promise, `setTimeout` forces the exit of a hanging shutdown
(`server.ts:50`), and the container is restarted (`docker-compose.prod.yml:45`). It
does not assume that a notification is ever raised or that any step succeeds: a
send may fail every time.

`realtime` and `realtime_unfed`:

* `GwFairness`: a query for a join ends, with an answer or an error.
* `ClFairness`: socket.io-client tries again by itself until it is told to stop
  (`reconnectionAttempts: Infinity`), so an attempt is accepted or refused while
  the server can be reached; a dead connection is noticed by its heartbeat.
  Nothing is assumed of the network's failing or of the user.
* `AtFairness`: the flush loop starts when there is a connection and something in
  the queue, its timer fires, a message on a connection that stays arrives and is
  handled, and the client reconnects. Breaks, restarts and late acknowledgements
  are bounded instead, since a link that is always broken settles nothing.
* `BsFairness`: the provider's effect and the guards' redirects run, and a call that
  gets a 401 or a refresh that fails says so. That a call succeeds is not assumed.

The actions named are handlers, timers and callbacks of one event loop each, which
stay enabled until they run: weak fairness is what a loop that does not hang gives.

## 4. What the runs found

1. **Double booking** (`trip_double_booking`): two assignments at once both pass
   the availability queries and both insert; read committed does not serialise
   them and no constraint refuses. What does hold is `OnlyRacesDoubleBook`: two live
   trips clash only if neither was in the table when the assignment of the other
   began, so assignments that do not overlap never double-book.
2. **A lost race deletes the session** (`auth_replay`): of two refreshes with one
   token the loser, if it reads the row after the rotation, takes the replay
   branch and deletes the session of the winner. The test that says otherwise
   mocks the one order in which it does not happen.
3. **A stuck emergency** (`emergency_stuck`): the constraint
   `activeEmergencyPerTrip` covers terminal statuses, so once a trip has a
   RESOLVED emergency a second one that is RESPONDING can never be closed.
4. **An unpolled queue** (`notifications_critical`): alerts of priority CRITICAL go
   to a Redis list without a worker.
5. **Subscribers get no positions** (`realtime_unfed`): a join enters `trip_<id>`,
   the location handler broadcasts to `trip_room:<id>`.
6. **Retries without end** (`report_retries`): a retry is a new execution that counts
   from zero, so a report that always fails is generated for ever.

Everything else the models state holds. Some weaknesses are in the models without a
promise of the code to hold against them: a fetch that is the first of its view, or
whose page was left, outlives an invalidation and shows the older list as fresh;
the detail of a deleted row stays in the browser's cache, and `myChildren` is never
invalidated; an acknowledgement after a resolution reopens an alert; a change of
health may be told twice, or not at all when its dispatch fails.

## 5. What is proved

TLAPS checks the following for every value of the constants. Every invariant, every
step property and every refinement that a passing run checks is a theorem. The other
theorems state types (`TypeCorrect`, `...TypesHold`) or an inductive invariant
(`...Invariance`), and `QuietIsArc` is about an operator.

The invariants follow one pattern: beside types and the property itself, each says
what a handler that has read something, or a message that is under way, still has in
common with the state it was taken from.

*Trip lifecycle.* The inductive invariant is `TypeOK` with four parts.
`CallsOK`: a handler past its read works on an existing row towards a status the
table allows from what it read. `HistoryInv`: since then the row has only moved
along the table, which is why a status that is still equal at the update means
that the decision is still legal. `StartInv`: a handler between its winning start
and its publication is the only one of its trip, and the trip has left
SCHEDULED for good, because no arrow leads back. `BookingInv`: the rows that an
assigning handler knew of when it began, and that are still live, leave free every
field it has checked so far; another handler's insert does not disturb that,
because the row it takes was not one of them. From these follow
`AnnouncementsAreHistory`, `StartsAreAnnouncedOnce`, `OnlyRacesCanDoubleBook` and
`ImplementsBoard`, for any number of handlers that assign, start, change and end trips
at once. `OnlyRacesDoubleBook` rests on the status updates as well: a trip that is
CANCELLED never becomes live again (`NoRevival`).

*Authentication.* `ChainInv`: exactly the generations below the row's have been
exchanged, each once; a handler's token is one the row has held, and a handler
about to delete or to answer is behind the row; two handlers never create the
same session. From it `TokensAreExchangedOnce`, `ReplaysAreStale` and
`ImplementsChain`.

*Emergency.* `PathInv`: the rows agree with their histories, and a handler that is
going to move an emergency has `expectedVersion <= version`, and, if the two are
equal, a `current` and a `next` that are right for the status the row has. So
the version check makes the stale validation and the early read of
`previousState` harmless. From it `HistoriesArePaths` and `ImplementsDesk`.
`AnnouncementsAreSingle` needs `News` as well: what has been announced, or is about to
be by a handler past its commit, is on the row's path, once. Every arrow of
the table leads up in `Rank`, so a status the row has left is not entered again
and its announcement is never due a second time.

*Notification pipeline.* The inductive invariant is `Typed` (the types of rows,
hands and what dispatch still has to push), `Alone` and `Books`. `Alone`: two
different places, among the entries of all lists, the hands of all workers and the rest of
the dispatch loops, never hold a job of the same recipient, and a list is a
sequence without repetition. It is stated by places because `OneCopy` counts, and a
push at the head of a list shifts every index behind it. `Books`: for each
place, the row is in the status and has the count of attempts that the place
implies, and a recipient that is in no place is settled or was lost with its
node. `JobsAreSingle`, `JobsPersist` and `SendsAreSettled` follow.

*Gateway.* The inductive invariant adds one fact to the types and the two properties:
whoever waits for the query of a stop is a parent of the trip's organisation
(`StopQueriesOK`), which the first query found and nothing changes. A decision, the
entry and the check that the socket is open are one step, so no disconnect falls between
them. `PresenceIsAlwaysTrue` and `MembersAreAlwaysEntitled` follow.

*Location stream.* A device's buffer and its connection are one line of events, one part
of which is always empty (`OneLine`). On the line every update follows the start of its
own trip or an earlier update of it (`LinesAreInOrder`), and what the server has stored
for the socket stands for the event before the first: so a position is handled under
the trip it was taken on (`PositionsReachTheirTrip`). Where one device alone has
tracked, the numbers on its line lie above the server's from its last start on
(`LonersAreCurrent`), hence `RivalsMakeLate`.

*Fleet.* `QuietCopiesAreTrue` looks ahead: of every vehicle that nothing was cut of, the
last message under way that the page will take a state from brings the server's, or,
if none does, the page has it already; or else the vehicle's last change is still in
the queue, and the server's version is above all that the page will know by then
(`NothingElseIsMissed`). Versions rise along the way (`VersionsRise`), and a merge takes the
last delta of each vehicle (`MergeIsTrue`). `PicturesNeverGoBack` is a step property: a vehicle's
states rise from the page along the messages to the server (`StatesRise`), because every
message carried the server's when it was made. That holds of a merge as long as what a
full queue drops is its oldest change.

*Browser's socket.* Events wait in the queue only while there is no connection, are of
the sign-in that goes on or of none (`OwnEventsWait`), and have numbers above those of
all that was received (`NumbersGrow`). `SignOutIsRemembered` and `EventsArriveInOrder` follow.

*Attendance marks.* `MarksAreKept` follows a story: the taps in order, and what the screen
showed after each. The queue holds the last taps (`QueueIsLast`); whatever the loop
awaits is about the queue's first mark (`LoopIsFirst`), however late an answer comes,
since a late one is to another emission. So the server has applied the taps up to some
number, and its standings are what the screen showed then; that number is at most one
ahead of what has left the queue (`IsFollowed`), and as each tap was a legal move on
the screen it is one on the server. The story is bound by a quantifier of the
invariant (`StoryIsKept`), so that the model needs no history variable for it.
`ImplementsRoll` maps the same to `RollCall`: due is the queue, without its first mark where
the server has that already and only the acknowledgement is outstanding. A tap is a
`Mark`, a mark that the server takes is an `Enter`, a restart a `Restart`; every turn, time-out
and acknowledgement of the loop and every break is a stutter. That the entry is a
legal move from what the roll has is part of `Enter`, so the server's check never
refuses a mark that is due.

*Cached views.* What is in the cache and not stale, and what a fetch will bring there, was
read at or after the change that the view must show (`Recent`); a change either
marks the entry or cancels the fetch, for every operation of every hook (`HooksCover`).

*Router guards.* `RealtimeTypesHold` includes that links and redirects lead to pages of the
router only, and that a place remembered by a redirect is one that needs a session.

*Registers.* Pre-checks are only ever hints: what a request remembers is for its tenant
only and leaves the tenant alone (`JobsAreProper`). The changes of a row
are the trail and the entries still owed by requests past a route's or schedule's
write: every step adds to both sides or moves one (`EveryChangeIsAccountedFor`).

*HTTP attendance.* A row is locked by exactly the submission that has written it and is
still writing (`LocksAreOfWriters`), so nobody writes into half of one
(`RegisterIsUniform`).

*Preferences.* `QuietIsArc`: the comparison of strings in `isQuietHours`, with its
case for hours that cross midnight, is membership in the arc of minutes from start
to end, for every start, end and length of day; the property speaks of the arc.
`PreferencesAreRecent` follows a version of the row from the query that read it, over
the entry it is stored in, to the decision: the query in flight knows a version that
was in force when it began, at most `MaxQuery` minutes ago, the entry one that was
when it was made, and an entry is used for at most `CacheTtl` minutes.

*Pings and fences.* The place Redis remembers is that of the last crossing, because the
exchange is one command (`PlacesAlternate`); each taking of a lock has a number that
belongs to one request or one alert (`LocksAreUsedOnce`); the newest stored ping is what
`FindLatestPing` compares with (`PingsAreInOrder`).

*Reports.* A due time is one worker's, or one failed execution's, or it was mailed, and
never two of these (`DuesAreOwned`); it is not claimed again, because the next run that
the claim writes is later (`DuesArePast`). So `ReportsAreMailedOnce`, through crashes and any
number of retries.

*Health.* `RecoveriesAreNeverInvented` is an account: the recoveries told, one for each
evaluation that is about to tell or to record one, and one for each evaluation that may yet
read a recorded failure, are paid for by the failures times the number of
evaluations. `SnapshotsAreSingle` under `SnapshotAssumption`: processes begin the hour's
job at most `MaxSkew` apart, and the lock is longer than that and shorter than the
hour. Whoever has taken the lock of an hour is alone in it, because the lock outlives
the last moment at which anyone may begin (`LockOutlastsSkew`) and is gone by the
next hour.

*The sums.* `OperationTypesHold` and `RealtimeTypesHold` are about the specifications that the runs
check. A step of the sum is a step of one component and leaves the others alone
(`EachTakesItsTurn`, `EachPartSteps`), so the invariants of all hold together.

Assumptions on constants, and why the code gives them:

* Bounds are natural numbers; days, TTL, generations, the limits of the two queues and the
  fleet's clock are at least one. Numbers and times start at zero in the code.
* The "none" values are not members of the sets they extend.
* Every emergency has a trip; a recipient belongs to one notification; what is raised is a
  priority; a socket is of a user; quiet hours lie within the day (columns and schemas).
* `PingAssumption`: a request is named by the time of its ping, a positive number.
* `EvaluationAssumption`: finitely many evaluations are at work.
* `SeedAssumption`: the first rows have all columns, and no request of the model has
  written them.
* `SnapshotAssumption`: the processes begin an hour's job less than the lock's 30 seconds apart,
  and 30 seconds are less than an hour (`health.scheduler.service.ts:38`).

Callers of a transition name a version they have seen, and one SQL statement is atomic
(Prisma translates `update` and `updateMany` with extra WHERE columns into one UPDATE).

*Only model-checked.* Liveness: `JoinsAreAnswered`, `AttemptsEnd`, `MarksAreSettled`, `RedirectsEnd`,
`RequestsAreSettled` and `PolledQueuesDrain` rest on fairness, and fairness on ENABLED, which the
prover does not treat. Induction over recursively defined data is out of its reach
too; the proofs about sequences here go by their last or first element. That `Later` is the
closure of the transition table is compared by TLC with what the table's arrows reach
(`LaterIsClosure`); the proofs use the facts of it they need, by cases.
The six violation runs are counterexamples and need no proof.

## 6. Plan

What would add most from here:

1. Two tabs of one browser: `BrowserSession` twice over one local storage, with
   `AuthSession` behind them, since a refresh of one tab makes the other's token stale.
2. The download of a report by its single-use token.
3. An abstract register for `Records`, in which every operation is atomic, with `Records`
   shown to implement it; its invariant of section 5 already holds what a
   refinement mapping needs.

## 7. Not modelled

* Geometry and floating-point numbers: point in polygon, distances, smoothing and
  times of the ETA, analytics scores. They compute values that nothing else here
  decides on; a ping is inside a fence or not.
* The offline queue of notifications: only its tests put anything into it, so in the
  program it is always empty.
* Analytics: read-only queries, cached with an expiry.
* The download of a report (`report.controller.ts:97`); CSV and JSON export; templates; e-mail,
  SMS and push providers (a send succeeds or fails).
* Signatures, password hashing, keys, request validation and rate limiting, beyond what
  the guards of the modelled operations say.
* Stops of routes, their assignment to students, users of the role STUDENT, and the entry
  that `requireOwnership` writes when it refuses. An update that changes columns and a
  link in one request is one or the other in `Records`; the trail of `Records` is that of
  the eight services, without what `auth.register` writes.
* The push `health.updated` setting the browser's cache while a poll is in flight.
* Components, layouts and pages of the browser: they render what the modelled stores
  and caches hold.
* Deployment scripts and monitoring, except that a node is restarted.
* Expiry of notifications (`expiresAt`), which the code stores and never reads.
