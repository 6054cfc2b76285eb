# openproject-nexgen-rs in TLA+

A formal model of the stateful core of openproject-nexgen-rs, a Rust port of
OpenProject: what its queue, its stores and its handlers do to shared state
when several of them run at once, checked with TLC on small instances and, for
the main results, proved with TLAPS for all.

Paths below are relative to `src/crates/`.

## 1. The system

A Cargo workspace. `op-server` serves HTML pages, `op-api` the JSON API under
`/api/v3`; both hold one Postgres pool and hand each request to a repository of
`op-db`. There are no transactions: a repository method is one SQL statement
or several in a row. Beside them stand service crates that work over a store
trait with an in-memory implementation (`op-notifications`, `op-attachments`,
`op-journals`, `op-work-packages`); all of them are `async`, take a lock for one
store operation at a time and hold nothing across an `await`. The rest is values,
pure functions, generated declarations and the tools that generate them.

| component | state | operations | what is hard |
|---|---|---|---|
| Job queue, workers (`op-notifications/src/jobs.rs`) | a map of jobs under one RwLock; each worker's clone of the job it runs; the shutdown flag | enqueue, dequeue, update, delete, retry_dead, clear_completed; the worker loop | workers and clients interleave at every await; clones written back late; workers that die; retries; eventual completion |
| Work package rows (`op-db/src/work_packages.rs`, its API handlers, `op-server/src/board.rs`) | the table, with `lock_version`; the page each client has in front of it | create, update, update_status, delete; the edit form's GET and POST | optimistic locking by three kinds of caller; a read and a write in one handler |
| Work package service (`op-work-packages`) | rows and a counter in memory | create, find, update | version check and write in separate steps |
| Attachments (`op-attachments`) | records in a store, files in a storage | create, copy_to, download, attach_to, delete, cleanup_orphans | two stores kept in step without a transaction; whole-record write-backs; a snapshot worked through later; dropped calls |
| Journals (`op-journals`, `op-db/src/journals.rs`) | versioned entries per entity | record_creation, record_update, delete_history | the next version computed before the write |
| Notifications (`op-notifications/src/service.rs`) | notifications, settings; enqueues on the job queue | notify, mark_read, mark_all_read, delete | partial failure of notify; read-modify-write |
| Other repositories (`op-db`) | one table each, almost no UNIQUE or foreign keys | check, then write, in separate statements | uniqueness, default flags, positions, nested sets, cascades |
| Sessions and the authenticator (`op-auth`) | a map of sessions; tokens carry their own state | set, get, delete, delete_user_sessions, cleanup_expired; authenticate | late set after delete; the boundary of expiry; which credential decides |
| Health (`op-server/src/health.rs`) | a cached report | check | read under one lock, refreshed under another, with an unbounded wait in between |
| Metrics (`op-server/src/metrics.rs`) | relaxed atomic counters | count a request, export | a request counts in several steps around an await, a scrape reads in several |
| Services and contracts (`op-services`, `op-contracts`) | none of their own; the entities they return, the user context they act for | create, update, delete, lock, archive | which contract an update is held to; stale contexts; boundary values |
| API handlers (`op-api`) | the pool; the rest is in the tables | gate, a sequence of repository calls, an answer for each error | what was looked up before an await; errors after a write |
| Queries (`op-queries`, `op-db/src/query_executor.rs`) | the query being built; the page a client is at | filter, sort, count, select | NULLs, days at the boundary, pages in separate statements |
| Views (`op-server/src/viewfilter.rs`, `board.rs`) | a registry filled at boot | intern, bucketized lookup | a u8 as number; positions at the edge of a bucket |
| Schema (`op-surreal-ast`) | the tables being built | one triple after the other | the order of the stream, repetitions, facts that are missing |

They interact by calls. The notification service enqueues mail jobs
(`service.rs:278-293`) that a worker takes; the API handlers and the board's
form write the same work package rows; the attachment service drives a record
store and a file storage. `PROJECT.json` lists every component, those left out
with the reason, and every hazard found with its line.

What makes each correct:

* queue: no job run by two workers, none run again after success, a bounded
  number of attempts, none lost except with its worker, each settled in the end
  unless others overtake it for ever;
* work packages: no lost update; nothing changed that the client did not see
  or did not ask for;
* attachments: every record has a whole file, and only what failed or was dropped
  leaves a file without a record; a deleted attachment stays deleted;
* notifications: what a caller is told is what happened to the notification and
  its mail; every recipient is told; a read one stays read, a deleted one deleted;
* repositories and journals: a call nobody disturbs, and no database error ends,
  does all it promises or nothing; what is kept unique is there twice only because
  requests overlapped; at most one default, no member without a role, except while
  the request responsible is still at work or after it was broken off; no version
  that ends before it starts;
* sessions: nobody taken for a user after expiry, none valid again after it is
  gone, none ended without a reason;
* services: no work package gets into a project nobody was allowed to put it
  in, or out of the store by one who may not delete it; no account is raised but
  for an administrator;
* API: an answer says what happened; nobody writes what is not his to write;
* queries: an operator and its opposites divide the rows that have a value; an
  undisturbed reader gets every match once, in order;
* health: a report is as fresh as its cache promises, and follows the database;
* metrics: the classes add up to the total, whatever was dropped or overlapped;
* views: a number stands for one view for ever; a field is found in its bucket;
* schema: whatever the order of the facts, the outcome has no dangling links, every
  index is on the column it is made for, no association is lost, and a column
  asserts all its validations, unless it was found NOT NULL without a type after
  them.

## 2. Modules

| module | models | is used by |
|---|---|---|
| `JobQueue` | `jobs.rs` | `MCJobQueue` (instances), `MCLiveness`, `Notifications` |
| `JobLifecycle` | abstract: what a queue with retries promises about each job | `JobQueue` (INSTANCE) |
| `WorkPackageRows` | `work_packages.rs` of op-db and op-api, the edit form in `board.rs` | `MCWorkPackageRows`, `WorkPackageRowsProofs` |
| `WorkPackageService` | `work_package_service.rs` | `MCWorkPackageService`, `WorkPackageServiceProofs` |
| `LinkedStore` | abstract: load-linked / store-conditional | `WorkPackageRows`, `WorkPackageService` (INSTANCE) |
| `Attachments` | `service.rs` and `storage.rs` of op-attachments | `MCAttachments`, `AttachmentsProofs` |
| `Repositories` | the other repositories of op-db, the handlers that call one more than once, `journal_service.rs` | `MCRepositories`, `RepositoriesProofs` |
| `Notifications` | `service.rs`, `notification.rs`, `channels.rs` of op-notifications; EXTENDS `JobQueue`, which it enqueues on | `MCNotifications`, `NotificationsProofs` (of both) |
| `Sessions` | `session.rs`, `middleware.rs`, `jwt.rs` of op-auth | `MCSessions`, `SessionsProofs` |
| `Api` | the handlers of `/api/v3`, the extractor of the user | `MCApi`, `ApiProofs` |
| `Queries` | the builder, the presets, the executor's SQL and paging | `MCQueries` (instance), `MCServer`, `ServerProofs` |
| `Schema` | `from_triples.rs` of op-surreal-ast and its table builder | `MCSchema` (instance), `MCServer`, `ServerProofs` |
| `Services` | the services and contracts of users, projects and work packages | `MCServer`, `ServerProofs` |
| `Health`, `Metrics` | `health.rs`, `metrics.rs` of op-server | `MCLiveness`, `MCServer`; `ServerProofs` |
| `Views` | `viewfilter.rs`, the registry `board.rs` fills at boot | `MCServer`, `ServerProofs` |

`MCServer` puts `Services`, `Metrics`, `Views`, `Queries` and `Schema` into one
instance, `MCLiveness` the queue and `Health`. These parts share no variable and no
call, so no step of one can help or hinder another: a behaviour is about one of them,
chosen in `ServerInit` or `LivenessInit`, fair to that one, and the others stay in an
initial state. Their definitions carry different names for that purpose
(`HealthInit`, `MetricsNext`, ...).

### JobQueue

`jobs` is the HashMap; a job is its status, its retries and `due`, whether
`is_ready` holds. Queue, priority, `max_retries` and job type never change after
`enqueue` and are constants. Each queue operation holds the write lock
throughout and is one action: `Enqueue`, `Delete`, `RetryDead`,
`ClearCompleted`, `Dequeue`, `Report` (the worker's `update`). `JobWorker::run`
is four actions: `Loop` (the flag), `Dequeue`, `Handle` (the handler, which may
fail), `Report`. An unknown job type skips `Handle`. `hand` is the clone
`dequeue` returned: `Report` computes the new job from it and stores it whatever
the map holds by then, as `update` does. The sleeps between polls change nothing
and are left out, as is the loop's error branch: the in-memory queue returns no
error. `Crash` is a worker whose task is cancelled or panics; `BecomeReady` is
the clock. `Renew`, of `EndlessSpec` and `LivenessNext` only, lets clients enqueue for ever: an id stands
for a new job once nothing of the last is left. `max_by_key` over a HashMap leaves the choice among equals open, so
`Candidates` does. `attempts`, `successes` and `lost` are history variables.
`MaxRevivals` bounds calls of `retry_dead`.

### WorkPackageRows

One SQL statement is one action. Columns are kept by class: `status` for those
the UPDATE COALESCEs, `assignee` for those bound straight that clients know,
`parent` for those bound straight that form and PATCH do not carry. `page` is
what a client last read; `Quoting` are the clients whose requests carry that
version. A `Patch` of another client carries 0, serde's default. The form's POST
is two actions, `FindExisting` and `SaveForm`; `ParseWpUpdate` carries `parent`
from the first to the second. A client may change its mind about the values
between any two steps, so what it sends is arbitrary. `MaxVersion` bounds the
number of updates of a row; a serial id is never used again.

### WorkPackageService

The store's operations are single actions, the service's `update` is
`ReadForUpdate` (find, compare, apply, bump) and `Replace` (`store.update`).
Callers quote the version they last saw. The constant `Serial` says whether
callers keep their updates apart; nothing in the service does. `MaxRows` and
`MaxVersion` bound creates and updates.

### Attachments

Each operation of the record store or the storage is one action; `pc` says
between which two of them a call stands, `my` is its copy of the record. A file is
created and then written (`fs::File::create`, `write_all`, `sync_all`; `fs::copy`), so
a put is two: one creates it, `Fill` writes it to its end or fails midway and leaves
it as it is, `partial`. `create` is `Upload`, `Fill`, `CreateRecord`; `copy_to` is
`StartCopy`, `CopyFile`, `Fill`, `CreateRecord`; `download` is `StartDownload`, `ReadFile`, `Update`; `attach_to`
is `StartAttach`, `Update`; `delete` is `StartDelete`, `Unlink`, `DeleteRecord`;
`cleanup_orphans` is `StartCleanup` (the snapshot) and then a delete for each of
it, `Sweep`, in any order. Every operation of the storage may fail, a call may
be dropped at any await (`Drop`); `lost` is the history of the files that failed and
dropped calls left. Refusals by size or type, and a put that fails before it has
created the file, end a call before it has changed anything and are left out. A record is reduced
to its file and its container; `aged` is whether it is older than the cutoff.

### Repositories

Seventeen repositories whose methods are built from the same few statements. A
method is the sequence of its statements (`Statuses`, `Members`, ...), a
statement is an action (`CheckName`, `Insert`, `ClearOthers`, ...), and two
requests overlap between any two of them, because there are no transactions. A
statement under an `if` is in the sequence and does nothing if the condition is
false. Any statement may fail and `?` then ends the method where it is; a request
whose client hangs up is dropped at its next await, which leaves the same: both are
`BreakOff`, and `MaxBreaks` bounds how many.
The tables share no state that two repositories write, so a behaviour is about
one repository, chosen in `Init`; what other tables refer to is `used`, which
changes at any time. A row is reduced to the unique column, one boolean, two
numbers and whether it is seeded; `links` is the join table. `cut`, `calm`,
`start` and `met` are history variables: what a request that was broken off left half
done, which requests have been undisturbed, the tables when they began, and the names
others stored since a request looked for them. An update of a journalled entity that
changes nothing and has no notes returns early and records nothing (`News`).

Left out: validations that refuse a request before it has written (blank
names, unknown statuses, lags, `validate_user_can_watch`), the `position` of a new row, a query's views,
whether a watcher is active, timestamps, inherited roles (nothing writes them),
reads a handler makes that its repository repeats. A user's login is checked as
its mail address is and is folded into it. Archiving, locking and unlocking are
updates of one column. News are only read.

### Notifications

A `WorkPackageNotifier` call works through the audience of an event and passes over
the one who caused it (`Skip`), except for an assignment; for each recipient `notify` is
`CheckSettings`, `CreateNotification` (which also draws the id, from an atomic counter just
before the lock is taken, and delivers: the only channel keeps nothing) and, if the recipient wants mail at once,
`QueueEmail`, which is `JobQueue`'s `Enqueue`. The results are kept as the code
keeps them. The in-memory queue never refuses a job, other implementations of the
trait may: `QueueEmailError`, for the callers in `Unlucky`. `mark_read` is
`GetToMark` and `UpdateMarked`; `mark_all_read` and `delete` hold the lock
throughout. The mail jobs are those of the notifications, so the ids of jobs are
those of notifications, and the worker, its retries, the shutdown and the queue's
clients are `JobQueue`'s own actions. The handler of `send_notification_email` is
not in the repository; it may succeed or fail. Digests send nothing and
`mark_mail_sent` is never called.

### Sessions

Each operation of the store takes the lock once and is an action, `authenticate`
never waits and is one. A request that wants to change a session gets a copy,
extends it and sets it again; `Forget` is one that does not. Who does so when is
not in `op-auth`, so any order is allowed. The strategies are those of the
configuration, in its order; each answers or passes on. Tokens are values with a
subject and an expiry, since the service keeps none; the leeway `jsonwebtoken`
allows is a constant. Api keys and passwords stand for the user the code hard-codes.
Session data, addresses and `accessed_at` decide nothing and are left out.

### Services

A service sets the given attributes on an entity, validates the outcome with a
contract and returns it: one action, with the contract as its guard, since a
failure changes nothing. The caller stores what is returned. The texts of an
entity, with its password, are good or bad as its contract judges them. `context` is
the user a call acts for, taken once (`OpenContext`). Every new entity has the
same id because `next_id` is a constant. The caller is an ideal one: he passes the entity
he has just read, so that it is never stale, which the code leaves to him (`delete`
checks the project of whatever copy it is given, `delete.rs:52-58`). As in the code, every update validates
with the contract for creation: see the remarks in section 4.

### Api

A handler is a gate, decided before anything is awaited (administrator, the user
himself, another user, anyone), a sequence of repository calls, and the errors it
answers with a status of their own. `Router` is the table of all routes, by
resource (`Joined` merges two routers); a call of a repository is one step, since what it consists of is in
`Repositories`. Between two steps another request runs, the database fails
(`Fail`) or the client hangs up (`Drop`). A row is its owner and one value.
Adding a watcher looks for it in what a join with the users shows of the newest 1000
(`search`), from which a row may go though it is there (`Hide`): its user is deleted, or
others are added.
`Extracted` is the extractor of the user: in the code as it stands whoever sends
credentials is refused, so only the anonymous user comes in; the handlers are
written for accounts, and `LetIn` is the set of users the instance lets in so that
their gates are exercised. Representers, and what lists contain, are left out.

### Queries

A query is built filter by filter and criterion by criterion, or from a preset;
then a client reads it page by page: `Count`, `Select`, and so on while
`has_next`. `FilterToSql` keeps of the SQL text what PostgreSQL looks at, column,
comparison and literals; `True` gives it SQL's meaning with NULL, and `Runs` says
whether the statement can be executed at all. ORDER BY leaves ties open, so
`Orderings` are all the orders it allows, chosen anew by each statement. `Change`
is another client between two statements. A day is its distance from today. An
attribute the executor does not know makes no condition and orders nothing. The
columns are a selection with one of every type (`IsFilter`, `IsValue` and `Criterion`
say what can be asked of them; the order of texts is left out); grouping, sums and displays, which
the executor does not read, and custom values are left out.

### Schema

The first pass collects what is order-free, the second takes one triple after the
other in whatever order they come (`Take`), some of them again (`MaxRepeats`). What
it put off is done when the stream has ended (`EndStream`), one by one: the asserts in
the order they were put off (`ApplyAssert`), a unique index for each validated column
(`IndexUnique`); `Finish` builds the tables and stubs. Names are model
values: `TargetClass` and `ForeignKey` are the tables that inflecting makes, and
`IndexName` joins columns to the name by which unique indexes are deduplicated.
`overruled` is a history variable: the columns a `$value != NONE` was put off for after
their validation. A
`jsonb` column that is declared NOT NULL, stubs for classes that were not
extracted and the kinds of validation are as in the code; the rendering of the
schema as text is left out.

### Health, Metrics, Views

`check` is `Ask` (the cached report, under the read lock), `Check` (the database)
and `Store` (under the write lock), so any number of probes stand between them. An
entry has two ages: since it was stored, which the code looks at, and of what it
found. Memory and disk always report Healthy, as in the code. `Turn` is the
database, `Tick` the clock; `MaxDelay` bounds how long the write lock is waited
for, nothing bounds `Check`.

A request is counted before and after its await (`ConnectionOpened`, `Respond`),
each atomic operation of its way out is a step (`FetchAdd`) in any order, because
the counters are relaxed; a scrape loads one counter at a time (`Load`); a
dropped request never gets to its second half (`HangUp`). The counters of queries,
cache and jobs are incremented nowhere and left out, as are latencies.

`Intern` gives a view the number of an equal one (`Reuse`) or the next (`Add`); at
`Span`, 256 in the code, the assert stops the program. `given` is the history of
numbers handed out. `Declare` lets the class whose masks are bucketized grow.

## 3. What TLC checks

| run | instance | shows |
|---|---|---|
| `JobQueueSafety` | three workers on two queues, one of which may die; three jobs, two priorities, 0 or 1 retry, one job of a type one worker does not know; one revival | `SingleHolder`, `RunningIsHeld`, `RetryAccounting`, `NoRerunAfterSuccess`, `ImplementsLifecycle` |
| `Liveness` | two workers that survive on one queue; two jobs, two priorities, 0 or 1 retry; clients that go on for ever, fair workers and clock. Three health probes, a cache of two ticks, a database that comes and goes | `EventuallySettles`, `FoundLately`, `FollowsDatabase` |
| `WorkPackageRows` | one row, two clients that quote versions, one that does not, two updates | `VersionNamesContent`, `FormKeepsHidden`, `ImplementsLinkedStore` |
| `WorkPackageServiceSerial` | two callers, two rows, updates kept apart | `ImplementsLinkedStore` |
| `WorkPackageServiceOverlap` | two callers, one row, updates overlap | **violated**: `ReplacesExpectedVersion` |
| `Attachments` | three calls, one of which may be dropped, a storage that may fail, two attachments, symmetric ids and files | `RecordHasFile`, `FileHasRecord`, `NoSharedFile`, `DeletedStaysDeleted` |
| `Repositories` | each of 17 repositories, two requests of which one may be broken off, two rows, two names, two links | `OneDefault`, `DatesOrdered`, `MemberHasRole`, `NothingReverted`, `TwiceOnlyByOverlap`, `AllOrNothing` |
| `Notifications` | two notifier calls, one of which may be dropped and one of which may meet a full queue, three users with different settings, two notifications, one `mark_read` at a time, one worker, 0 or 1 retry, fair calls | `MailMatchesResults`, `ReadAndDeletedStay`, `EveryoneTold` |
| `Sessions` | two sessions, two requests, two users, two tokens, every strategy, clock 0 to 2 | `TakenForInTime`, `GoneForGood` |
| `Api` | two requests by nobody, a user or an administrator to every route of each of 19 resources, two rows, with and without a pool and required authentication | `RefusalHasNoEffect`, `NotFoundIsTrue`, `InternalMeansTrouble`, `ByRight` |
| `SchemaAsserts` | the streams of `Server` | **violated**: `AssertsInAnyOrder` |
| `Server` | a registry of three numbers, fields in up to three buckets of two | `Bijective`, `BucketsMatchDirect` |
| | two clients with three requests, some of them scrapes | `AddUp` |
| | two service calls of a user and an administrator on two projects | `EntersWhereAllowed` |
| | up to three rows out of three kinds, with NULLs and days before, at and after today, 46 filters or a preset, up to two criteria, pages of two, one write in between | `OppositesDivide`, `PagesComplete` |
| | streams about three associations, a validated column and unique indexes of one name, two repetitions | `NothingDangles`, `AssociationOwnsColumn`, `ValidatedIsAsserted` |

The type invariants, and four properties a theorem states of every instance
(`DeletedRevivedOnlyByHolder`, `EndsForAReason`, `StackOrder`, `RaisedByAdmins`), are
not repeated by a run.

What the less obvious ones say. `EventuallySettles`: a job that workers serve ends
Completed, Dead or deleted, or the workers are told to stop, or it is overtaken for
ever -- a retry by whatever is Pending, a Pending job by those of higher priority --
which clients that enqueue without end do to it; once they enqueue and revive nothing
any more, every job settles. `RecordHasFile`, `FileHasRecord`: what a put or a copy
that failed midway leaves never gets a record, and nothing else but a dropped call
leaves a file; `cleanup_orphans` looks at records only, so such files stay.
`OneDefault`: two rows are default only while
the request that made one of them so has still to clear the others, or after it
was broken off before it did; that clearing comes last is what makes it true, and
activities, which clear first, do not have it. `NothingReverted`: where an update
is a single COALESCE statement, no column ever returns to a value nobody asks
for; the five repositories that merge in memory do not have it. `TwiceOnlyByOverlap`:
a call that stores a name that is kept unique, the next version of a journal or the
interval of a project stores one that is there already only if somebody else stored
it since the call looked. `AllOrNothing`: whatever state earlier races and broken
calls left, a call during which nobody else changed the
tables, if it returns without an error of the database, did everything its method
promises or nothing (`Accepts` and `Result` are that promise, written without
statements); one that an error or a hang-up ended before its first write did nothing.
One that is ended later leaves what it has written by then: half a membership, a
role without permissions, which calling it again completes or, if the name is taken
by now, refuses. `MailMatchesResults`: the
set of mail jobs ever enqueued is exactly the set of notifications whose caller
was told Ok and whose recipient wants mail at once. `GoneForGood`: a session that
is invalid or deleted while no request has a copy of it never becomes valid again.
`InternalMeansTrouble`: a 500 is never the answer to an error a repository has a
name for; it is a failure, or a row that was written and could not be shown. `NotFoundIsTrue` and `RefusalHasNoEffect` hold although several handlers
write first and look again for their answer: then a 404 is about a row somebody
else has deleted. `OppositesDivide`: of less than, exactly and more than n days ago
a day is in exactly one, and NULL in none. `FoundLately`: however many probes store
reports late and over newer ones, none is told what was found longer ago than the
cache lasts and its lock was waited for. `FollowsDatabase`: once the database stays
up or down, in the end every probe says so. `BucketsMatchDirect` and `Bijective` are
what the server checks of its own views at boot, for every registry and class.
`NothingDangles`: an index is on exactly the columns it is made for, and the one it is
made for is there; the columns that the scope of a uniqueness names are indexed
extracted or not, as the code's tests have it (`from_triples.rs:2886-2908`). Unique
indexes are deduplicated by name, so of `a_b` and of `a` with scope `b` only the first
is made. `ValidatedIsAsserted`: what a validated column of the outcome asserts is the
last that was written for it, all its validations or, if `has_field` found it NOT NULL
and of no known type later, that it is not NONE.

**Bounds.** Two workers on a queue are enough for any race over one job, the
third is on another queue and must not interfere; a job with no retry and one
with a single retry reach every status, and one revival every way back. The
rows of a table do not interact, so one row is enough; three clients let one
write while another's form is open and the third's version goes stale, and two
updates are enough for a version to be skipped. Two attachments let a copy share
or miss its source's file; three calls let a delete and a write-back overlap a
cleanup. Two overlapping requests and two rows show every race over one row,
one unique value, one default; a third statement sequence only adds another such
pair. Two notifications are one that mails and one that does not, in either
order; sessions live for a second, so a clock of three values has one before, at
and after expiry, and a copy extended across it. Three rows are one page and a
next one; three probes let a slow report be stored over a newer one while a third
asks; the registry is filled to its limit and asked once more, and five fields in
buckets of two end within a bucket and at its edge. Ids, filenames, versions, revivals and rows are finite, so the bounded
models come to a stop when they are spent (as a queue's workers do after
shutdown): `CHECK_DEADLOCK FALSE` in the configurations where that happens.

**Fairness.** Two runs assume any. `Liveness`, for its queue part: weak fairness of each worker's
step, because the runtime polls a task that can run and handlers return, and of
`BecomeReady`, because the clock advances. Nothing is assumed of the queue's clients,
who may enqueue, delete, revive and clear for ever or never, so `EventuallySettles` says
what becomes of a job others overtake. No worker of that instance dies: if one does,
its job is Running for ever, as `RunningIsHeld` says. For its health part: a probe is
asked again as long as the server runs, because a load balancer does, the pool gives up
waiting for a connection in the end, the lock of the cache is fair, and the clock
advances. `Notifications`: of each notifier call, because the runtime polls it.

**Abstract specifications.** `JobLifecycle` knows neither workers nor stores: a
job waits and is active in turn within its budget, success and removal are
final, a job whose worker died is stuck. `JobQueue` implements it with a job
counted as active while a worker holds it. `LinkedStore` says that a client
changes what it is linked to, and that every change breaks every link; where
`Blindly` holds, an item nobody has changed yet may also be overwritten by a
client that never looked. `WorkPackageRows` implements it with a client linked as
long as the version it is going to quote is stored, and with blind writes only
because a PATCH without a version quotes 0; `WorkPackageService` implements it
without blind writes, but only where updates do not overlap.

## 4. Findings

`WorkPackageService::update` compares versions in one step and writes in a
later one (`op-work-packages/src/work_package_service.rs:258-273`): two
overlapping updates that quote the same version both succeed, and the first
is lost. Its documentation promises a Conflict. The run
`WorkPackageServiceOverlap` shows it; `WorkPackageServiceSerial` shows that
nothing else is amiss.

The asserts of columns are to be "independent of triple stream order"
(`op-surreal-ast/src/from_triples.rs:224-226`), but the assert of a NOT NULL column of
unknown type is put on the same list (`:308`) and the last one wins (`:1099-1106`): a
column whose `has_field` comes after its validation loses the validation. The run
`SchemaAsserts` shows it.

Where else code and documentation differ, as read while modelling:

* a PATCH without `lockVersion` is taken as quoting 0
  (`op-api/src/handlers/work_packages.rs:308`) and changes a row not yet updated;
  `docs/API.md:370` says that the field is required. `ImplementsLinkedStore` holds
  of the table only with the blind writes this amounts to;
* `cleanup_orphans` deletes attachments of its snapshot without looking again
  (`op-attachments/src/service.rs:423-429`): one attached in the meantime goes
  with its file;
* `download` writes its whole copy back to count itself
  (`op-attachments/src/service.rs:356-358`): an `attach_to` in between is undone;
* `HealthConfig::check_timeout`, "Timeout for individual health checks"
  (`op-server/src/health.rs:66`), is read nowhere: `check_database` waits as long as
  the pool does (`health.rs:198`);
* `overdue`, "due date in the past" (`op-queries/src/builder.rs:261`), adds
  `LessThanDaysAgo(0)`, which the executor writes as `due_date > CURRENT_DATE`, and
  `open` adds `status_id IS NOT NULL`, which every row satisfies;
* the preset "Watched by me" (`builder.rs:497`) filters by `watcher_id`, which the
  executor does not know and leaves out: it finds every work package;
* `is_valid` (`op-queries/src/filters.rs:245`) accepts an empty list of ids, for
  which the executor writes `IN ()`, no SQL;
* `active_connections`, "Current number of active connections"
  (`op-server/src/metrics.rs:156`), is decremented after the await only
  (`metrics.rs:261`): a request dropped there counts for ever;
* a NOT NULL column "renders as a BARE kind" (`op-surreal-ast/src/from_triples.rs:169`), but
  `has_attribute` does not look (`:264`), and if it comes first the column is an
  option.

What the models show that no document contradicts, or that is no safety
property:

* a job whose worker died stays Running for ever; a job deleted while it runs is
  written back by its worker; a job in retry is not looked at as long as another is
  Pending and ready (`jobs.rs:254-280`), so clients that enqueue fast enough starve it;
* a put or a copy that fails midway leaves a part of a file, which nothing removes;
* adding a watcher searches the newest 1000 of a join with the users for the row it has
  written (`op-api/src/handlers/watchers.rs:87-99`): if the user is deleted meanwhile, or
  more than that were added, the answer is 500 though the watcher is there;
* requests that overlap, and nothing else, create a name, a membership, a
  relation or a journal version twice, give two projects one interval, delete a
  row that is being referred to, and undo each other's columns in the
  repositories that merge in memory (`activities`, `versions`, `categories`,
  `relations`, `queries`);
* a request that fails or is dropped between its statements leaves two defaults, a
  member without roles, a role without permissions or a query without its views;
* when enqueueing fails, `notify` returns an error though the notification is
  stored, so a caller that tries again notifies twice;
* a request that holds a copy of a session brings it back after a logout; an
  invalid bearer token ends authentication, an invalid cookie does not;
* services validate every update with the contract for creation: editing a work
  package needs `add_work_packages`, and a user who is no administrator can never
  update himself although `op-services/src/users/update.rs:111` says "Users can
  update themselves". The contracts for updates, with their own rules (an
  identifier does not change, no project is its own parent), are used by no service.
  Moving a work package asks for nothing in the project it leaves, and a user context
  is taken once, so an administrator who was demoted since still passes: of both,
  `EntersWhereAllowed` and `RaisedByAdmins` say nothing.

## 5. What is proved

For every value of the constants within the modules' assumptions:

| theorem | statement |
|---|---|
| `NotificationsProofs!TypeCorrect`, `MutualExclusion`, `RunningMeansHeld`, `RetriesBounded`, `SuccessIsFinal` | `Spec => []TypeOK`, `[]SingleHolder`, `[]RunningIsHeld`, `[]RetryAccounting`, `[]NoRerunAfterSuccess` |
| `NotificationsProofs!NoOtherRevival` | `Spec => DeletedRevivedOnlyByHolder` |
| `NotificationsProofs!Refinement` | `Spec => ImplementsLifecycle` |
| `NotificationsProofs!NotificationsTypeCorrect`, `MailMatches`, `MarksStay` | `NSpec => []NTypeOK`, `[]MailMatchesResults`, `ReadAndDeletedStay` |
| `NotificationsProofs!QueueWithinService` | `NSpec => Spec /\ ImplementsLifecycle`, of the queue |
| `WorkPackageRowsProofs!TypeCorrect`, `VersionsName`, `HiddenFieldsKept` | `Spec => []TypeOK`, `[]VersionNamesContent`, `FormKeepsHidden` |
| `WorkPackageRowsProofs!NoLostUpdate` | `Spec => ImplementsLinkedStore` |
| `WorkPackageServiceProofs!SerialLosesNoUpdate` | `Serial => (Spec => ImplementsLinkedStore)` |
| `RepositoriesProofs!RepositoriesTypeCorrect`, `DatesStayOrdered`, `MembersHaveRoles`, `DefaultIsUnique`, `NothingIsReverted`, `CallsKeepPromises` | `Spec => []RTypeOK`, `[]DatesOrdered`, `[]MemberHasRole`, `[]OneDefault`, `NothingReverted`, `AllOrNothing` |
| `ApiProofs!ApiTypeCorrect`, `NotFoundStaysTrue`, `RefusalsChangeNothing`, `InternalErrorsAreTrouble`, `WrittenByRight` | `Spec => []ATypeOK`, `[]NotFoundIsTrue`, `[]RefusalHasNoEffect`, `[]InternalMeansTrouble`, `ByRight` |
| `AttachmentsProofs!TypeCorrect`, `RecordsKeepFiles`, `NoFileLeftBehind`, `FilesAreOwned`, `NoResurrection` | `Spec => []TypeOK`, `[]RecordHasFile`, `[]FileHasRecord`, `[]NoSharedFile`, `DeletedStaysDeleted` |
| `SessionsProofs!TypeCorrect`, `NobodyTakenTooLate`, `NoReturn`, `NoSuddenEnd` | `Spec => []TypeOK`, `[]TakenForInTime`, `GoneForGood`, `EndsForAReason` |
| `ServerProofs!ServicesTypeCorrect`, `PackagesEnterWhereAllowed`, `OnlyAdminsRaise` | `ServicesSpec => []ServicesTypeOK`, `EntersWhereAllowed`, `RaisedByAdmins` |
| `ServerProofs!ReportsAreRecent`, `CountersAddUp` | `HealthSpec => []FoundLately`, `MetricsSpec => []AddUp` |
| `ServerProofs!SchemaInvariance`, `SchemaTypeCorrect`, `LinksNeverDangle`, `AssociationsOwnColumns`, `ValidationsAreAsserted` | `SchemaSpec => []SchemaInv`, `[]SchemaTypeOK`, `[]NothingDangles`, `[]AssociationOwnsColumn`, `[]ValidatedIsAsserted` |
| `ServerProofs!QueriesTypeCorrect`, `OperatorsDivide`, `PagesAreComplete` | `QueriesSpec => []QueriesTypeOK`, `[]OppositesDivide`, `[]PagesComplete` |
| `ServerProofs!TypeCorrect`, `AcyclicByConstruction`, `NumbersStandForViews`, `BucketsAgree` | of the views: `Spec => []TypeOK`, `[]StackOrder`, `[]Bijective`, `[]BucketsMatchDirect` |

The argument is the same in each module: an inductive invariant, one lemma for
each action, and the results as its consequences.

* Queue. `SingleHolder` alone is not inductive: that a job a worker may dequeue
  is held by nobody needs that a held job is Running or deleted
  (`RunningIsHeld`), that a deleted id is not drawn again (`FreshIds`), and that
  a job lost with its worker is not held by another (`LostIsNotHeld`). The retry
  bounds need to know what the clones say (`HolderAccounting`), because the
  clone and not the stored job decides what is written.
* Notifications. That mail jobs and results match is preserved only because the
  notification a caller mails for was just stored: nobody has been told of it and
  nothing enqueued (`MailsTheUntold`), no other caller has it (`MailsItsOwn`), and
  a result names a stored notification of its own unless settings forbade it
  (`NamedUnlessDisabled`, `NamedOnce`). `ReadAndDeletedStay` needs that the copy
  `mark_read` writes back is marked (`CopiesAreRead`). Every step of the service is
  a step of the queue or leaves it alone, so the queue's theorems hold in it.
* Rows. `FormKeepsHidden` rests on `VersionNamesContent`: the UPDATE succeeds
  only if the version quoted is stored; the row the handler re-read has at
  least the version of the page (the strengthening) and at most the stored one,
  so it is the stored row.
* Work package service. `store.update` does not look at the version it overwrites,
  so the one it was compared with must still be stored (`UpdatesCurrent`), which
  is inductive only with one update at a time (`OneUpdates`); a `create` between its
  two steps has an id nobody else has or has seen (`InsertsOwn`, `InsertsDrawn`). That
  `Serial` is needed is what the violation run shows.
* Repositories. A request is at a statement of its method, and no row lies beyond
  the sequence (`InMethod`, `Addressed`, `NoneBeyond`). To that each result adds what
  a request has read or still has to write: dates that were checked are in
  order and so is what they are merged with, since the write takes both from the
  request's copy (`DatesChecked`); roles that were checked are not empty
  (`MembersKnown`); two defaults mean a request that has yet to clear, or one that
  was broken off before it did (`FlagsKnown`). `NothingReverted` needs only the types:
  it is about which statement a repository uses.
* Promises of the repositories. `AllOrNothing` is proved of all methods at once. What
  the proof needs to know of how a method is composed is `Orderly`, checked method by
  method (`MethodsOrderly`): a check follows no statement that writes, and every
  check its promise names is in it (`Composed`); what has been sent before each kind
  of statement, and whether the method ends with it (`Placed`). The invariant
  `CallsInv` says of a call nobody disturbed that the tables are what the statements
  it has sent make of the tables it began with (`RowsOf`, `LinksOf`), and that what it
  holds and has checked is true of those (`CopyOf`, `PassedOf`). It rests on the form
  of calls and rows (`FormInv`): a row without a name is no row, only types and roles
  are protected, a request gives only what its method takes, a row that was read was
  there. A check that fails is then one of the conditions of `Accepts`
  (`CheckRefused`), a call at its last statement has passed them all (`Accepted`), and
  each last statement yields `Result`. A
  call that has not yet sent a statement that writes has the tables it began with. That the merged row a method writes back
  whole is the row `Result` names, although the flag may have been cleared in
  between, is `WrittenBack`.
* Api. `Good` says once of every route what its gate, the order of its calls and
  its named errors guarantee: what may be refused has a status, nothing but
  looking follows a write, tables of administrators are behind their gate, and
  whoever changes a row with an owner has been asked for. `RouterGood` checks it
  route by route. The invariant `Underway` is what a request may rely on between its
  calls: its row has not been missing unless noted, and once the owner's check is
  passed the caller is the owner or the row is gone. It is stable because ids are
  not used again (`RowsOK`) and owners do not change (`RowsStep`). The assumption on
  `Ids` is that of a sequence, and `None` is no id, row or route.
* Attachments. A write-back or an unlink by a stale copy must concern the
  copy's own record (`CopiesMatch`), a file that is being written or about to be recorded
  must be nobody else's (`UploadsOwn`) and whole by then (`Whole`), and an unlinked file must not come back
  (`UnlinkedGone`); for that, names are drawn once (`Known`).
* Sessions. `TakenForInTime` compares an answer with the latest expiry a session
  was ever given, so what is stored and every copy of it must stay within that
  (`Bounded`) and be of sessions that were issued (`StoredIssued`).
* Services. Both results are about one call; they need the types and that a call
  acts for the context it names.
* Health. A report that is stored late is old already: `FoundLately` needs that no
  entry was found longer before it was stored than the lock is waited for
  (`EntryAge`, `WaitBounded`).
* Metrics. `AddUp` counts what the requests on their way out have yet to add
  (`Balanced`), what the open ones keep of the gauge (`OpenCounted`), and bounds what
  a scrape has read by what had happened by then (`ShownInTime`).
* Views. `Bijective` needs that the registry only grows at its end and never beyond
  `Span`, so that `% Span` changes no number. `BucketsAgree` is arithmetic: every
  position lies in the bucket its quotient names (`DivMod`, `BucketExists`).
* Schema. The results are about the outcome only, so the invariant says them of a pass
  that is under way, relative to the triples it has met: each association met has its
  link and index (`LinksMade`); each link, index of a link and stub comes from one
  that was met (`MadeByAssociations`), which keeps columns that are added later from
  being links; no index of a link is there twice and each is on its columns
  (`IndexesStand`); for each validation met the last assert put off for its column is
  the one that is to stay, or, when none is left, the column has it
  (`ValidationsKept`, `PutOffLast`, `Asserted`). At the end all triples have been met. A step that is
  none of an association only lets a table grow (`GrowsInto`). The assumption on the
  streams says that a class has one kind, type or class name to a member and that
  the column `<relation>_id` names its relation (`from_triples.rs:364`).
* Queries. `OppositesDivide` needs the types of the filters a query can hold: the
  statement is readable only if the literals are of the column's type, and where it is
  an order both sides are then numbers, of which one is less, equal or more.
  `PagesComplete` needs that an order that tells all rows apart leaves the database no
  choice (`OneOrdering`): `Before` is asymmetric, and total because of the first
  criterion in which two rows differ, so a row's place is one more than the number of
  rows before it (`PlaceIsRank`). What was read is then the beginning of that one
  ordering up to the page (`PagesRead`), and a next page begins within it.
* Refinements. Initial states map to initial states, and under the invariant each
  action maps to a step of the abstract specification or to a stutter.

Only model-checked, and why:

* `EveryoneTold`, `EventuallySettles`, `FollowsDatabase`:
  liveness under fairness is out of the prover's reach;
* `TwiceOnlyByOverlap`: its proof would have to follow every method from its look to
  its write, as that of `AllOrNothing` does, once more for calls that are disturbed;
* what the violation runs show.

## 6. Plan

Every invariant and every action property of the passing runs is proved, but for
`TwiceOnlyByOverlap`. What could still be added are its proof, models of the parts that
only translate values (see below), and the case the runs and the proofs of
`AllOrNothing` leave out on purpose: what is promised to a call others disturb, of which
the safety properties of section 3 say what holds nevertheless.

## 7. Not modelled

Two thirds of the workspace's lines hold no state and no algorithm of the running
system: generated declarations (`op-generated` alone is some 37,000 lines), the
tools that parse and emit them (`op-codegen-*`, `op-canon`, `ruff_openproject`, the
rendering half of `op-surreal-ast`), representers, pages, navigation and mails, which
turn values into text, and the tests inside each file. There is nothing in them to
interleave, crash or retry, so the models cover a tenth of all lines, which is most
of those that change something. Also left out: SMTP; hashing and size checks of
uploads; S3; the delay of a retry (`2^retries` minutes overflows from 63 retries
on); the columns, groups and sums of a query; contracts no service uses.
`PROJECT.json` names the reason for each component.
