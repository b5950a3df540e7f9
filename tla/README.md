# Verification of search_Youtube_videos_v2

This directory holds TLA+ specifications of the application in this repository,
the TLC configurations that model-check them on small instances, and theorems
about them with proofs that TLAPS checks. `PROJECT.json` is the machine-readable
index: components, runs, the map from definitions to source lines, mutants,
findings, hazards and theorems.

Run TLC with `tlc -config <cfg> <module>` and the proofs with
`tlapm <module>.tla` in this directory.

## 1. The system

A Django REST API. A user registers, logs in and asks for YouTube videos on a
query; results are fetched by tasks, stored in MongoDB and indexed in
Elasticsearch.

| Part | Source | State it keeps | Operations |
|---|---|---|---|
| Accounts | `users/views.py` (RegisterView, first part of LoginView), `users/models.py` | collection of `User`, keyed by e-mail | register, check credentials |
| Sessions | `users/views.py` (LoginView, RefreshToken, LogoutView), `users/middleware.py`, `getUser` in `searchingApp/views.py` | two Redis keys per session, `<key>_secret` and `<key>_access`; two cookies at the client | login, refresh, logout, authenticate a request |
| Token store client | `users/TokenManager.py` | none of its own | `setValue`, `getValue`, `checkForExistence`, `scheduleExpire` |
| Redis keyspace | `redis-6.2.3/src/` `db.c`, `expire.c`, `t_string.c` (vendored) | `db->dict`, `db->expires`, cursor of the active expire cycle | SET, GET, EXISTS, EXPIRE, lazy and active expiry |
| Redis persistence | `rdb.c`, `server.c` | `dump.rdb`, `dirty`, the saving child, `lastbgsave_status` | SAVE, BGSAVE, save points, SHUTDOWN, loading |
| Redis lists | `t_list.c`, `blocked.c`, `timeout.c` | lists, `blocking_keys`, `bpop.keys` of each client | LPUSH, RPUSH, BRPOP, timeouts, closed connections |
| Ingest tasks | `searchingApp/tasks.py`, `searchingApp/models.py` | collections of `YoutubeData` and `queryModel`, Elasticsearch index `youtubevideos` | `fetch_youtube_data`, `insert_into_database`, `insert_into_elastic` |
| Search endpoints | `searchingApp/views.py` | none of their own | topic and bulk registration, search, text search, date filter |
| Celery | `youtubeRecords/celery.py`, settings | task queue in Redis, unacknowledged messages | enqueue, prefetch, run, beat every 30 s |
| Project configuration | `youtubeRecords/`, `manage.py`, `DC_3/` | none | |

How they interact:

- Every request to a search endpoint passes the middleware, which reads two
  Redis keys; the view then reads both again (`getUser`). Login writes both keys
  with four Redis commands, refresh writes one with two, logout deletes both
  with two. Server threads interleave at every command.
- `topicRegistration` and `bulkRegistration` put `fetch_youtube_data` into the
  Celery queue; `searchingView` calls it in the server thread. So several
  processes run the task at the same time, on the same collections, with no
  transaction and no unique index on (query, user).
- Celery's broker is the same Redis server that keeps the sessions: `.delay()` is
  LPUSH, a worker waits in BRPOP. A restart of that server therefore concerns
  sessions and tasks alike, and a failed save stops logins as well as tasks.
- The lifetime of a session rests on three clocks: `exp` in the JSON web
  tokens, the expiry of the two Redis keys, and the expiry of the cookies.

What is hard here: check-then-act over two calls of a store (key names,
accounts, videos, query documents), two commands where one is meant (SET and
EXPIRE), state read twice in one request, tasks that finish in another order
than they began, failure after some of several writes, processes that are
killed (`celery.py` recommends `kill -9`), a server that comes back with an older
dataset, and clients that block on several lists. The repository's
`tests.py` files are empty; none of this is tested.

### Properties that make each part correct

- Accounts: only registered credentials are accepted; an account is not changed
  by a later registration.
- Sessions: a request is served as the user who logged the session in; logout
  is final; a session can be refreshed until its refresh token expires and is
  dead one access-token age after that, but for the time a refresh was held up; a
  user is not lost halfway through a request.
- Redis keyspace: what clients see is a map whose entries vanish when they
  expire; the two tables stay together; expired keys are reclaimed although
  nobody reads them.
- Redis persistence: what was reported saved is in the dump; the count of
  unsaved changes is right whatever happened during a save; every write gets
  saved; writes stopped by a failed save resume.
- Redis lists: no client sleeps beside an element; a client that is served or
  gone is in no queue.
- Ingest: the videos embedded in a query's document are stored on their own;
  every stored video is indexed; a task leaves exactly its answer in a document
  or leaves the documents alone; tasks that race do not all fail; duplicates stay
  bounded.
- Search endpoints: the pages are consecutive parts of the listing; the links
  come to an end; every registered query gets a document.
- Celery: a task that was sent is begun; it is lost, or runs twice, only in the
  cases that are known.

## 2. Modules

```
TokenStore ──── Sessions ──────── MCSessions, SessionsProofs
     │             └──────────── SessionsRestart ── MCSessionsRestart, SessionsRestartProofs
     ├───────── TokenMap          (abstract token store)
     │             ▲ refines
     └───────── RedisKeyspace ─── MCRedisKeyspace, RedisKeyspaceProofs

RedisPersistence ─────────────── MCRedisPersistence, RedisPersistenceProofs

RedisLists ──── TaskQueue ─────── MCTaskQueue, TaskQueueProofs

QueryTasks ──── SearchViews ───── MCSearchViews, SearchViewsProofs   (QueryTasks: abstract ingest task)
     ▲ refines
VideoIngest ──────────────────── MCVideoIngest, VideoIngestProofs

Accounts ─────────────────────── MCAccounts, AccountsProofs
```

**TokenStore** defines the four store commands as operators on a map from keys
to `[val, exp]`. **TokenMap** turns them into a state machine, the abstract
specification. **RedisKeyspace** models what the vendored server does, two
tables with lazy and active expiry, and implements TokenMap through the mapping
`visible` (an entry counts until its time has passed). So `Sessions`, which uses
the operators of TokenStore, rests on behaviour that was shown of the Redis code
and not on an assumption.

### Sessions

| Action | Code |
|---|---|
| LoginCreateAccess, LoginCreateRefresh, LoginPickKey, LoginSetAccess, LoginExpireAccess, LoginSetSecret, LoginExpireSecret, LoginRespond | LoginView.post from the accepted password on; each `setValue` is a SET and an EXPIRE |
| RefreshGetSecret, RefreshDecode, RefreshCreateToken, RefreshSetAccess, RefreshExpireAccess | RefreshToken.post; each look at the clock (`jwt.decode`, `create_token`) and each command is a step, and time may pass between any two |
| LogoutExpireSecret, LogoutExpireAccess | LogoutView.post; `EXPIRE key 0` deletes |
| MiddlewareGetSecret, MiddlewareGetAccess | AuthenticateMiddleware.process_request |
| ViewGetSecret, ViewGetAccess, EndRequest | getUser, and the end of the view |
| Tick | the clock; expired entries disappear |
| Crash | the process dies, or redis-py raises, between two commands |

`req[t]` is the request of thread t with the local variables of the code;
`secretKeys` and `accessKeys` are the Redis keys with the two suffixes; `drawn`
is the history of `generateRandomKey`. A JSON web token is its claims and the
key that signed it; `Decodes` is `jwt.decode`. `held[c]` are the cookie pairs
client c can present: a browser drops them at logout, a program need not, and a
refresh may combine the `jwt` cookie of one login with the `refresh` cookie of
another. `issued`, `loggedOut` and `late` are history, which no guard reads; so are
`checked`, the time at which a refresh verified its token, and `pause` of an access
token, the time that passed from there to the dating of the token.

`Faults` selects `"crash"` and `"collision"`. Without `"collision"`,
`generateRandomKey` does not return a string twice (there are 46^10).

The `print(r.get(key))` at the end of `setValue` is left out: it reads only.
A token is valid while `now <= exp`, a Redis key while `now <= when`, as in
PyJWT and `keyIsExpired`.

### SessionsRestart

Sessions, with two more actions: `SaveDump` (a save that the next restart will
find) and `RestartRedis`, which replaces both maps by the dump, less the keys that
have expired since (`rdbLoadRio` drops them), in the middle of whatever the
threads are doing. `revived` and `lost` are history: keys that came back after
their logout, and keys whose secret a restart took away.

### RedisKeyspace

One action per command, `ActiveExpireCycle` for one call of `activeExpireCycle`,
`Tick` for the clock. The server is single-threaded and takes the time once per
command, so a command is one step. The server is a master that is not loading,
and client pauses, notifications, the LRU clock and propagation are left out. Key k sits in bucket k of the
expires table; a cycle scans between 1 and `MaxScan` buckets from the cursor.
That abstracts from the sampling and time limits of the code, and from the case
that a table less than 1 % full is skipped until `databasesCron` has resized it.

### RedisPersistence

| Action | Code |
|---|---|
| WriteCommand | `processCommand`, refused after a failed save (`writeCommandsDeniedByDiskError`) |
| SaveCommand | `saveCommand`, refused while a child saves |
| BgsaveCommand, SavePoints | `bgsaveCommand`; the save points of `serverCron`; both call `rdbSaveBackground`, whose fork may fail |
| ChildRenames, ChildExits, ChildFails | `rdbSave` in the child, its exit, a write error or a signal on either side of the rename |
| CheckChildrenDone | `checkChildrenDone`, `backgroundSaveDoneHandler` |
| Shutdown, ShutdownFails | `prepareForShutdown`, which kills the child first |
| Crash, OrphanEnds | the server is killed; its child carries on and may still rename its file |
| Restart | `initServer`, `loadDataFromDisk` |

A dataset is the set of the writes that led to it. `saved` is history: the dataset
of the latest save that the server reported. `overwritten` marks a dump that an
orphan left behind. The temporary file is not modelled: it is synced before the
rename, and SHUTDOWN unlinks the child's file, so that a killed child cannot
rename it later.

### RedisLists and TaskQueue

RedisLists has the lists, the queues of blocked clients (`blocking_keys`), the
lists each client waits for (`bpop.keys`) and the replies they have not read. A
push is one step with the service of the clients it wakes
(`signalKeyAsReady`, `handleClientsBlockedOnKeys`, `serveClientsBlockedOnListKey`):
the server runs them before the next command. A key is signalled by `dbAdd` only,
that is when the list did not exist. Every push of the broker carries one element,
so the loop of `serveClientsBlockedOnListKey` serves the client that blocked first
and finds the list empty for the next; `ServeBlocked` says just that. BRPOP pops
the first list of its arguments that has an element, or blocks on all of them.

TaskQueue puts the Celery workers on top, which are the blocking clients.

| Action | What it stands for |
|---|---|
| Delay | `.delay()` in a view, or the beat schedule of `celery.py`: LPUSH |
| Poll, PollTimeout, Receive | kombu: BRPOP on the priority lists, the note in the hash `unacked` |
| Begin, Ack, Finish | Celery: the pool process begins a task, the main process acknowledges it (`acks_late` is not set) |
| WarmShutdown, RestoreUnacked, Exit | `pkill -f "celery worker"` (`celery.py:3`); "Restoring 1 unacknowledged message(s)" (`celery.log:61`) |
| Kill, Disconnect, StartWorker | `kill -9` (`celery.py:2`), the server closing the connection, the worker's command line (`celery.py:7`) |
| RestoreVisible | kombu: a message that stayed in `unacked` for longer than the visibility timeout goes back |

Celery and kombu are not in the repository; these actions are what `settings.py`,
`celery.py` and `celery.log` show of them, and are marked external in the map.

### QueryTasks and SearchViews

QueryTasks is the abstract specification of a task as the views see it: one
answer of YouTube, then one document replaced or created, or nothing.
VideoIngest implements it (`ImplementsQueryTasks`; the calls for single videos
are stuttering steps, and a task whose answer has arrived carries the set of its
videos).

SearchViews composes QueryTasks with the three views that start tasks.

| Action | Code |
|---|---|
| SearchingView | the aggregation and the answer of `searchingView`, or the start of a fetch when the page is short |
| SearchingViewFetches, SearchingViewRaises | `fetch_youtube_data` in the server thread, and the answer it ends in |
| TopicRegistration | `topicRegistration.post` |
| BulkFind, BulkDelay | `bulkRegistration.get`: the aggregation, then one turn of the loop over `all_queries` at a time, with `.delay` for a query that is not on the page; the answer follows the last turn |
| BulkRaises | a `.delay` raises, or the process dies, with part of the tasks queued |
| TakeTask, WorkerStep, WorkerCrash | the workers |
| NewReader | a client begins to read again |

`bulk[t]` is the bulk registration in thread t: the queries on its page and the rest
of the list. The page is any part of the documents that has the right size: they
are sorted by `query_lasttime`, which is taken before `save()`, so that insertion
order does not tell it. `asked` is history: the queries that are owed a document;
a failure takes those out for which nothing is left that could make one.
`reader` is a client that follows `next_link`. `$sort` is by day, so `DayListing`
gives the day at every place and `Pages` is the set of all pages MongoDB may return
for an offset. `Records` are the records of a fetch, in the order YouTube sends
them (`'order' : 'date'`). Negative limits and missing
queries are answered before anything is read and are left out, as is a request
without user, which Sessions covers. `textSearch` and `videosWithDateFilter` read
Elasticsearch only.

### VideoIngest

| Action | Code |
|---|---|
| StartTask | `fetch_youtube_data(.delay)(...)` in the views |
| SearchVideos, GetDetails | the two `requests.get` of fetch_youtube_data |
| FindVideo, SaveVideo, IndexVideo | the loop of insert_into_database, insert_into_elastic |
| FindQuery, ReplaceQuery, CreateQuery | the queryModel part of insert_into_database |
| Publish | YouTube publishes a video |
| Crash | the executor dies, or a call raises that no other action lets raise |

Videos are numbers in the order of their publication; titles, links and dates
are left out. `queryDocs` is the collection in the order of insertion, in which
`.first()` on the index over (query, user) finds it. `save()` of pymodm is
`replace_one(upsert=True)`: it replaces what another task stored in the
meantime, or, when two upserts meet in the server, raises DuplicateKeyError
(fault `"duplicate"`, recorded in `celery.log`). `"api"`: YouTube answers
without items, or without one of the videos; `"elastic"`: `index()` raises.

### Accounts

RegisterFind and RegisterSave are the two database calls of RegisterView and
RegisterRespond its answer; Crash is a thread that dies between them, or an answer
that is lost. LoginCheck is LoginView up to `check_password`. A hash is the pair of salt and
password that went into it. `Blank` stands for a field that is missing, empty or
white space, `Malformed` for what `EmailField` rejects in `save()`. History:
`confirmed` are the credentials whose registration was answered, `unanswered` those
that were saved without the client being told.

## 3. Runs

| Run | Configuration | Checks | Result |
|---|---|---|---|
| sessions | 2 users, 2 keys, 2 secrets, 2 threads, clock to the refresh age, crashes | TypeOK, NoServiceAfterLogout, SessionIsolation, SessionRefreshable, UserLostOnlyAtSessionEnd | holds |
| restart | 1 session, 2 threads, clock to four times the refresh age, 1 restart of Redis, crashes | RevivedOnlyByRestart, RefreshableUnlessLost, ServedWithinLifetime | holds |
| keyspace | 3 keys, 2 values, cycles of up to 2 buckets, TTL up to 1, clock to 3, fair cycles | TypeOK, ExpiresInDict, ImplementsTokenMap, ExpiredKeysReclaimed | holds |
| persistence | 4 writes, 3 faults, a save point of 1 change | TypeOK, SavedWritesKept, DirtyCountsUnsaved, WritesReachDump, WritesResume | holds |
| ingest_faults | 2 executors, 2 queries, 2 videos, all faults | TypeOK, QueryVideosStored, DuplicatesBounded, LaterDocsFrozen | holds |
| ingest_progress | 2 executors, 2 queries, 2 videos, fairness, DuplicateKeyError | OnlyFreshVideosUnindexed, StoredVideosGetIndexed, SomeTaskSaves, ImplementsQueryTasks | holds |
| search | 1 query, 3 videos on 2 days, limits 0 and 2, 1 message in the queue; or 2 queries, 1 video, bulk registrations of up to 2 queries by 2 threads, 2 tasks queued or about to be; 1 worker, failures | ViewsTypeOK, PagesFollowListing, ReaderFinishes, BulkQueriesGetDocs | holds |
| task_queue | 2 workers, 2 lists, 2 messages, prefetch 2, 2 stops, 1 visibility timeout of a live worker | TypeOK, NoOneWaitsInVain, BlockedClientsRegistered, LostOnlyInPop, RunsOnceUnlessExposed, SentTasksBegin | holds |
| accounts | 3 addresses (one malformed), 2 passwords, 1 salt, 2 threads that may die, DuplicateKeyError | TypeOK, LoginOnlyRegistered, SettledAccountKept | holds |
| paging | 1 query, 3 videos, a video a day, limit 2, no fault | AllVideosReturned | **violated** |
| unindexed | 2 executors, 1 video, fairness, Elasticsearch may raise | StoredVideosGetIndexed | **violated** |
| confirmed | 2 addresses (one malformed), 2 passwords, 2 threads | ConfirmedCanLogin | **violated** |

### What the passing runs show

*Logout is final.* LogoutView deletes the secret first and the token second, and
a refresh that was under way can put a token back after both. NoServiceAfterLogout
holds all the same: whoever begins after the logout finds no secret, and without
it neither the middleware nor RefreshToken accepts anything.

*Sessions do not mix.* The refresh token of one session can be presented with
the key of another; its signature does not fit the secret stored under that key.

*Lifetimes.* Tokens are dated before they are stored and the EXPIRE follows the
SET, so the secret always outlives the refresh token. A session does not simply end
one access-token age after its refresh token: RefreshToken verifies the refresh
token by one look at the clock and dates the new access token by another, so that a
thread that is held up between the two lengthens the session by as much.
ServedWithinLifetime says that this is all: a request is served until the refresh
token's end, plus the access age, plus the pause of the one refresh that made its
token. Pauses do not add up over refreshes, an older token that overwrites a newer
one gains nothing, and crashes that leave keys without expiry do not either,
because the `exp` claim is checked too. UserLostOnlyAtSessionEnd says that the
window between the middleware's look at the store and the view's is harmless
while the session lives; at its end `topicRegistration` answers 208 "Already
Registered" to a user it could not find.

*Restart of Redis.* A dump older than a logout brings the session back; that is
the only way (RevivedOnlyByRestart), and even then the session ends when it would
have ended (the run checks ServedWithinLifetime with the restarts), because keys keep
their expire times and the `exp` claims are checked. A login whose commands a restart
cuts in two can answer with cookies that are worth nothing; RefreshableUnlessLost
says that a session which is still stored is as good as before.

*Persistence.* SAVE, SHUTDOWN, save points and the handler of a child never make
the dump older than what the server has reported, and `dirty` is exact although
the handler subtracts a number from before the fork. Two things the code does not
prevent, which the properties except: the orphan of a killed server may replace a
newer dump, and nothing repairs that if `dirty` is 0; and after a BGSAVE by hand
that failed with fewer changes than a save point needs, writes stay refused until
somebody saves, since no save point is reached.

*Ingest.* Duplicate documents come only from tasks that looked before the first
document was there, so there are never more than executors, and since updates go
to `.first()` the others are frozen. `searchingView` reads all of them. Call by
call, a task does to the documents what QueryTasks says, so SearchViews rests on
the behaviour of the code and not on an assumption. Since the list is assigned
and not extended, the task that saves last wins, also if it searched first. Two
upserts of one video may meet in MongoDB; one of them raises and its task leaves no
document, as `celery.log:12082` records, so a single task need not succeed.
SomeTaskSaves says that the tasks which run side by side do not all fail.

*Search.* As long as no worker writes between two pages, the pages that come from
the documents are consecutive parts of the listing, also with duplicate documents
and videos of the same day. Videos of one day may change places between
aggregations, so that single videos can repeat and others be left out; the
property speaks of days for this reason. With limit 0 every `next_link` leads to
the same empty page, which ReaderFinishes excepts. `bulkRegistration` fetches
registered queries again when they are not on the page it returns. Whatever other
tasks write between its aggregation and its `.delay` calls, and where a `.delay`
fails after others were queued, a query that was asked for comes to have a document
as long as one task for it is left alive and failures end some time.

*Accounts.* A login succeeds only with a password that was registered for the
address. If the server dies between `save()` and the answer, the client does not know
that its password works and a retry is refused; LoginOnlyRegistered names this case.

*Task queue.* No wake-up is lost, although a push to an existing list signals
nothing: a client can only block while all its lists are empty, and a served
client leaves all queues. While Redis stays up, tasks are lost in two windows only:
a worker is killed between BRPOP and the note in `unacked`, or the server serves a
worker that is dead and not yet known to be. (A restart of Redis from an older dump
also takes the tasks queued since, and brings back those that were popped since;
TaskQueue has no such step, RedisPersistence says which writes a dump holds.) A task
is begun twice only if it was put back while a worker had it (a visibility timeout
shorter than the task), or if the worker that began it was killed before it
acknowledged it; VideoIngest shows what a task that dies halfway leaves.

### What the violated runs show

Each is a statement of the repository's documentation that the code does not
keep; `PROJECT.json` quotes it under `findings`.

- *paging*: three stored videos, limit 2. The second page has one video, fewer
  than `limit`, so `searchingView` fetches the two latest, replaces the document
  by them and returns them: page one again. The oldest video was never returned
  and is no longer stored for the query. The same trace is a second finding: the
  docstring of `insert_into_database` (`tasks.py:51-53`) says that for an existing
  query new videos are added, and the code assigns the list of the latest search, so
  that videos stored before leave the document. ImplementsQueryTasks states what the
  code does.
- *unindexed*: `save()`, then the exception of `insert_into_elastic`; every later
  task finds the video and skips the index.
- *confirmed*: two registrations of one address both succeed, one password works.

Other disagreements that the models show and no run is spent on: a thread that
dies between the SET and the EXPIRE of `setValue` leaves a key without lifetime
(`README.md:13` promises one); two logins that draw the same key name both pass
the loop at `users/views.py:114` before either stores its secret, and share the key;
two tasks for a new query
create two documents (`tasks.py:51`); the docstring of `bulkRegistration` asks for
a check of the number of videos (`searchingApp/views.py:72`), which it does not
make; 208 "Already Registered" is the answer to a user that was not found.

### Bounds

Two users and two sessions are needed to mix sessions up, two threads for a
logout between the steps of a refresh. The ages 1 and 2 keep the order of the
real ones (30 and 120 minutes) and let each entry expire while another lives. In
`restart` both ages are 1 and the clock runs to 4, past the refresh token, an access
token made at its end and a pause of two ticks in between; one restart can fall
anywhere, with a dump of any earlier moment. In the ingest runs two executors make every
race of a pair of tasks, and two videos make older and newer results and a loop
with a known and a new video. In `search` three videos and limit 2 make a full
page, a page short by one, and (with a document of two) one that ends at the
last video; two videos of one day can change places; the worker and the server
thread can create duplicate documents. The run bounds the inputs (module
MCSearchViews), not the steps that answer them: either the state is about one query,
or there is one video, the client's limit is 2 and a task asks for 3 videos. In the second case lists of two queries, pages of up to two documents and
offsets 0 and 1 put one query on the page and the other off it, or miss one that is
registered; the second thread, the server thread and the worker act between the
aggregation and each `.delay`, and a list may name a query twice. The bound on the
queue counts what the loops have yet to put there, so that it never holds up a
`.delay`. In `keyspace` three keys, more
than one cycle can scan, and two values let a command, a cycle and the clock meet
on one key while the others stay; a lifetime of one tick can still be extended
and overwritten. In `persistence` four writes fall before, during and after two
saves, and three faults allow a failed retry and a crash with a child. In
`task_queue` two messages and a prefetch of two let one wait behind another, and
two stops let both workers die, or one twice.
Symmetry is used for interchangeable model values in safety runs only.

Deadlock is not checked for Sessions, where the bounded clock and the used-up
random strings stop the system. It is checked for the others.

### Fairness

`RedisKeyspace!FairSpec` is weakly fair to the active cycle: `serverCron` runs it
`hz` times a second. `VideoIngest!FairSpec` is weakly fair to each step of a task
that has started: a worker process or server thread does nothing else, and each
call returns or raises. `SearchViews!ViewsSpec` adds that the client follows the
links it is given, that a bulk registration goes on with its loop, and that workers
take tasks from the queue. BulkQueriesGetDocs itself assumes that failures end some
time: a task can be killed each time it is started.
`RedisPersistence!Spec` is weakly fair to the save points, the child and its
handler: `serverCron` runs for as long as the server does, and the seconds of a
save point and the delay of a retry pass. A child that fails again and again is
bounded by MaxFaults. `TaskQueue!Spec` is weakly fair to the steps of workers that
run and to the timeout of BRPOP; nothing makes anyone start a worker again, so
SentTasksBegin gives up when none is up. There is no fairness for other clients,
YouTube or crashes.

## 4. Proofs

| Theorem | Statement |
|---|---|
| SessionsProofs!TypeCorrect | `Spec => []TypeOK` |
| SessionsProofs!LogoutEffective | `NoCollision` implies `Spec => []NoServiceAfterLogout` |
| SessionsProofs!Isolation | `NoCollision` implies `Spec => []SessionIsolation` |
| SessionsProofs!Refreshable | `NoCollision` implies `Spec => []SessionRefreshable` |
| SessionsProofs!Lifetime | `NoCollision` implies `Spec => ServedWithinLifetime` |
| SessionsProofs!UserFoundUntilSessionEnd | `NoCollision` implies `Spec => UserLostOnlyAtSessionEnd` |
| SessionsRestartProofs!LogoutHoldsUnlessRevived | `NoCollision` implies `RestartSpec => []RevivedOnlyByRestart` |
| SessionsRestartProofs!RefreshableAcrossRestarts | `NoCollision` implies `RestartSpec => []RefreshableUnlessLost` |
| SessionsRestartProofs!LifetimeAcrossRestarts | `NoCollision` implies `RestartSpec => ServedWithinLifetime` |
| RedisKeyspaceProofs!TypeCorrect | `Spec => []TypeOK` |
| RedisKeyspaceProofs!TablesConsistent | `Spec => []ExpiresInDict` |
| RedisKeyspaceProofs!Refinement | `Spec => ImplementsTokenMap` |
| RedisPersistenceProofs!SavesKept | `Spec => []SavedWritesKept` |
| RedisPersistenceProofs!DirtyCounts | `Spec => []DirtyCountsUnsaved` |
| RedisPersistenceProofs!TypeCorrect | `Spec => []TypeOK` |
| AccountsProofs!TypeCorrect | `Spec => []TypeOK` |
| AccountsProofs!OnlyRegistered | `Spec => []LoginOnlyRegistered` |
| AccountsProofs!AccountsKept | `Spec => SettledAccountKept` |
| VideoIngestProofs!TypeCorrect | `Spec => []TypeOK` |
| VideoIngestProofs!VideosStored | `Spec => []QueryVideosStored` |
| VideoIngestProofs!LaterDocsStayFrozen | `Spec => LaterDocsFrozen` |
| VideoIngestProofs!DuplicatesStayBounded | `Spec => []DuplicatesBounded` |
| VideoIngestProofs!UnindexedAreFresh | without the faults `"crash"` and `"elastic"`, `Spec => []OnlyFreshVideosUnindexed` |
| VideoIngestProofs!Implementation | `Spec => ImplementsQueryTasks` |
| TaskQueueProofs!TypeCorrect | `Spec => []TypeOK` |
| TaskQueueProofs!NoVainWaiting | `Spec => []NoOneWaitsInVain` |
| TaskQueueProofs!RegistrationConsistent | `Spec => []BlockedClientsRegistered` |
| TaskQueueProofs!LossOnlyInPop | `Spec => []LostOnlyInPop` |
| TaskQueueProofs!RunOnce | `Spec => []RunsOnceUnlessExposed` |
| SearchViewsProofs!TypeCorrect | `ViewsSpec => []ViewsTypeOK` |
| SearchViewsProofs!PagesConsecutive | `ViewsSpec => []PagesFollowListing` |

They hold for all sets of users, clients, keys, threads and executors, all ages
and all bounds. The assumptions are the ASSUMEs of the modules (ages are
positive, `None` is different from every value, there are finitely many executors, a
worker polls a sequence of lists, and page sizes are
no larger than what YouTube is asked for) and, where stated,
`NoCollision`: `"collision" \notin Faults`. It is needed: with `"collision"` TLC
finds two logins that share a key. Crashes are included throughout, but for
UnindexedAreFresh: a task that dies, or a call of Elasticsearch that raises,
between `save()` and `index()` is just what leaves a video unindexed (run
*unindexed*).

**Sessions.** TypeOK is not inductive: LoginSetAccess stores `req[t].token`
under `req[t].key`, which is typed only because a login that has come that far
has both. `Shape` adds which fields are present at which place. On top of it the
invariant `IInv` consists of

- `Unshared`: issued sessions and logins under way have pairwise different keys
  and secrets, all of them drawn;
- `Handed`: clients hold, and log out, issued sessions only;
- `Stored`: the entries under a session's key contain its own secret and tokens
  of its own user that end at most their pause and ACCESS_AGE after the refresh
  token; the secret is gone after a logout, and otherwise stored until the refresh token
  expires;
- `LoginTokens`, `LoginStore`: the same for a login that has not answered yet,
  command by command;
- `Presented`: the secret a request has read is that of its session or None, and a
  refresh that got past `jwt.decode` did so before its refresh token ended, which is
  what bounds the token it is about to create;
- `Late`: a request that began after the logout has read no secret.

The heart of LogoutEffective is that nothing but LoginSetSecret writes a secret,
and that a login which could still write it has not handed out its key.

`IInv(rev, gone)` has two parameters: the keys for which a logout need not have
removed the secret, and those for which the secret need not be there. In Sessions
both are empty. For UserFoundUntilSessionEnd, `AccessInv` adds that an access entry
outlives the token in it, and that the entry the middleware has seen, or the one
a refresh has put in its place, lasts until the token it read expires.

**SessionsRestart.** The same `IInv`, with `revived` and `lost` for the parameters,
so that the steps of Sessions need no second proof. What is new is the dump:
`Dumped` says that the entries in it are entries that the session, or the login
under way, with that key may have in the store, and that a key nobody has drawn is
not in it. A restart then gives each
session entries of its own or none, at worst ones that it had before. A request
that read a secret before the restart goes on with it; the `exp` claims, which no
restart changes, bound what it can do.

**RedisKeyspace.** TypeOK and ExpiresInDict together are inductive. For the
refinement each command is shown to be the abstract command on `visible`, the
active cycle to be a stuttering step (it deletes only what `visible` hides
already), and a tick to purge the abstract map.

**VideoIngest.** `IInv` adds to the types that the lists a task carries contain
stored videos only, that the loop has a video at hand, and that this video is
stored when the task comes to insert_into_elastic. Videos are never deleted, so
one task cannot invalidate the list of another. On top of it:

- LaterDocsFrozen needs `FoundFirst`: the document that a task is about to replace
  is the first of its query, and stays so, as documents are only appended and keep
  their owner.
- DuplicatesBounded needs `CreationsBounded`: documents of a query and tasks about
  to create one are together no more than the executors. A task joins the latter
  only when there is no document, and moves from one side to the other when it
  saves.
- The refinement needs `TaskShape`: which of the lists of a task are empty where,
  and that a video lacks its `url` only by a fault. Then the search is the abstract
  search, the calls for single videos do nothing to the set the abstract task
  carries, and the three queryModel steps are the abstract ones.

**RedisPersistence.** SavedWritesKept is not inductive: a child that was forked
long ago could rename an old copy. `SaveInv` says that the copy of a live child
lies between the latest good save and the memory, from the fork until its handler
has run, which holds because SAVE is refused and SHUTDOWN kills the child; and
that a renamed file is still in place. `DirtyInv` adds that `dirty` minus
`dirty_before_bgsave` is the number of writes after the fork. From it follows that
the subtraction in the handler never goes below zero, which TypeOK needs.

**Accounts.** `StoredRegistered` (a stored hash belongs to a password that was
registered for its address: confirmed, unanswered, or saved by a thread that is about
to answer) and `HashesOwn` (a registration under way carries the hash of its own
password) make LoginOnlyRegistered inductive. No step takes a pair of credentials out
of the registered ones: a thread that answers or dies moves it into the history.

**RedisLists and TaskQueue.** `ListsInv` takes the two properties of the lists
together, since neither is inductive alone: a served client leaves the right
queues because `Registered` makes `bpop.keys` and `blocking_keys` agree, and a
served list is empty again because it had been empty before the push, which is
what NoOneWaitsInVain says of a list with a waiting client. A handful of lemmas
say what each command comes to in such a state (`Pushed`, `Served`, `Popped`,
`Waits`, `Released`); the proofs about the workers use these only. For the queue,
`WorkerInv` says that a worker that is down is not connected and that what a
worker runs was begun, and `OnePlace(m)` that a message which was never exposed is at
most once in a list, in a reply or with a worker, and nowhere once it has begun.
A message can come back from the hash `unacked`, so `HashInv` is needed beside it: a
message in the hash that was not exposed is in no list and on no way to a worker, and
if it was begun, the worker that runs it has yet to acknowledge it. A restore then
either finds a message that was never begun, or one that some worker has, which
exposes it; and when a worker that began a message and did not acknowledge it is
killed, the message is exposed at that moment. RunsOnceUnlessExposed is one of the
conjuncts of OnePlace; LostOnlyInPop is inductive together with the types and
WorkerInv.

**SearchViews.** ViewsTypeOK and PagesFollowListing are inductive together with
`ReaderInv` (a client that asks has been given as many videos as its offset says;
one that waits for a fetch no longer counts as `stored`) and `MessagesBounded`; the
bulk registrations matter to it only through the types of their lists.
SameListing shows that the listing depends on the documents of the query alone, so
that only a step which resets `same` can change it; PageAt and FullPageFollows that
the page at an offset continues what the client has, that the link leads to the
first video after it, and that a page without link ends the listing. The case of a
page of exactly `limit` videos, which is the last, is the one that asking for
`limit + 1` is for.

Only model-checked: the liveness properties (ExpiredKeysReclaimed,
StoredVideosGetIndexed, SomeTaskSaves, WritesReachDump, WritesResume,
ReaderFinishes, BulkQueriesGetDocs, SentTasksBegin), which are out of the
prover's reach. Every invariant, action property and refinement of a passing run has
a theorem.

Each property of a passing run also has a mutant (operators marked `Mutation`,
next to the definition they replace): a plausible slip in the code under which
TLC finds the property violated.

## 5. Not modelled

- `textSearch` and `videosWithDateFilter`: they hand a request to Elasticsearch
  and return its answer; nothing of theirs changes state.
- Django's own session and admin machinery, CORS, serializers: configuration or
  unused.
- Ranking and analysis in Elasticsearch, MongoDB's storage: external; each is a
  set or sequence with the calls the code makes.
- Celery's result backend, its beat schedule file and the task `add`: nobody reads
  what they leave.
- The rest of the vendored Redis server, which is by far the largest part of the
  repository: replication, Cluster, Sentinel, modules, scripting, transactions,
  access control, sorted sets, streams and the other types, eviction, the command
  line tools and the bundled libraries. The application never reaches them: it is
  configured with one server and uses a handful of its commands. Modelling them would say
  nothing about this program, and faithful models of them are projects of their
  own. Of the parts it does reach, the append only file is off in `redis.conf`,
  and encodings (quicklist, the format of the dump) have no effect on what the
  commands do.
- Power failure: `rdbSave` does not sync the directory after the rename; what a
  file system makes of that is not modelled.
- Wording of messages, logging, HTTP status codes as such.

## 6. Plan

1. *Done*: TokenStore, TokenMap, RedisKeyspace, Sessions, SessionsRestart,
   VideoIngest, QueryTasks, SearchViews, RedisPersistence, RedisLists, TaskQueue,
   Accounts; the runs above; the theorems above.
2. *Larger instances* where time allows: two workers in `search`, three threads in
   `sessions`, three messages in `task_queue`.
3. *A restart of Redis under TaskQueue*, and what a repetition of
   `generateRandomKey` can and cannot do to sessions.
