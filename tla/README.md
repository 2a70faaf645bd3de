# TLA+ models of the collaborative workspace backend

This directory models and verifies the parts of the backend whose correctness
depends on the order in which things happen: background jobs that live in two
stores, refresh tokens that are exchanged, roles that are checked in one
statement and used in another, presence sets and project events that several
servers pass each other over Redis, and a server process whose requests share a
pool of connections and have to end when it stops.  Every definition is
translated from the code; the entry of each in `PROJECT.json` ("map") names the
lines.  Paths below are relative to the repository's `src/` directory unless
they say otherwise.

## 1. The system

| Component | Code | State | Operations |
| --- | --- | --- | --- |
| Job requests | `controllers/job.controller.js`, `routes/job.routes.js` | none of its own | submit (three kinds), status, retry, cancel, listings |
| Job queue | `services/queue.service.js`, Bull in Redis | the job's state, attempts made, lock | addJob, getJobStatus, removeJob, retryJob; Bull's own timers |
| Jobs table | `services/job-db.service.js`, `config/schema.sql` | one row per job: status, result, retry_count | createJob, updateJobStatus, getJob |
| Workers | `workers/*.js` | the processors under way | begin (row: processing), work, complete or fail (row), resolve or reject (Bull) |
| Accounts and sessions | `services/auth.service.js`, `controllers/auth.controller.js`, `utils/jwt.util.js` | users, refresh_tokens | register, login, refreshAccessToken, logout |
| Authentication of requests | `middleware/auth.middleware.js`, `middleware/socket.middleware.js` | none; a connection of the pool, until next() has returned | authenticate |
| Projects and members | `services/project.service.js`, `controllers/project.controller.js`, `middleware/rbac.middleware.js` | projects, project_members | create, update, delete, invite, updateMemberRole, removeMember |
| Presence | `services/websocket.service.js`, `services/redis-pubsub.service.js` | per server: sockets, rooms, activeUsers; per socket: currentProject | connect, join_project, leave_project, disconnect, request_sync, presence channel |
| Project events | same files, `utils/events.util.js` | none | file, code and activity updates through Redis; typing and cursor notices on one server |
| Workspaces | `services/workspace.service.js` | workspaces | create, update, delete, list |
| Activity log | `services/activity-logger.service.js`, `models/mongodb/` | MongoDB documents | reads; `logActivity` is called by nothing |
| Database connections | `config/database.js` | a pool of 20 (10 with DATABASE_URL) and those who wait for it | connect, query, release |
| Start and shutdown | `server.js`, `app.js`, `workers/worker-manager.js` | the process | connect everything; on SIGTERM close queues, then the server, then exit |
| Validation, responses | `middleware/validators/`, `utils/` | none | pure |

How they interact.  An HTTP handler of a job writes Bull's queue in Redis and
the jobs table in PostgreSQL, one after the other.  The workers run in the same
processes as the API (`server.js` starts both), take jobs from the queue and
write the same rows.  A project handler runs after `isProjectOwner` or
`canWrite` has looked at project_members in a statement of its own.  A socket
handler asks project_members once, when its client joins.  Servers share
nothing but the three stores and the Redis channels.  Requests, socket checks
and job processors of one server take their connections from one pool, and a
request that goes through `authenticate` (twice behind most routes: in `app.js`
and in the router) and `checkProjectRole` asks for each of up to four before it
has given back the one before.

What is hard.

- *Two stores, no transaction.*  Queue and row disagree between any two awaits,
  and for good when the process dies or a statement fails in between.
- *At-least-once execution.*  Attempts, stalls, manual retries and attempts that
  time out while they go on running all start processors for one job.
- *A check and its use in two statements.*  Tokens (read, delete, insert),
  membership (lookup, insert), removal (look, delete), roles (check, handler).
- *Statements whose outcome is not known.*  A connection lost after the
  statement was executed looks like one lost before.
- *Events over two hops.*  Presence events of different servers overtake each
  other; the answer to request_sync races the events on their way.
- *Connections to Redis that break.*  ioredis hides it: a command without a reply
  is sent again, executed or not; a subscription is renewed, and what was
  published in between never comes.
- *A limit and who waits at it.*  With all connections out, requests in the
  middle of a chain, checks of sockets and processors wait in one line, for two
  seconds or for ever, as the configuration has it.
- *Stopping.*  The process goes on serving while Bull waits for its jobs, and an
  error nobody catches ends it at any time.
- *Handlers that go on after their client is gone* (`handleJoinProject`).

What makes each part correct, in words; section 4 names the properties.

- Jobs: not more executions than attempts, stalls and retries allow; a
  completed job has its result; a cancelled one never runs; one processor per
  job while Bull does not give up on a running one; queue and row agree on
  failed and removed jobs while nothing fails and the row is there in time; a
  submitted job ends.
- Sessions: one good token per session of an orderly client; a token exchanged
  a bounded number of times whatever clients do; a session that is over stays
  over; no session ends without a reason.
- Projects: members are members of live projects, once; only users who have
  been owners change them.
- Presence: of users whose clients behave, the sets are exactly who is there;
  lists converge to the sets; nobody stays listed who is gone.
- Project events: all clients of a room get what Redis executed, in its order,
  without gaps it could have been spared; the newest content ends on top.
- Server: no connection is lost or handed out twice; every request is answered,
  however full the pool is; the process exits when its work is done, and not
  before.

## 2. The modules

| Module | What it is |
| --- | --- |
| `DbStatements` | what can become of one SQL statement: executed, refused, or executed with its answer lost |
| `BullQueue` | one job of a Bull queue: its record and what Bull does to it |
| `JobRows` | one row of the jobs table and the updates the code makes |
| `JobLifecycle` | abstract specification of the status column |
| `JobSystem` | requests, workers, queue, table, crashes and timeouts together; properties and fairness |
| `JobInvariants` | the inductive invariants behind the properties of jobs |
| `JobSystemProofs`, `JobSafetyProofs`, `JobAgreementProofs` | theorems about jobs: types and locks; what holds whatever fails; what queue and row agree on |
| `SessionLifecycle` | abstract specification of a session |
| `Sessions`, `SessionProofs` | accounts and refresh tokens; the theorems about them |
| `ProjectAccess`, `ProjectProofs` | role checks, projects and members; the theorems about them |
| `RedisChannel` | publishing and subscribing over connections that break |
| `Presence`, `PresenceProofs` | sockets, rooms, activeUsers, and what clients make of the presence channel; the theorems about them |
| `ProjectEvents` | updates of a project on their way to the clients in its room |
| `EventProofs` | theorems about what clients are told: their lists of users, and the updates they receive |
| `ServerProcess`, `ServerProofs` | the pool, the middleware chain, sockets and processors, shutdown; the theorems about it |
| `MCJobs`, `MCSessions`, `MCProjects`, `MCPresence`, `MCEvents`, `MCServer` | small instances for TLC |

`JobSystem` EXTENDS `BullQueue`, `JobRows` and `DbStatements`, which hold
operators on single records, so that the composition is one state machine with
`queue`, `db`, `run` and `call` as functions from jobs, executions and requests.
`JobLifecycle` is instantiated with `status <- [j \in Jobs |-> db[j].status]`,
`SessionLifecycle` with the state that a session's tokens and requests leave it
in (`Standing`).  `Sessions` and `ProjectAccess` use `DbStatements` too.
`Presence` EXTENDS `RedisChannel`, and `ProjectEvents` EXTENDS `Presence`: its
steps are those of presence, with what they do to the updates on their way, and
some of its own.  `ServerProcess` stands by itself: what a handler does with its
connection does not matter there, only that it has one.  Definitions commented
"Broken variant of ..." take no part in any specification; they are plausible
mistakes, each of which one of the properties catches.

### Jobs (`JobSystem`)

A request `call[c]` has a program counter naming the await it is at:
`insert` (job added, row to come), `retry` (status read, job.retry to come),
`remove` and `mark` (cancel before and after job.remove), `ask` (row read,
queue to be asked), `answered`.  Ownership and status checks are the guards of
`ReadForRetry`, `ReadForCancel` and `ReadForStatus`; `seen` is what such a read
found, which is stale when used.  An execution `run[r]` follows the common
course of the three processors: `begin` (UPDATE processing), `work`,
`complete` (UPDATE completed), `fail` (UPDATE failed in the catch block), then
`resolve` or `reject`, when Bull hears of it.  A processor that fails
its COMPLETED update goes to the catch block, as in the code, and an error in
the FAILED update replaces the first.  Updates for a job without a row succeed
and change nothing (`updateJobStatus` does not look at the row count); `lost`
remembers them.

`queue[j].holder` is the execution that holds the job's lock.  `Timeout` takes
the lock away while the execution goes on; `Crash` leaves the lock to a dead
holder until `LockExpire`, after which `StalledCheck` puts the job back or,
after `MaxStalls`, fails it without telling the row.

Constants that stand for things the code leaves open:

- `Timeouts`.  `queue.service.js` passes `REDIS_URL || {...}` and the options
  with timeout and backoff as a third argument; Bull reads the third argument
  only if the first two are a name and a URL string.  Whether the job timeout is
  in force therefore depends on the environment, and both cases are checked.
  In the same way `delayed` stands for a backoff of any length, none included.
- `Crashes`, `DbFaults`: what may go wrong in a run.
- `NoProject`: jobs submitted with a project id that no project has, which the
  validator cannot know and the foreign key refuses.

### Sessions (`Sessions`)

A token is its jti; `issue[t]` says for which account and session it was made, a
session being named by its first token.  `stored` is the table refresh_tokens.
Every statement of `auth.service.js` is a step: `create` and `store` of a
registration, `read`, `cleanup`, `delete`, `store` of a refresh, `logout`.  A
client presents only tokens it has received (`held`).  A logout whose statement
raises is answered as served, as the catch block does.  The row and the JWT
expire together (seven days each, unless the environment says otherwise), so
`expired` is one set.

Clients may send requests while others are under way, as two tabs do, and
processes may die between any two statements.  Neither is switched off;
instead, two histories remember it: `overlapped` has the sessions whose client
did not await an answer, `disturbed` those in which a request was cut short (by
a crash, a refused statement or an answer that was lost).  The properties say
for which sessions they hold.

`SessionLifecycle` knows four states: none, open, over, and raced for a
session whose client overlapped requests.  Open means that a token can be
exchanged or a request is about to store one; what is promised is that over is
final.

### Projects (`ProjectAccess`)

`Check` is the role check, which reads project_members and lets the request go
on; the handlers are steps of their own after it, and so are the two halves of
inviteMember and removeMember.  The constraints of `config/schema.sql` decide
what the INSERT does (`InsertMember`) and what goes with a project
(`DeleteProject`, ON DELETE CASCADE).  createProject is one step: it is a
transaction nobody sees before it commits.  projects.owner_id is written by
createProject and decides nothing, so it is left out.

### Presence (`Presence`, `RedisChannel`)

`joining[k][p]` counts the joins of p whose access check is awaited, at most
`MaxChecks`: `AskJoin` and `JoinChecked` are the two halves of
`handleJoinProject`, and the second does not look whether the socket is still
connected.  `view[k]` is external: it is what a client makes of sync_state,
user_joined and user_left.  `current` is currentProject, which leaving does not
reset; `Sync` asks for nothing else, as the code does, so a client that has left
is answered as well, but gets no events to keep that list by and is taken not to
know one.  A process may die whether or not anybody is connected to it.  It loses its
sockets, sets, and events not yet sent, and comes back empty; `stranded`
remembers the users of whom it did not get to say that they are gone.  A name
of a connection is used again when nothing is left to do under it.

`RedisChannel` has the two connections of each server.  `outbox[s]` is what s
has published and got no reply for, `executed[s]` how many of these Redis has
executed all the same; `Resend` sends all of them again.  `Execute` hands an
event to the `inbox` of every subscribed server at once, so that all inboxes
have one order.  `listening` are the servers whose subscription stands; a
subscription that breaks takes with it what is on its way (`StopListening`),
and what comes before the handler is set (`Listen`) is dropped just so.

`Polite` are the users whose clients refrain from three things: sending or
disconnecting while a join is checked, joining a room before they have left the
one they are in, and having two connections.  The server enforces none of these,
and a client whose network drops cannot keep the first: `presence_ghost` shows
what happens then.  Properties speak of polite users, in a world in which other
users' clients do as they please.  `Reach` says which servers a connection may
end up at; `Locals(s)` are the users who always come to s.

### Project events (`ProjectEvents`)

`SendUpdate` is handleFileChange, handleCodeUpdate and handleActivityUpdate,
which treat their payload alike: they ask for currentProject and publish.
`DeliverUpdate` gives an update to everyone in the room, the author too.  `log`
and `received` are histories: what Redis executed of a project, and what a
client has got since it came into the room or since its server last missed an
update.  `FollowsRedis` speaks of places in an inbox and in the log: the updates
of a project that wait in an inbox (`Pending`) are the end of its log, and what
a client has received comes just before them.

### The server process (`ServerProcess`)

`todo[a]` is what a request, a socket or a processor still needs connections
for, the current use first: "authenticate", "role" and "handler" of a request,
"handshake" and "access" of a socket, "processing", "completed" and "failed" of
a processor.  `pool.out` are the leases out, `pool.queue` those waited for, in
order.  `PassOn` is next(): it asks for the following connection and then gives
back the one it has, since both happen in one turn of the event loop.
`Patience` is "2s" when the pool is configured by host and port, which sets
connectionTimeoutMillis, and "unlimited" with DATABASE_URL, which does not:
`GiveUp`, `MarkGivesUp` and `Die` are what becomes of a request, of a processor
and of a socket's check.  Nothing makes a wait end, so what is checked with "2s"
includes every behaviour in which nobody's patience runs out, as with
"unlimited"; the theorems are about both.  A mark that fails though it got its
connection (`MarkFails`) gives it back and asks again, to mark the row failed.

`phase` goes from "serving" by `Signal` to "stopping" (the queues are closing:
no job is picked, requests are still served), by `CloseServer` to "closing" (no
connection is accepted any more, those kept alive are served) and by `Exit` to
"exited".  `attended` are the processors Bull waits for; one whose job timed
out is not among them, and is cut off.

## 3. Assumptions common to all models

- One SQL statement is atomic, and so is one Bull operation (a Lua script in
  Redis).  A statement succeeds, is refused, or is executed with its answer
  lost (`DbFaults`).
- The queue service asks Bull for a job (getJob) and then acts on it; the model
  joins the two, and a job that goes in between is as one that was gone before.
- Redis commands wait and do not fail.  The clients of `redis-pubsub.service.js`
  are made with `maxRetriesPerRequest: null`; so are Bull's when REDIS_URL is
  set.  Without it Bull ignores its third argument, as it does the timeout and
  the backoff given there, its commands fail after ioredis' default number of
  reconnections, and the models of jobs assume that Redis is back before.  Redis
  does not lose data; what a broken connection does to publishing and to
  subscriptions is modelled.
- A command that a dead process had sent is not executed by Redis after those
  of the process started in its place.
- Node runs a handler without interruption from one await to the next.
- uuid v4 ids and jtis are fresh.
- Users are never deleted (no code does).
- Times are abstracted: a timer may fire whenever it is armed.
- A live processor does not lose its lock by being slow to renew it.

## 4. The runs

Each is a question; `PROJECT.json` gives for every property of a passing run a
mistake in the code that the run would find.  Eight runs pass.  The other four
check one statement of the repository each, and find it violated.

| Run | Instance | Properties and what they show |
| --- | --- | --- |
| `jobs_calm` | 2 jobs of 2 types, 2 executions, 2 requests, 2 attempts, no faults | `TypeOK`; `FailureIsRecorded` and `OnlyCancelRemoves`: queue and table agree; `FollowsLifecycle`: the status column implements `JobLifecycle` |
| `jobs_crash` | 1 job, 2 servers that crash, 2 executions, 2 requests, refused statements and lost replies | `OneProcessorPerJob`, `CancelledNeverRuns`, `CompletedIsBacked`, `RetryCountNeverFalls` |
| `jobs_live` | 1 job, 2 executions, 1 request, timeouts, crashes, refused statements, fairness | `SafetyInv` (the inductive invariant), `ExecutionBudget`, `SubmittedJobSettles` |
| `jobs_submit_error` | as small as possible, a project id of no project | `FailedSubmitLeavesNothing` is violated |
| `sessions` | 1 address, 4 tokens, 2 requests, crashes, refused statements, lost replies, 1 token that runs out | `TypeOK`; `ExchangeBudget`: races have bounded effect; `OneTokenPerSession`, `LogoutEndsSession`, `LogoutIsTrue`, `SessionSurvives`: what a session's client may rely on; `FollowsLifecycle`: `Sessions` implements `SessionLifecycle` |
| `sessions_rotation` | 3 tokens | `RotatedOnce` is violated |
| `projects_race` | 2 users, 2 projects, 3 member rows, 2 requests, faults | `TypeOK`, `MembersAreSound`, `ActorsWereOwners` |
| `projects_remove` | 1 project, 2 member rows, 2 requests | `OwnerIsNotRemoved` is violated |
| `presence` | 2 connections of 2 polite users, 2 servers that may die, 2 projects (one user is a member of one only), subscriptions that break, 5 events | `TypeOK`, `PresenceIsExact`, `NobodyGoneIsSeen` |
| `presence_ghost` | 1 connection | `ActiveUsersArePresent` is violated |
| `events` | a polite and another user, 2 servers that may die, 1 project, both connections to Redis break, 4 events | `EventsTypeOK`, `FollowsRedis`, `LastIsNewest`: the updates of a project; `ViewMatchesServer`, `NobodyGoneIsSeen`: lists of users in the composition |
| `server` | 2 clients, 2 processors, 2 connections, routes with one and four uses of the pool, fairness | `TypeOK`, `PoolIsSound`, `GracefulExit`, `RequestsAreAnswered`, `ShutdownFinishes` |

`OneProcessorPerJob`, `CancelledNeverRuns`, `RetryCountNeverFalls` and
`FollowsLifecycle` are checked with `Timeouts = FALSE`: with a job timeout in
force an attempt that timed out goes on beside the next one, writes the row when
it likes, and breaks all four.  What survives timeouts is `SafetyInv`.
`FollowsLifecycle`, `FailureIsRecorded` and `OnlyCancelRemoves` also ask that
nothing crashes or fails: a process that dies after COMPLETED was written makes
the job run again, and one that stalls too often leaves a row that says
processing although Bull has failed the job.

What the properties of jobs and sessions except, and why.  `FailureIsRecorded`
excepts a job whose last attempt was over before createJob (`Overtaken`): its
row says pending for good, and retryJob refuses it.  That takes three
attempts faster than an INSERT that may have to wait for a connection, which is
where no backoff is in force (see `Timeouts`) or the database is slow.  `CompletedIsBacked` excepts the updates
that were lost in the same way.  `SessionSurvives` and `LogoutIsTrue` except
sessions in which a request was cut short, `OneTokenPerSession` and
`LogoutEndsSession` those whose client did not await its answers.
`PresenceIsExact` and `NobodyGoneIsSeen` are about polite users, so they say
nothing of somebody who joins two rooms or has two connections (the sets count
users, and currentProject is one).  Others may be shown or hidden wrongly; that
they cannot disturb a polite user is what is shown.

What the properties of presence and events except, and why.
`ViewMatchesServer`, `NobodyGoneIsSeen` and `LastIsNewest` speak of moments
when nothing is on its way.  A list that missed an event is "unknown" until its
client asks again, and `received` begins again there: what a broken subscription
loses is lost, and nothing in the code notices, although "All connected clients
receive events" (`README.md:403`).  What a server did not live to report
(`stranded`) is excepted likewise.  An update that is sent again comes after
newer ones; `LastIsNewest` holds all the same because the newer ones are sent
again as well, unless the server dies in between.

What those of the server except.  `RequestsAreAnswered` says that a request
comes to an end: an exit ends those whose clients have gone, a death ends all.
`GracefulExit` is about the jobs Bull waits for and the clients still connected;
what the others have asked for, and processors whose job timed out, is cut off.

What the four violated runs show (the "findings"):

- `jobs_submit_error`: the job is queued before its row is inserted; when the
  INSERT is refused, the client is told "Failed to submit job" and the job runs.
- `sessions_rotation`: two requests that have both read a refresh token's row
  both exchange it, since the DELETE's row count is not looked at.
- `projects_remove`: a member made owner between removeMember's check and its
  DELETE is removed although owners cannot be.
- `presence_ghost`: a connection that ends while its join is being checked
  leaves its user in activeUsers.

Three more disagreements are in the models and no run of their own shows them:
a failed job that a retry refuses (`Overtaken`); a registration whose second
INSERT fails, whose client is told "Please try again" and is refused when it
does; and a logout whose DELETE fails, which is answered as a success.

Bounds, and why they are enough.

- `MaxAttempts = 2` (the code: 3) and `MaxStalls = 1` (Bull's default): two
  attempts have a first, a last, and a step from one to the other; the theorems
  hold for all values.  `MaxManualRetries = 1` bounds how often a job is put
  back by hand; one retry after the last attempt is the case the attempts do not
  cover.
- Two executions and two requests per run: every hazard listed is between two
  parties, or between one and a crash.  Two jobs in `jobs_calm` share the
  executions but not a queue; jobs have no variable in common but those.
- `Concurrency = 1` (the code: 5): one slot makes a waiting job wait.
- Sessions: four tokens are two logins of which one is refreshed twice, or one
  refreshed by two requests at once and again.  `MaxExpired` bounds the tokens
  that run out; one is enough for a session that ends so beside one that does
  not.  `RoomForToken` keeps a fresh token for every request under way, so that
  no handler is stuck by the bound.
- Projects: `MaxMembers` bounds the rows ever inserted, with two projects and
  three rows one project has two members while the other exists.
- Presence and events: `MaxEvents` is one budget for what is published, for
  connections that break and for crashes, since each of them gives the others
  more to do.  Five allow join, join, leave, join and an outage or a crash; four
  allow two updates sent, executed without a reply, and sent again.  Resending
  and subscribing are free.  A run ends when the budget is used up
  (`CHECK_DEADLOCK FALSE` in these runs only).  `MaxChecks` is 1 but for
  `presence_ghost`: polite users await one join at a time, and what two joins of
  one project do when they overlap they also do one after the other, which
  `events` has.  The theorems hold for all bounds.
- `PoolSize = 2` (the code: 20, or pg's default of 10 with DATABASE_URL) for
  four parties, so that up to two wait, and the one that waits may be in the
  middle of its chain while another is at its start.
- Symmetry is used for safety and action properties only, never under fairness.

Fairness (`jobs_live`): weak fairness of every request's and execution's next
step (a process that does not die runs on; a step that may be refused still
happens), and for each job of Pick, of Bull's delay timer, of lock expiry and
of the stalled check.  Pick is fair per job because all jobs of one queue have
the same priority and Bull hands them out in order.  Nothing is assumed of
clients, crashes, timeouts or faults.  A crash clears locks and executions any
number of times; the job still ends, since every crash that hits it counts as a
stall.

Fairness (`server`): weak fairness of what a request or a processor does next
(the databases answer, tasks end), of `CloseServer` and `Exit` (the awaits of
shutdown return once what they wait for has happened), and of node closing a
kept-alive connection that is not used.  Nothing is assumed of clients, nor of
the two seconds: `RequestsAreAnswered` holds with unlimited patience too, since the
pool serves its line in order and a chain gives one connection back for each it
asks for.  `ShutdownFinishes` is conditional: `<>[]Calm` says that clients leave
their sockets in the end, which the shutdown does not close, and send no more
requests.

## 5. What is proved

For all values of the constants (the ASSUMEs of the modules only, except where
the table says otherwise):

| Module | Theorem | States |
| --- | --- | --- |
| `JobSystemProofs` | `TypeCorrect` | `Spec => []TypeOK` |
| `JobSafetyProofs` | `Safety` | `Spec => []SafetyInv` |
| | `Budget` | `Spec => []ExecutionBudget` |
| | `Results` | `Spec => []CompletedIsBacked` |
| | `OneProcessor` | without timeouts, `Spec => []OneProcessorPerJob` |
| | `CancelledIsFinal` | without timeouts, `Spec => []CancelledNeverRuns` |
| `JobAgreementProofs` | `CountsRise` | without timeouts, `Spec => RetryCountNeverFalls` |
| | `FailuresRecorded` | undisturbed, `Spec => []FailureIsRecorded` |
| | `CancelRemoves` | undisturbed, `Spec => []OnlyCancelRemoves` |
| | `Implementation` | undisturbed, `Spec => FollowsLifecycle` |
| `SessionProofs` | `TypeCorrect` | `Spec => []TypeOK` |
| | `Exchanged` | `Spec => []ExchangeBudget` |
| | `OneToken` | `Spec => []OneTokenPerSession` |
| | `SessionsSurvive` | `Spec => []SessionSurvives` |
| | `LogoutEnds`, `LogoutTrue` | `Spec => []LogoutEndsSession`, `Spec => []LogoutIsTrue` |
| | `Refinement` | `Spec => FollowsLifecycle` |
| `ProjectProofs` | `TypeCorrect` | `Spec => []TypeOK` |
| | `MembersSound` | `Spec => []MembersAreSound` |
| | `ActorsOwned` | `Spec => ActorsWereOwners` |
| `PresenceProofs` | `TypeCorrect` | `Spec => []TypeOK` |
| | `PresenceExact` | `Spec => []PresenceIsExact` |
| `EventProofs` | `ListsMatch` | `Spec => []ViewMatchesServer` |
| | `NobodyGoneSeen` | `Spec => []NobodyGoneIsSeen` |
| | `PresenceAmongEvents` | `EventsSpec =>` these two and `PresenceIsExact` |
| | `EventsTypeCorrect` | `EventsSpec => []EventsTypeOK` |
| | `ClientsFollowRedis` | `EventsSpec => []FollowsRedis` |
| | `ClientsAgree` | `EventsSpec => []OneOrder`: of two clients in a room one has the end of what the other has |
| | `NewestIsLast` | `EventsSpec => []LastIsNewest` |
| `ServerProofs` | `TypeCorrect` | `Spec => []TypeOK` |
| | `PoolSound` | `Spec => []PoolIsSound` |
| | `ExitsGracefully` | `Spec => GracefulExit` |

"Without timeouts" is `Timeouts = FALSE`; "undisturbed" (`Undisturbed`) is that
and no crashes and no database faults.

Jobs.  None of the properties is inductive by itself.

- `ExecutionBudget` bounds `starts`, but a step that starts an execution must
  know how many failures and stalls the record shows.  `BudgetInv` accounts for
  every start by a failure, a stall, or the execution or success it led to
  (`Accounted`), and for every failure or stall beyond the limits by a manual
  retry (`Excess`).  That an attempt is charged only once needs `LockInv`: the
  lock's holder is an execution under way on that very job, and no job that is
  not active has one.  That a fresh id starts from nothing needs the first part
  of `BudgetInv`.
- `CompletedIsBacked` needs `ResultInv`: an execution about to resolve has had
  its result written (or lost for want of a row), and no step takes a result
  away; `RequestInv` says that an `insert` finds no row, so it cannot overwrite
  one.
- `OneProcessorPerJob` follows from `ExclusiveInv`, every live execution holds
  the lock of its job, which is what timeouts break.
- `CancelledNeverRuns` follows from `ExclusiveInv` and `CancelInv`: a job about
  to be marked, or marked, is out of the queue, and the only step that puts a
  job in the queue requires an id the table has not seen.
- `RetryCountNeverFalls` needs `CountInv`: every execution under way has made
  the attempts its queue entry shows, and the row no more than these.  A stalled
  job or a retry must not hand an execution an older count.
- What queue and row agree on needs `AgreementInv`: what the row may say at each
  point of an execution (`OnCourse`), and what it says in each state of the
  queue entry (`Agreed`).  A step moves one job or none (`Only`), so one lemma
  gives `Agreed` for all the others, and every action is looked at for the job
  it moves.  An execution about to reject has its failure in the row, or lost for
  want of one (`OnCourse`), and only the INSERT writes that row afterwards
  (`Overtaken`).  The status changes that this allows are those of
  `JobLifecycle`.

Sessions.  The steps are of four kinds: one that stores and takes no token
(`Move`), one that takes tokens away (`Delete`), one that stores one (`Store`)
and `Expire`; `KindsOfSteps` says that every action is one of them, and what the
invariant asks is shown once for each kind.  Its heart is `OneRequest`: an open
session whose client awaits its answers has one request under way.  So nobody
else can have taken the token that request is about to delete or has deleted
(`Alone`), and when it stores a new one the session has no other.  A session
that has neither a token nor a request that will store one is accounted for by a
history.  For `ExchangeBudget`, a stored token has not been exchanged yet, and
the exchanges made and those about to be made (`Through`) are together no more
than the requests (`BudgetInv`): after the DELETE no request gets through any
more.  `Refinement` follows, since no step makes a session open that was over.

Projects.  `Whole` says that what a request carries from its check to its
statement is complete, and that a request only an owner may make is of somebody
who has been one; that is `ActorsWereOwners`, although the role may be gone when
the statement is executed.  Rows are of live projects (`LiveRows`, which the
foreign key and its cascade keep when a deletion races an invitation) and single
(`SingleRows`, which UNIQUE keeps when two invitations race).

Presence.  Politeness becomes a statement about the server: a polite user has
one open socket (`OneSocket`), and while it is in a room, or gone, no check is
under way, nor more than one at other times (`Settled`), so that the room it is
in is its currentProject.  With
both, `Exact` is inductive: joining adds the only one, leaving and
disconnecting take the last one away.  Other users' sockets, broken connections
and crashes leave the polite users of other servers alone.

`IInv` is proved for the steps of `Move`, which are those of presence and the
sending and handing out of an update, so that it holds of both specifications.

Lists of users.  A list is what becomes of an answer when a queue of events is
played to it, which would take an induction over the queue.  But joining and
leaving overwrite each other, so all that matters of a queue for a user in a
project is whether it is silent about him and, if not, its last word (`Silent`,
`Ends`).  An event appended becomes the last word, and the one taken from the
front is the last word only if the rest is silent; these two lemmas
(`AppendSays`, `TailSays`) carry the proof.  `Told` says, from one end to the
other: the last word in what a server has not had a reply for is its activeUsers
(`Reported`), whether or not it is sent again, since all of it is; when there is
none, the last word on the way back to the same server is (`LocalsSettle`); when
there is none either, the list is (`LocalsListed`).  Each needs that nobody else
reports on a user who always comes to one server (`OwnEvents`).  For other
users, whose events overtake each other, less is true and is enough: where
somebody is shown, or is about to be, some server has him in activeUsers or has
yet to report on him, or died on him (`Covered`).  With `Exact` that is
`NobodyGoneIsSeen`.

Updates.  `Streaming`: the updates of a project in an inbox are the end of its
log (`AtEnd`), what a client has received is what comes just before (`Got`), and
who is not in the room has received nothing.  A step moves the boundary between
what is received and what is pending, the end of the log, or neither (`Goes`);
a subscription that breaks leaves nothing to account for, because `received`
begins again exactly where an update was on its way.  Counting the places after
a given one when the queue's front is removed is a bijection (`Shift`).
`ClientsAgree` follows: clients of one server have the same pending.

Newest update.  A server numbers what it publishes in order (`Numbered`).  For an
author who is always connected to one server, either an update of his waits for
its reply that is no older than any in the log, or none waits and the last of
his in the log is the newest (`Settling`).  Redis executing commands twice
puts older updates on top, but a newer one then still waits; when the reply
takes the last of them from the queue it is the last in the log.  A crash empties
the queue, and makes every author in it `stranded`.

Server.  `Sound` says that a pool by itself is in order, `Held` which leases are
out or waited for; asking, giving back and leaving the line each keep the first
and change the second by one lease.  `Owned` says that a lease is that of the
use its actor is at, so an actor has one at most, and next() may ask for the
following one before it gives its own back: it is another.  Every action moves
one actor, and `Moved` says what has to be seen for it.  `ShutInv`: with the
queues closed no processor is attended to, since none is started any more.

Each inductive step is one lemma per action or kind of action.  The invariants
were model-checked before they were proved (`SafetyInv` still is, in
`jobs_live`).

Only model-checked.  Liveness (`SubmittedJobSettles`, `RequestsAreAnswered`,
`ShutdownFinishes`), which needs ENABLED.  Every invariant and action property
that a run checks is proved.

## 6. Not modelled

- What a job computes, its progress, error texts, timestamps and listings;
  queue priorities and order (equal within a queue); clean, pause, resume and
  deleteOldJobs (called by nothing).
- Access tokens, password hashes, validation and wording of answers;
  optionalAuth (used by nothing).
- Names and descriptions of projects.
- Workspaces.  The router is mounted at /workspaces (`app.js:70-74`), while its
  comments (`routes/workspace.routes.js:10`) and its handlers expect
  /projects/:projectId/workspaces.  A request that names its project in the
  body passes the role check, but the handlers take the project from the path,
  where there is none: the INSERT stores a row with a null project_id, and no
  statement, all of which say `project_id = $n`, finds that row again.  There
  is no state to be wrong about until the mount is.
- The activity log: read only, and `logActivity` is called by nothing; MongoDB.
- Typing and cursor notices: they go from one socket to the room on the same
  server, change nothing and are not passed to other servers.
- Membership that changes while a socket is in a room: the check is made at the
  join and never again, no document promises otherwise, and nothing in the code
  relates the two, so `Members` is a constant of `Presence`.
- A start that fails because a store cannot be reached: the process exits.
- `scripts/init-db.sql`, whose schema differs (refresh_tokens.token_id) and
  which docker-compose does not use; `config/schema.sql` is the one modelled.

`hazards` in `PROJECT.json` lists every hazard found, with the properties that
cover it or the reason why none does yet.

## 7. Plan

What is left, the most important first.

1. The composition of `ProjectAccess` and `Presence`: for how long a removed
   member goes on receiving a project's events (until his client leaves or
   disconnects, or his server dies).
2. The first connections at start, and a store that cannot be reached then.
