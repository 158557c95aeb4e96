# Formal models of Ytaria Manager

Ytaria Manager downloads media on a server on behalf of several users: a FastAPI
application accepts links, Celery workers run `yt-dlp` for them under a lease, a
reconciler repairs what workers and brokers lose, a retention sweep frees the
disk, and web and Android clients fetch the finished files. These modules model
the parts where the program's own difficulty lies - the life of a download job
between users, workers, broker, reconciler, sweep and disk; the submission of
jobs under locks; login sessions and the clients that refresh them; the delivery
of files; process groups and the connections they open through a proxy; and the
older single-user service - check them with TLC on small instances and prove every
safety property that is checked for all instances with TLAPS.

## 1. Inventory

Paths are relative to `backend/app/` unless they start with another directory
of the repository.

| component | state it keeps | operations | talks to |
| --- | --- | --- | --- |
| state machine (`states.py`) | none; statuses and the table `TRANSITIONS` | `can_transition` | used by `jobs.move` |
| job service (`services/jobs.py`, `models.py`) | table `jobs`: status, attempts, lease token and expiry, `next_attempt_at`, `enqueued_at`, `deleted_at`, `files_purged_at`, file and usage columns | create, pause, resume, cancel, retry, delete; claim, heartbeat, complete, fail_or_retry, finish_stop, mark_purged | API, workers, reconciler, all through row locks |
| reconciler, retention (`services/reconcile.py`) | none of its own | recover_expired_leases, redispatch_queued, cleanup_files, cleanup_records, remove_orphan_directories | jobs table, broker, disk |
| executor (`worker/executor.py`) | one attempt: token, heartbeat clock, limits | execute_download: claim, check, run, publish, commit, tidy, purge | job service, storage, runner |
| storage (`services/storage.py`) | `jobs/<id>/work` and `jobs/<id>/final` | prepare, find output, finalize, remove | called by executor and sweep |
| dispatch (`api/jobs.py`, `worker/dispatch.py`, `worker/tasks.py`, `worker/celery_app.py`) | messages in Redis, unacknowledged ones in workers | publish after commit, stamp, deliver, acknowledge late, redeliver | API, workers, reconciler |
| runner (`services/runner.py`) | a process group and its pipes | start, poll, terminate, kill | executor, inspections |
| inspections (`services/inspections.py`) | table `inspections` | create, dispatch, execute, expire | API, worker, reconciler |
| sessions (`api/auth.py`, `security.py`, `api/deps.py`) | refresh token families, CSRF binding | login, refresh with rotation and reuse detection, logout | web and Android client |
| web session client (`frontend/src/lib/session.ts`, `api.ts`) | tokens, one refresh in flight | refresh, retry a request, log out | sessions |
| delivery (`api/files.py`) | tickets, transfers, open streams | ticket, range request, finish | jobs table, disk, sweep |
| rate limiter (`ratelimit.py`) | counters in memory or Redis | hit | API |
| egress proxy (`egress_proxy.py`) | tunnels of two pipes, a connection limit | connect, pipe, close | `yt-dlp` |
| legacy service (`ytaria.py` at the top) | SQLite job store, one worker thread | create, pause, cancel, claim, finish | browser on the same machine |
| URL policy, engine, serialisation, shell, migrations, screens, deployment, tests | none that changes at run time | pure functions, wiring, presentation | - |

**What is hard here.** Row locks make each transaction atomic, but an operation
of the program is several transactions with file operations, a subprocess and
messages between them. A user, a worker, the reconciler, the sweep and a second
worker that believes it owns the same job may act in each gap. A worker may be
killed in any of them, or merely stalled until its lease runs out. Messages are
lost, doubled and late. `enqueued_at`, `files_purged_at` and `disk_bytes` are
notes about the outside world and may be wrong about it.

**What makes each component correct.**

* *Job service*: only moves of the table; lease and status agree; a worker
  without the lease writes nothing; a cancel cannot be overtaken; the number of
  attempts stays within its budget under any mix of pauses, crashes and retries;
  the limits on active and on running jobs; no two active jobs of one user for
  the same content.
* *Executor, storage, sweep*: a completed job has its file; partial data is not
  removed while somebody uses it; nothing is left behind that no sweep finds.
* *Dispatch, reconciler*: a queued job is eventually worked off, a requested
  pause or cancel eventually happens, whatever is lost.
* *Inspections*: the pending limit is not consumed for ever. *Sessions*: reuse of
  a rotated token ends its family, an honest client is not logged out. *Delivery*:
  a response begins only while the job is completed; what a device puts together
  from several is one file; the sweep spares the file of a live transfer.
  *Runner*: no process of a job survives its stop. *Egress proxy*: a tunnel and
  its slot are always released. *Rate limiter*: the bound per window. *Legacy
  service*: one worker, a row in progress belongs to it, finished rows stay finished.

`PROJECT.json` lists each hazard at its line, with the properties that watch it.

## 2. The modules

```
JobStates            statuses and transitions                      states.py
JobStateMachine      abstract: what readers of the table rely on   states.py, jobs.move
JobService           the table and all its transactions            jobs.py, reconcile.py
  |                    implements JobStateMachine
  +-- Executor       + execute_download step by step, files, sweep executor.py, storage.py
  |     +-- ExecutorProofs
  +-- Dispatch       + API, broker, redelivery, reconciler         api/jobs.py, worker/*.py
  +-- JobServiceProofs, JobLimitsProofs     theorems about JobService
Admission            abstract: requests served one at a time       jobs.py
Submission           create_job, retry_job by statements           jobs.py
  |                    implements Admission
  +-- SubmissionProofs
Sessions             tokens on the server and tabs of the client   auth.py, session.ts, api.ts
  +-- SessionsProofs
Delivery             streams, transfer rows, the sweep             files.py, reconcile.py
  +-- DeliveryProofs
Fetch                slots with process groups and connections     tasks.py
  +-- Inspections      rows and messages of inspections            inspections.py
  +-- Runner           process groups                              runner.py
  +-- EgressProxy      connections and tunnels                     egress_proxy.py
  +-- FetchProofs
LegacyService        processes, lock and pid file                  ytaria.py
  +-- LegacyWorker     job store, worker and HTTP threads          ytaria.py
  +-- LegacyProofs
MC*                  instances for TLC
```

`Executor` and `Dispatch` take the actions of `JobService` as they are and
put them under further guards, so every behaviour of theirs is one of the table
(`ExecutorRefines` proves it of `Executor`) and what is proved of `JobService` is
about the same actions. `Submission` opens
up the two actions of `JobService` that are more than one statement under one
lock. `Fetch` composes three components that meet in a slot: what an inspection
runs is a process group, and what holds a tunnel open is a process.
Operators whose names end in `_mutant` are wrong on purpose and take no part in
any specification: each is the definition after it with a plausible bug, kept to
show that the properties notice it.

### JobService

| model | code |
| --- | --- |
| `job[j]` | the row: `status`, `attempts`, `lease` (`lease_token`), `live` (`lease_expires_at` is in the future), `due` (`next_attempt_at` has come), `enqueued` (`enqueued_at`: null, fresh, or older than `dispatch_stale_seconds`), `deleted`, `aged` (retention over), `purged` (`files_purged_at`), `file` (`file_relpath`) |
| `attempt[w]`, `phase[w]` | what a pool slot executes and which transaction it owes next |
| `stalls` | counts leases that ran out under a living worker |
| actions named like functions | one committed transaction each; `Move` is `move()` |
| `HasCapacity`, `NoActiveTwin` | `_check_capacity`, the partial unique index |
| `ClockStep` | the passing of time: lease, backoff, stale stamp, retention |

Timestamps appear as the facts that code derives from them by comparing with
the present. The token of an attempt is the slot's name: a slot runs one attempt
at a time, and when it comes to a second one the row no longer holds the first
token (`SettledLetsGo`, or the attempt was left by a crash and the row is
recovered before it can be claimed again). `create_job` and `retry_job` are one step here; `Submission` shows
why they may be. `claim_job` is one step
because of its advisory lock and the commit that follows it. A sweep or a
recovery over many rows is one step per row: rows are independent and each is
decided under its own lock.

The byte quota is an additional refusal that may occur at any submission, and a
refusal changes nothing, so it appears as the possibility of not submitting.
A completed job with a live transfer is skipped by the sweep, which likewise is
a step not taken. Events, progress columns, titles and error texts are left out.

### Executor

`step[w]` is the program counter of `execute_download`. Every transaction of
`JobService` happens at one of its steps, and every file operation is a step of
its own, with `Finish` (return, exception or death of the worker) possible
at all of them. `work[j]` and `final[j]` are the two directories; `charged[j]`
says that `disk_bytes` is not zero. The sweep takes three steps because it
removes files before it commits: `SweepRemove`, then `SweepCommit` or, when it
dies in between, `SweepDies`; in the meantime it has the row locked, and the
transactions of others wait (`Unlocked`). `overlapped` is a history variable:
the jobs that were claimed while an older attempt of theirs was still going on.

`yt-dlp` is the action `Write`: while it runs it may leave partial data or a
finished output at any time. A stop kills the whole group before `run_controlled`
returns; until then the worker is at the step `stop`, or at `lost` when the row was taken
from it, and its group still counts as being in the work directory (`HasGroup`). The leader dies with its
worker (`setpriv --pdeathsig`, assumed to be installed), but nobody sees to the helpers
it has started (`aria2c`, `ffmpeg`): neither when the worker is killed (`SECURITY.md:76`) nor
when the leader exits by itself (section 4). `Outlived` lets them survive in both
cases, `stray[j]` counts the leaders that left some which still run, `survivors[j]` those that
ever did. Such a helper goes on writing partial data (`StrayWrites`), beside whatever
attempt comes next, until it ends (`StrayEnds`). It makes no finished file: that is the
leader's to do. That its data may spoil those of the next attempt, which resumes the same
files, is a question of content and is not modelled; nor is `ignore_errors` of `rmtree`, so a removal
removes. Failures of the subprocess are a choice
of `retryable` and of membership in `_FREE_PARTIALS`.

### Dispatch

`queue[j]` counts messages in the broker, `api[j]` the requests that have
committed and not yet published or stamped (requests at the same point are
merged). A delivered message is `attempt[w]` itself, as acknowledgement is late:
`Die` puts it back when the worker is lost and drops it when the task raised.
`LoseMessages` empties the broker. `Redispatch` publishes under the row lock
before the commit, and `RedispatchDies` is the same without the commit.
Redelivery by `visibility_timeout` is left out, because `celery_app.py` sets it
longer than `task_time_limit`.

### Submission and Admission

`Admission` is what a user may expect: a submission or a retry looks at the table
and changes it in one step. `Submission` has the statements: `req[r].pc` is where a
request stands between the lookup of its key, the wait for the user's row
(`userLock`), the checks under it, the INSERT or UPDATE that a unique index may
refuse, and, after the rollback, the search for the row that won. `row[j]` keeps
of a job whether it is active, what it wants and its key. A statement sees what
is committed when it begins (READ COMMITTED). Jobs end at any time, also between
two statements of a request; no other operation makes a job active, which is
what `JobLimitsProofs` proves of `JobService`. Inspection checks and the byte quota
refuse before anything is written and are requests that are not made.

### Sessions

| model | code |
| --- | --- |
| `row[t]` | a refresh token: its family, `used_at` (no, within the grace of reuse, or older), revoked or expired |
| `call[<<b, "refresh">>]`, `call[<<b, "logout">>]` | a call of tab `b`, in the client (`queued` for the Web Lock, `ready`), on the server (`sent`, `rotate`, `revoke`) and on its way back (`answer`); `snap` and `held` are the rows an UPDATE has seen and those it has locked |
| `jar` | the cookies the tabs share, or what the native client has stored, and the access token |
| `tab[b]`, `resend` | `SessionState`, and requests that are repeated once after a refresh |

A rotation is two steps: the SELECT ... FOR UPDATE, which waits for the row,
and the commit that inserts the successor. A revocation takes a snapshot,
locks the rows one by one and commits; a token that is inserted meanwhile is in
no snapshot. Two revocations scan a family in the same order, but a reuse holds its
own row already, so the two can wait for each other, and the database ends one of them
(`deadlock_victim`). Three kinds of client are considered: a browser with Web
Locks, one without, and the native application, which has one tab. A tab has one
logout at a time, the client that lost a call notices after the server is done
with it, a family expires only while no call of it is under way, and an access
token outlives the one repetition of a request.

A server in trouble answers a call with 429 or 5xx before it has read a row (`server_trouble`);
when it fails after a commit, the client cannot tell that from a lost answer, and `Lose` stands
for both. At its launch a tab of a browser asks `/api/auth/me` (`bootstrap_web`): it is signed
in, refreshes after a 401, is `unreachable` without an answer, and shows `signed-out` after any
other answer. `faults` is a history variable, the reasons a tab may have to be signed out:
`loss`, `reuse`, `ended`, and `trouble`, an answer of that last kind. Registration, passwords, CSRF and
origin checks are refusals that change no token.

### Delivery

One job and its file, which has two pieces, each at least as large as what is
sent between two flushes. `gen` counts the files the job has produced, `disk` is the
one that is there, and `stream[c].gen` is the one that a stream has open: the
descriptor keeps it after its removal. `row[t]` is a transfer row with `sent`
(`bytes_sent`) beside `real`, what was truly sent. A flush is `FlushRead` and
`FlushWrite`, because the session reads the row in one statement and writes
the sum in another without a lock. The sweep is two steps as well: it holds the lock
of the job's row, but serving a request takes no lock at all. `device[c]` is what a
client has put together with ranges and If-Range. Tickets lead to the same
function as authenticated requests. `report_transfer`, which a client sends when it has
stored the file or failed to, makes the latest transfer row a recent one, or adds a row. HEAD
changes nothing.

### Inspections, Runner, EgressProxy and Fetch

`Inspections` is the table of one user, the messages of the queue `inspect` and the
requests that have committed and not yet published. `done` stands for `succeeded`
and `failed`; an id may be used again when its row and its messages are gone.

`Runner` has a process group for each slot: a leader, the tool itself, and perhaps a helper
(`aria2c`, `ffmpeg`). A leader that has exited is a zombie until `poll()` or `wait()`
reaps it, and only as long does its id lead to the group. SIGTERM obliges nobody:
`LeaderExits` and `HelperExits` may or may not happen before `GraceEnds`. `setpriv` is
assumed to be installed; without it the leader too outlives its worker.

`EgressProxy` has the coroutine of each connection: waiting for the semaphore, serving
(head, resolution, connect), piping with two pumps. A pump reads, with a timeout, or
drains, without one. For the pump towards the client it does not matter which.

`Fetch` puts them together: a task runs a group, the connections of a group close when the
last process of it is gone (`HangUp`), a worker that dies leaves its message to be
delivered again and perhaps processes (`orphan`) that still hold connections.
Slots listen to one queue or to both. The rows and files of downloads belong to
`JobService` and `Executor`: here a download may start, and be told to stop, at any time.

### LegacyWorker and LegacyService

Every method of `JobStore` is one step, as it holds the store's lock and commits.
`worker[s]` is the worker thread of a process with `Worker.current`, its two flags and
the downloader; `request[s]` is an HTTP thread between reading `Worker.current`
or the row (`Match`, `Look`) and acting on it (`Mark` and `Signal`, `CancelRow`); the code reads
`Worker.current` anew each time, so what is marked need not be what is signalled. `dropped` are
the rows whose claim has committed while the thread was told that it had failed: `get_job` reads
the row again after the commit, and `run` takes its `OperationalError` for a claim that did not happen. `LegacyService` adds
the processes: the check of the pid file, writing it, the worker lock and the recovery
of running rows before the port is bound; `stop` with its SIGTERM and, after a while, SIGKILL.
A service that receives SIGTERM hangs (`hung`): its handler calls `shutdown()` in the
thread that runs `serve_forever`. A killed process leaves its downloader behind
(`orphans`), which runs in a session of its own. `blind` and `overlap` are history variables for the
two places where the service is knowingly careless: a cancel that acts on
what it read earlier, and two commands that work on the pid file at once.

## 3. What is checked

| run | instance | shows |
| --- | --- | --- |
| `JobService_safety` | 2 jobs of one user, 2 slots, 2 attempts, 1 running job allowed, 1 stall | `IInv`, `ConcurrencyPaidByStalls`, `FencedWrites`, `CancelWins`, `Implements` |
| `Executor_files` | 1 job, 3 slots, 2 stalls, 2 manual retries, 1 leader that leaves a helper | `XTypeOK`, `OneProcess`, `CompletedKeepsFile`, `SweepFindsRemains`, `WorkNotPulledAway` |
| `Dispatch_liveness` | 1 job, 2 slots, 2 messages, 1 loss, 2 user operations, 1 stall | `QueuedSettles`, `CancelServed`, `PauseServed` |
| `Submission_locks` | 3 requests, 1 key, 3 contents, 3 jobs, 2 active allowed | `SubmissionTypeOK`, `ActiveWithinLimit`, `NoDuplicateActive`, `AnswerFits`, `ConflictResolved`, `AsIfOneByOne` |
| `Sessions_rotation` | 2 tabs, all kinds of client, 3 tokens, 2 logins, 1 lost call | `SessionsTypeOK`, `OneFresh`, `HonestStaysSignedIn`, `ReuseMeansLoss`, `DeadStaysDead`, `RevokingEndsFamily`, `RefreshEnds` |
| `Delivery_transfers` | 2 devices, 2 transfer rows, 2 files | `DeliveryTypeOK`, `PartsAgree`, `NeverOvercounted`, `SweepSparesTransfers` |
| `Fetch_network` | 2 slots, one of them for inspections only, 1 inspection, 1 message, 2 connections for 1 place | `FetchTypeOK`, `NothingLeftAfterStop`, `OneExecutor`, `LimitLifts`, `TunnelsFollow` |
| `LegacyService_queue` | 2 processes, 2 jobs, 1 fault | `LegacyTypeOK`, `RunningIsHeld`, `PausedIsStopped`, `PidfileNamesService`, `FinalUnlessBlind` |
| `JobService_limits` | as safety | violates `LimitsAreExact` |
| `JobService_purge` | as safety | violates `PurgesOnlyTerminal` |
| `Executor_fencing` | 1 job, 2 slots, 1 stall, no retry | violates `CompletedHasFile` |
| `Executor_leak` | 1 job, 2 slots, no stall, 1 retry | violates `CanceledIsSwept` |

The largest are `Executor_files` (3.9 million states), `Delivery_transfers` (3.7 million),
`LegacyService_queue` (2.3 million) and `Sessions_rotation` (0.6 million, with liveness).

**Bounds.** `MaxStalls`, `MaxSurvivors`, `MaxRetries`, `MaxMessages`, `MaxLosses`, `MaxOps`, `MaxTokens`,
`MaxFamilies`, `MaxGen` and `MaxFaults` are bounds of the models, not of the code.

*Jobs.* Two jobs with room for one running make
the limits and deferrals bite; two attempts give one automatic retry and one
last attempt; two slots give an old and a new holder of one lease, and three
slots in `Executor_files` give a holder between two overtaken ones. One stall
suffices to put two attempts on one row, two put three there. One surviving helper is one
group too many without a stall, and a second and a third with the two stalls. The runs that
look for a violation of file properties have none, so that their findings do not rest on helpers. Two retries let a
job pass twice through every finished status. Two messages are a message and
its duplicate; more duplicates are taken in vain in the same way. The properties
quantify over single jobs or pairs, and jobs influence each other only through the two
limits, the unique index and the claim.

*Submission.* Three jobs are one more than the limit, and three requests are one that
holds the lock, one that waits for it and one that has lost an index conflict or has yet to look its key up.
One key is enough for two requests with it and one without.

*Sessions.* Three tokens are a token, its successor and one that escapes a
revocation, or one of a second login. Two tabs are one that holds the Web Lock and one that waits for it;
one lost call suffices for a reuse.

*Delivery.* Two pieces tell a beginning from an end and give ranges that start at the first
byte or later; two devices share a row or have one each; two files are a file and the
one that replaces it.

*Fetch.* One place for two connections makes the semaphore bite. One inspection with
a limit of one reaches the limit; two slots are needed to execute it twice.

*Legacy.* Two processes are a service and the next one, or two starts at once; of two jobs
one is claimed while the other waits or is acted upon.

Symmetry is used where names are interchangeable and the properties are safety
properties; the three runs with liveness use none.

**Deadlock** is not checked: when all jobs are removed, purged and swept and the
bounds are used up, the system rightly has nothing left to do.

**Fairness** is what the scheduling of the code gives.

`Dispatch!Fairness`:

* a living worker goes on: `run_controlled` polls `control()` at every interval and
  ends the process at `job_max_runtime_seconds`, and the transactions after it
  wait for nobody. Hence weak fairness of heartbeats, of the end of a run and of
  what follows it;
* Celery beat starts the reconciler every `reconcile_interval_seconds` and time
  passes: weak fairness of lease expiry of dead workers, of recovery, of
  redispatch, of backoff and of stale stamps;
* a free slot takes a waiting message: weak fairness of deliveries in vain, strong
  fairness of deliveries that claim. The latter assumes that free disk space is
  not short at every single delivery; if it is, jobs wait for ever, as they should;
* nothing is owed by users, by the API after its commit, or by the broker.

`Sessions!Fairness`: the server deals with every call that reached it, the database
hands row locks on and resolves deadlocks, and the client goes on with every answer:
weak fairness of each. Web Locks are granted in the order they were asked for,
hence strong fairness of getting one. Nobody has to start anything.

`Fetch!FFairness`: time passes and the hourly cleanup runs (`ClockGoesOn`); a slot that has
claimed an inspection carries it on, and `communicate` times out (`InspectionGoesOn`);
the proxy's event loop runs and the stages before a tunnel have timeouts
(`ProxyProgress`). Tools, destinations, brokers, users and downloads owe nothing, and
the four-hour deadline of a connection is deliberately not counted on.

Crashes need no fairness. In `Dispatch` they are unbounded, but the attempt budget bounds
what they can do to one job.

## 4. What the checks found

Disagreements with a statement of the repository, each with a run that is expected to
end in a violation:

* **A retried job can leak** (`Executor_leak`). `retry_job` keeps `files_purged_at` of
  a canceled job and no later step clears it. If the second attempt is canceled
  while its worker is lost, nobody removes the files: the sweep looks only at
  rows with `files_purged_at` null. `docs/ARCHITECTURE.md:96` promises the
  next sweep. `SweepFindsRemains` is the promise that does hold: without a manual
  retry and without stalls nothing is left behind.
* **A purge may hit a live job** (`JobService_purge`). The worker's `_purge` runs after
  the transaction that canceled the job; a retry in between is queued, even
  running, when its files are removed and it is marked purged. The docstring
  of `mark_purged` says the job "is already terminal".
* **Rows are fenced, files are not** (`Executor_fencing`). A worker that stalled while
  publishing is refused by `complete_job` and removes `final/`, which may then
  hold the file of the attempt that did complete. `CompletedKeepsFile` is the
  version that holds: files stay unless two attempts overlapped.
* **The limits on running jobs are not exact** (`JobService_limits`). The claim counts
  live leases only, and a stalled worker revives its lease at its next
  heartbeat. `ConcurrencyPaidByStalls` is what holds: the excess is at most the
  number of stalls.

Met while modelling, and part of the models, without a run of their own:

* *Executor.* A helper that outlives its worker, or the leader that exits by itself, shares the
  work directory with the next attempt without any lease having run out under a
  living worker; `docs/SECURITY.md:76` names the first case among the known limitations.
  `OneProcess` counts such helpers and says that there is no other reason. They may also
  leave files after the last removal, which no sweep looks for; `SweepFindsRemains` is
  about what the program itself leaves.
* *Runner.* When the leader of a download exits by itself, `poll()` has reaped it
  before `_group_alive_safe` asks for its group; the answer is "nobody", and a helper that
  lives on is left behind. `runner.py:89` says the group "is always terminated before
  returning", as does `docs/ARCHITECTURE.md:84`. `NothingLeftAfterStop` is the version that
  holds, for runs that were stopped and for inspections.
* *Inspections.* One whose worker died stays `running`, is returned for
  its link as if it were alive, and counts against the limit until an hour after its
  expiry (`LimitLifts` says that this ends).
* *Egress proxy.* The idle timeout is per direction: a tunnel in which one
  direction is silent is cut although data flows in the other. Both pumps
  stuck in `drain()` end only at the deadline of four hours.
* *Delivery.* Parallel streams of one transfer overwrite each other's
  counts, so `bytes_sent` may fall short of "what the server streamed"
  (`models.py:207`), though it never exceeds it (`NeverOvercounted`). A single range at the end of a
  file marks a transfer as sent, where `docs/ARCHITECTURE.md:45` says "every byte", even while another
  stream of it goes on. A stream that takes longer than the window for one flush
  counts as idle. A response that never begins leaves its descriptor open.
* *Submission.* The key of a request that was answered with an active twin is recorded
  nowhere. `queries.ts:99-101` promises that a retry with a stable key creates no second job;
  once the twin has ended, it does.
* *Sessions.* Trouble at the launch of a tab signs it out: `bootstrap` (`session.ts:71`) takes every
  answer of `/api/auth/me` that is neither OK nor 401 for the end of the session,
  429 and 5xx included, where `session.ts:142`, in `doRefresh`, says of the same answers that "server
  trouble is not a reason to sign the user out". `HonestStaysSignedIn` is what holds: this case
  excepted (`trouble` in `faults`), and in the native application and browsers with Web Locks, a tab that
  is signed out has lost a call, or its session has ended or been revoked. Browsers without Web Locks have
  no such guarantee: two of their tabs may refresh at once, and the loser may be taken for a thief.
* *Sessions.* A rotation that overlaps a logout leaves a token that the logout
  did not see (`RevokingEndsFamily` names the exception). A lost answer followed by the
  end of the grace period looks like a theft, by design.
* *Legacy service.* SIGTERM makes it wait for itself; `stop` then kills it, its
  downloader goes on, and the next worker starts the same job beside it, while
  `ytaria.py:1214` promises that "only one worker ever downloads at a time". A cancel that
  acts on an old look may overwrite `done`; an exception before a
  download starts ends the worker thread while it holds the lock; an `OperationalError` after the commit
  of a claim leaves the row running, with no downloader, until the service is started again.
  `PausedIsStopped` is about the process the worker waits for: `process.wait` waits
  for `yt-dlp` alone, so a helper of it may still be there when a resume starts the next.

## 5. What is proved

Every invariant and every action property of the runs that pass, and both refinements,
are theorems, for all values of the constants that satisfy the assumptions below. What
liveness asks is left to TLC.

| module | theorem | statement | also checked by |
| --- | --- | --- | --- |
| `JobServiceProofs` | `Invariance` | `Spec => []IInv` | `JobService_safety` |
| | `Refinement` | `Spec => Implements`: the table implements `JobStateMachine` | |
| | `CancelAlwaysWins` | `Spec => CancelWins` | |
| | `WritesAreFenced` | `Spec => FencedWrites` | |
| `JobLimitsProofs` | `StallsPay` | `Spec => []ConcurrencyPaidByStalls` | |
| | `LimitHolds`, `NoDuplicates` | `Spec => []ActiveWithinLimit`, `Spec => []NoDuplicateActive` | `Submission_locks` has the finer ones |
| `ExecutorProofs` | `ExecutorRefines` | `XSpec => Spec`: attempts are behaviours of the table | |
| | `ProgramInStep` | `XSpec => []XTypeOK` | `Executor_files` |
| | `NoTwoProcesses` | `XSpec => []OneProcess` | |
| | `FileStays` | `XSpec => []CompletedKeepsFile` | |
| | `WorkStays` | `XSpec => WorkNotPulledAway` | |
| | `NothingLeaks` | `XSpec => []SweepFindsRemains` | |
| `SubmissionProofs` | `LocksAreReturned` | `SSpec => []SubmissionTypeOK` | `Submission_locks` |
| | `AnswersFit`, `WinnerIsFound` | `SSpec => []AnswerFits`, `SSpec => []ConflictResolved` | |
| | `RequestsAreSerial` | `SSpec => AsIfOneByOne`: it implements `Admission` | |
| | `LimitIsKept`, `ContentsAreUnique` | `SSpec => []ActiveWithinLimit`, `SSpec => []NoDuplicateActive` | |
| `SessionsProofs` | `RowsAreLockedOnce` | `Spec => []SessionsTypeOK` | `Sessions_rotation` |
| | `ChainsNeverBreak` | `Spec => []OneFresh` | |
| | `HonestClientsStay`, `ReuseIsLoss` | `Spec => []HonestStaysSignedIn`, `Spec => []ReuseMeansLoss` | |
| | `FamiliesStayDead`, `RevocationIsFinal` | `Spec => DeadStaysDead`, `Spec => RevokingEndsFamily` | |
| `DeliveryProofs` | `StreamsEndInTime` | `Spec => []DeliveryTypeOK` | `Delivery_transfers` |
| | `OneGeneration` | `Spec => []PartsAgree` | |
| | `NothingGained` | `Spec => []NeverOvercounted` | |
| | `SweepIsCareful` | `Spec => SweepSparesTransfers` | |
| `FetchProofs` | `SlotsOfTheProxy` | `FSpec => []FetchTypeOK` | `Fetch_network` |
| | `InspectedOnce`, `GroupsAreKilled` | `FSpec => []OneExecutor`, `FSpec => []NothingLeftAfterStop` | |
| `LegacyProofs` | `ServiceInShape` | `Spec => []LegacyTypeOK` | `LegacyService_queue` |
| | `LockMeansWorker`, `PauseWaits` | `Spec => []RunningIsHeld`, `Spec => []PausedIsStopped` | |
| | `PidfileIsRight`, `EndsAreFinal` | `Spec => []PidfileNamesService`, `Spec => FinalUnlessBlind` | |

**Assumptions.** They are those of the modules, of which TLC evaluates the instances: finite
sets of jobs, transfers, inspections and connections, because something in each is
counted; positive limits where the code's configuration has them; special values such as
`NoTransfer` outside the set they complete; job and transfer numbers that are numbers.
Workers, users, requests, tabs, devices and processes may be infinitely many.
The bounds of the models (`MaxStalls`, `MaxRetries`, `MaxTokens` and so on) are constants
like the others: the theorems hold for every value of them.

**The argument of `JobServiceProofs`.** `TypeOK` alone is not inductive: `Claimed` adds one to
`attempts`, and only `BudgetBounded` keeps the sum in range; that in turn rests
on `AttemptCounted`, as a pause gives one attempt back, and on the leased
statuses being those with a token (`LeaseHeld`), as recovery and settlement
decide by one and rely on the other. `StopStillWanted` ties what a worker remembers of
a heartbeat to the row it will find, provided its token is still there, and
`SettledLetsGo` says that a token disappears with the settlement. Their
conjunction `IInv` is inductive.

The conjuncts are regrouped for the proof (`Split`): what a single row satisfies
(`SoundRow`), what a single worker satisfies by itself (`SoundWorker`), and what
ties a worker to the row it works on (`Tie`). `SplitIInv` shows that the regrouping
says the same. An operation changes one row and at most one worker, so a lemma
per shape of change (`RowStep`, `MoveStep`, `AttemptStep`) discharges the rest of
the table once and for all, and each action leaves only a claim about one record.
The same lemmas carry the legality of the status change (`OneMove`), from which
the refinement and the strength of a cancel follow; the fence uses that the
outcome of each worker transaction is "lost" when the token differs.

**The argument of `JobLimitsProofs`.** The first two results are inductive by themselves,
given `IInv` and one fact about steps, the lemma `Activation`: a step makes no job active
that was not (`Settling`), or it lets one job in after looking at the
others (`Admits`). To see it, every action is shown to queue only what was active already
(`Requeues`): whatever a worker or the reconciler puts back into the queue was
leased before, and leased statuses are active ones. The limit then follows by counting, with the library's
theorems about cardinalities; the uniqueness by looking at the pair with the job that was let in.

`StallsPay` needs to know what a step may do to leases (`LeaseSteps`): it renews or ends some of those
that have a holder (`Calm`), it lets one run out under a living worker (`Stalled`), which is counted,
or it claims a job. The property is not inductive, as a heartbeat may revive a lease at any
time; so the invariant (`SlotsInv`) counts the leases that have run out and whose holder
lives (`Overdue`) with the live ones: there are at most `stalls` of the former and at most
`MaxGlobal + stalls` of both. A claim has seen less than `MaxGlobal` live leases, and what it
did not see is overdue and paid for; a heartbeat moves a lease from one set to the other.

**The argument of `ExecutorProofs`.** Every step is one of `JobService` or leaves the table
alone (`XStep`), which gives `ExecutorRefines`, and with it `IInv` and everything else above. For
the rest, each action is described once by what it does to the row, the files and the
program of one worker (`AttemptEffect`) or to a job beside the workers (`OutsideEffect`), and each
invariant is then shown for these descriptions. Whether a group belongs there is a matter of leases: of the workers with a group in the
work directory of a job one at most has its lease, and those whose lease is gone (`Astray`) are
at most as many as stalls, since only a lease that ran out under a living worker is taken from
one; the helpers without a leader are some of those that ever survived. The sum is `OneProcess`. Without stalls a
worker that asks for its lease still has it (`HeldUnlessStalled`). The file
of a completed job stays because a job that was not overlapped has one
attempt, which finds the file in its place when it commits and has only the work directory left to
clear afterwards (`Alone`), and the sweep takes the job only after its retention (`Kept`). For the leak: as long as there was no retry and no stall, what is marked purged is finished and has
neither files nor a charge, and an attempt that is about to mark it has removed
the files (`LeakInv`); everything else that is finished is on the sweep's list.

**The argument of `SubmissionProofs`.** The invariant says of each request that it asks for what it
started with (`WellAsked`), that what it checked under the lock still holds when it writes (`Checked`),
that it was answered with what it asked for (`WellAnswered`) and that the row an index
conflict was about is there (`WinnerThere`). `Checked` survives the steps of others because only the holder of
the user's row makes jobs active, while everybody else at most ends some, which
leaves more room than was counted. From it, every write is the step of `Admission` and
everything else a stutter. The limit and the uniqueness are proved of `Admission`, where a
request is one step, and carried over by the refinement.

**The argument of `SessionsProofs`.** No property is inductive alone; the invariant has
eight parts. `Typed` is the shape; `Exclusive` says that no row is locked by
two transactions; `Chained` that families are numbered as they began, that each has one
unused token, and that a token under rotation is it and still valid - which the row lock
guarantees; `Cornered` that a revoking update that no rotation overlapped has in its snapshot
all that lives of the family, while none is being rotated; `Bounded` that there is room for the
tokens that refreshes under way may insert, which matters only for the types.
The other three are about clients: one refresh at a time where Web Locks or the single
native tab see to it (`OneAtATime`); while no answer is lost, the jar holds an unused token or
its successor is on the way (`NoReplay`); and while nothing else happens that ends sessions,
the first family lives and everybody is answered (`Loyal`). `OneFresh` and `DeadStaysDead` come from
`Chained`, `RevokingEndsFamily` from `Cornered`, the rest from the last two.

**The argument of `DeliveryProofs`.** `PartsAgree` needs that a device which is being sent a
file holds pieces of no other (`Agreed`): If-Range is compared when the response begins, and the
descriptor does not change after it. `NeverOvercounted` needs the count of what is sent
and not yet counted (`Uncounted`): what the row says, or what some flush has read of it, plus that number,
never exceeds what was sent (`CountFits`). A flush that overwrites another loses counts and
gains none. `SweepSparesTransfers` needs that the sweep has been told of every open row
since its check (`Spared`).

**The argument of `FetchProofs`.** The three components meet in few places, so the
invariant is the conjunction of theirs and one more: an inspection that a slot executes was claimed
and is claimed by no other (`RowsInv`); a group that runs has not been killed, and one that is over
has left what its kind allows (`GroupsInv`); the holders of the semaphore are at most
its size (`ConnTyped`); and a connection belongs to a group that lives (`ClientsLive`), which
`HangUp` and the handing over to `orphan` keep true whenever a process ends.

**The argument of `LegacyProofs`.** Beside the properties themselves the invariant says what the
threads know (`Known`), what the row of the job in work says - running, unless a blind
cancel was there, and never paused before the downloader has ended (`Rows`) - and that without
overlapping commands one process at most starts or serves, has its pid in the file, and a stop has nobody
else to hit (`Alone`). `RunningIsHeld` is what lets a claim conclude that no row is running.

**Only model-checked.** `QueuedSettles`, `CancelServed`, `PauseServed`, `RefreshEnds`, `LimitLifts` and `TunnelsFollow` are
liveness under fairness, which the prover does not reach. `Dispatch` has no theorem of
its own: its properties are all of that kind.

The two properties of `Submission` with the names of `JobLimitsProofs`' are about rows as the
statements of a request see them; those of `JobLimitsProofs` are about the table, where a
submission is one step.

## 6. What is not modelled

* *Strings without state*: path safety and file names, the URL policy, command lines, the
  parsing of `yt-dlp` output, heads of proxied requests, serialisation.
* *Once or never at run time*: legacy import, migrations, configuration, deployment.
* *Rate limiter*: counting and setting the expiry is one step, in memory and in Redis,
  and a refusal changes nothing else. A fixed window lets twice the limit pass
  around its end, and nothing in the repository claims otherwise.
* *Screens and client transfers*: presentation, and calls of the platform.
* Of the *reconciler*, the deletion of expired tickets and tokens, which nothing
  accepts any more, and `remove_orphan_directories`.
* Of *sessions*, registration, passwords, CSRF and origins; of *delivery*, the
  redemption of tickets beyond the checks it shares; of the *legacy service*, output, HTML and
  the terminal screen. The scratch directory is private to an attempt.
* *Starvation among several waiting jobs*, in the server and in the legacy service: the
  code does not exclude it.

## 7. Plan

The models of the plan are written, and every safety property they are checked for is proved.
What is left:

1. `Dispatch`: that it takes only steps of `JobService`, so that the theorems about the table hold
   with a broker that loses and duplicates messages.
2. `Runner`, `EgressProxy` and `Inspections`: statements of their own, apart from `Fetch`.
3. Proofs that are longer than their ideas: lemmas shared between modules.

Liveness stays with TLC.
