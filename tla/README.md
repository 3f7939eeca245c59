# A formal model of Pikpak2DirectLink

Pikpak2DirectLink turns PikPak share and magnet links into direct links. Users
of its portal pay for them with bytes of traffic; administrators manage the
users' subscriptions and a pool of PikPak accounts. This directory holds TLA+
modules of the parts of the program in which money, jobs and restarts meet,
the TLC configurations that check them on small instances, and proofs that the
TLA+ proof system checks for every instance. Everything is translated from the
Go code under `src/internal/app`; `PROJECT.json` names, for every definition,
the lines it stands for.

    tlc -workers 2 -config QuotaLedgerOneJob.cfg QuotaLedger
    tlapm QuotaLedgerProofs.tla

## 1. The system

| component | state | operations | hard behaviour |
|---|---|---|---|
| quota ledger (`quota_reservations.go`, `users.go`, `admin_users.go`) | `user_subscriptions`, `user_quota_reservations` | reserve, settle, release, reconcile; create, update, terminate a subscription | workers and administrators change the same rows between each other's transactions; a kill between reserving and settling; commits that cannot be confirmed |
| resolve queue (`resolver.go`) | entries by priority, map of running jobs, limit, closed | enqueue, dispatch, pause, resume, position, setConcurrency, shutdown | one condition variable, jobs that come back while their worker leaves, shutdown against everything |
| job store (`jobs.go`) and job table (`job_store_sql.go`) | bounded cache, encrypted table | create, get, update, updateAtomic, scrub, interrupt | reads outside the lock that are cached afterwards, eviction, details that lapse |
| batches (`batch.go`) | parent and child jobs, live totals | create, child's continuation, fold and interruption at a start | continuations in any order, a kill between a child's end and its report |
| runs of jobs (`server.go`) | account attempts, held reservation | processJob, completeJob(Batch), finalizeCompletedJob, failJob | retries with other accounts, deferred release, uncertain commits |
| selection, expiry, history (`cdk_handlers.go`, `history.go`) | job status, records | select, expire, scrub, delete | two selections and the expiry of the same job |
| admission (`admission.go`) | none of its own | withCapacity, withSelection | count and create as one section, jobs that end outside it |
| vouchers and users (`cdk.go`, `users.go`) | `cdks`, `users`, sessions | create, edit, revoke, redeem; register, sign in | an edit or revocation is a change and a later read, with redemptions in between |
| temporary files (`proxy_cleanup.go`, `server.go`) | `proxy_temp_cleanups`, lists in the job | record, detach, reconcile, move the deadline, delete when due | creating, recording, deleting and removing are steps of their own, with kills and failures in between |
| account pool (`accounts.go`, `account_health.go`, `account_store.go`) | accounts, failures, monthly traffic | choose, mark, refresh, book traffic | checks that end after an account changed; traffic booked inside another transaction |
| proxy streaming (`server.go`, `proxy_limits.go`) | limits, failure cache | stream, multipart ranges, refresh of a link | ordered output of concurrent ranges, one retry, shared limits |
| sign-in limits, sessions, OAuth state (`auth*.go`, `oauth_state.go`) | windows, password and sessions, states | admit, fail, succeed; set up, sign in, change; create, consume | attempts in flight and eviction; four steps of a change against sign-ins; a start that sets the password and is cut short; doubled and mixed callbacks |
| library (`library_*.go`) | entries in a tree, links, running downloads | create, move, remove; discover, share one resolution, revoke | revocation during a resolution, moves of whole folders, a discovery that ends only by its deferred function |
| restore, migration, backups (`storage_*.go`, `backups.go`) | files, journal, `backup_runs` | stage, commit, recover; import, quarantine; run, prune | a crash between any two file operations |
| updater, settings, logs, PikPak client, web interface | small or none | | mostly I/O |

They interact as follows. A handler asks admission, creates the job in the
store and enqueues it. The dispatcher starts a worker for it, which tries
accounts of the pool, reserves quota, obtains the links, and completes the job
in one transaction with its charge, its traffic and its cleanup records; or it
parks the job for a selection, whose handler enqueues it again. A child of a
batch then reports to its parent. Any storage error that leaves the outcome
unknown asks for a restart: the queue is shut down, and the next start folds
batches, fails what was interrupted, and reconciles the reservations, in that
order.

## 2. The modules

| module | models | proofs |
|---|---|---|
| `QuotaLedger` | ledger, administrators, completion paths of the workers, kill, stop and start | `QuotaLedgerProofs` |
| `ResolveQueue` | queue, dispatcher, workers, selection handlers, shutdown | `ResolveQueueProofs` |
| `JobStore` | cache, table, calls that overlap, lapse, restart | `JobStoreProofs` |
| `BatchContract` | what a batch promises its owner | `BatchProofs` |
| `BatchJobs` | creation, runs, continuations, shutdown, fold, interruption; implements `BatchContract` | `BatchProofs` |
| `RestoreJournal` | offline restore, journal, commit marker, recovery, power loss | `StorageProofs` |
| `AccountPool` | pool and table of accounts, sign-ins, premium check, booking of traffic, kill and start | `StorageProofs` |
| `TempCleanup` | files at PikPak, the ledger of those to delete, attempts of a job, links and their renewals, cleaner, kill | `DownloadProofs` |
| `ProxyStream` | limits, ranges in order, renewals of a link, single stream, failure cache | `DownloadProofs` |
| `LibraryLinks` | discovery of a resource, links, downloads that share a resolution | `DownloadProofs` |
| `LibraryTree` | folders and resources, moves, removal | `DownloadProofs` |
| `Vouchers` | issue, edit, revocation, redemption | `PortalProofs` |
| `AuthLimiter` | windows of failures, attempts in flight, eviction | `PortalProofs` |
| `AdminSessions` | password, sessions, setup, change, restart, start with a fixed password | `PortalProofs` |
| `OAuthSignIn` | states, cookies, callbacks, users | `PortalProofs` |
| `MCCore` | `ResolveQueue` and `RestoreJournal` for TLC, one at a time | |
| `MCSafety` | the nine modules from `AccountPool` to `OAuthSignIn` for TLC, one at a time | |
| `MCLiveness` | `BatchJobs`, `TempCleanup` and `LibraryLinks` with fairness, one at a time | |
| `DataLemmas` | facts about numbers, sequences and finite sums that the proofs cite | itself |

### QuotaLedger

One portal user. `remaining`, `used`, `generation`, `allowProxy`, `expiresAt`,
`createdAt` and `life` are the columns of `user_subscriptions`. The revision
column is not a number here: every transaction increments it, so all a later
comparison can tell is whether the row changed since it was read. `adminView`
is the set of subscriptions whose current revision an administrator holds.
`reserved` and `rowGeneration` are `user_quota_reservations`; 0 bytes is no
row (the table forbids rows of 0 bytes). `status` and `charged` are columns of
`resolve_jobs`; queued, running and waiting for a selection are all `live`.
A `lapsed` job is one whose record expired while it had not ended.

The pool holds several connections, but every transaction takes SQLite's write
lock when it begins (`_txlock=immediate`, `db.go:103`), so transactions are
serialised and each is one action. A worker is at a point `pc` between two
transactions; `held` is the local `reservedBytes` of `completeJob`, `next` the
place its error leads to after the deferred release. `completeJobBatch` has
the same control over a sum of sizes. `StoreFails` is a transaction that
fails and rolls back; `FinalizeUncertain` one that may or may not have been
committed (`atomicCommitError.uncertain`). The order of the start
(`markNonterminalInterrupted`, then `reconcileQuotaReservations`) is `phase`,
and a kill is possible between the two.

`Allocations(j, b)` states what the loop of `reserveQuota` does without the
loop: no more than a subscription has, an earlier one exhausted before a later
one is touched, `b` in all.

### ResolveQueue

Every section under the queue's mutex is one action. A job has *turns* (its
first run and the run after a selection), because what the code keys by job id
are two goroutines for a moment. A worker is `working` until its function
returns or has parked the job, and `leaving` until it has given the slot back.
`arriving` are handlers between their update of the job and `enqueue`. The job
store is only a status here; a failure that cannot be stored leaves the job
`stranded`, to be failed by the next start. The time budget of an entry is one
reason for `Finish` to fail.

### JobStore

`durable` and `lapsed` are the table, `memory` and `order` the cache. A record
carries the set of updates that made it, all that tells two versions apart. A
call goes through the sections of `getWithError` (look into the cache, read
the table without the lock, forget or publish) and, if it is an update, the
section of `update` that copies, changes, stores and caches. `Works` stands
for updates of a job that has not ended, `Refreshes` for those of one that
has: new proxy links, late attempts and warnings. `acked`, `known` and
`knownLapsed` are history variables; no guard reads them.

### BatchContract and BatchJobs

`BatchContract` is the promise: while a batch is open it counts links that
completed; once it has a verdict this never changes, no link completes any
more, and it names every link that completed but the *doubtful* ones; and it
is "completed" only with a link to name. Those are the
exception the code makes itself: a completion whose commit could not be
confirmed, and a child whose details had expired before the start that folds
the batch.
`BatchJobs` is the code: parent, children, the totals `bs.mu` protects, the
continuation in its four steps, the queue's shutdown (which fails pending
children without their continuation), and the passes of the next start. The
mapping is `outcome <- status of the child`, `verdict <- the parent's status if
it ended`, `counted <- the children the parent lists`, `doubtful <- unconfirmed \union
lapsed`. `unconfirmed` outlives the process only as history: after a restart no
continuation of the batch runs that could read it.

### RestoreJournal

`place[f]` are the three names a target has: itself, `.restore-old-<id>` and
`.restore-new-<id>`; `journal` and `marker` the two files beside the database.
One process at a time holds the storage lock; `pc` is its place in
`recoverInterruptedStorageRestore`, `removeRestoreJournal`,
`executeStorageRestore` or `applyRestoreOperations`, and every file operation
and every sync is one action. `next` is where the recovery leads: the server,
the restore, or the end of a restore that failed. `agreed` is a history
variable: the contents the targets may have.

The file system is the external part. A kill of the process keeps all its
operations; a power loss takes each directory back to some state since it was
last synced (`behind`), each directory independently of the other, so
operations of one directory reach the disk in order and those of two in any.
The sync of a newly created file (`writeSyncedExclusiveFile`) makes its name
durable, as on the journalling file systems in use. A disk that has failed a
sync does not lose its power: without that restriction TLC finds that a marker
whose sync failed commits the journal in memory, the recovery removes what was
moved aside, and a power loss then takes the marker back (hazard at
`storage_restore.go:569`). Loops over the targets visit them in any order.

### AccountPool

`accounts` and `order` are the map and the list of `AccountPool`, `rows` the
table that every change rewrites (`Replace`) inside the lock. `calls` are the
additions and sign-ins that talk to PikPak outside the lock, those of
administrators and that of the health monitor; `asked` and `sameState` what
`RefreshPremiumInfo` remembers of each account between its question and its
answer. A completion goes through `Resolve` (choice of an account),
`BeginCompletion` (the clock is read), `BeginTraffic` (the lock is taken and
kept), `CompletionTx` and `Finish`. Traffic is a set of charges, so that
"booked twice" and "lost" can be told apart. `billed`, `deleted`, `inDoubt`
and `disputed` are history variables. `disputed` marks the two cases in which
the code gives up exactness, both named at `TrafficIsBooked`: a commit nobody
could confirm, and a completion that read the clock before the end of a month
and booked after another had begun the new one.

### TempCleanup

A job creates files at PikPak (`CreateFolder`, `RestoreShare`), records them in
the job and in `proxy_temp_cleanups` in one transaction (`RecordTemp`), and
then deletes, detaches or hands them over (`Cleanup`, `Reconcile`, `Detach`,
`Finalize`). `files` is what is at PikPak and `tracked` what was ever recorded.
Deadlines are not numbers: a row knows which event set its deadline, and
`DeadlinePasses` may happen at any moment, except that the deadline a
completion sets passes only after the links have expired, which is how
`proxyDeferredCleanupAfter` computes it. `links` are the
links a job was completed with, valid until the expiry they had then (three
hours, where that is unknown or earlier). `renewed` are the jobs to which
`refreshProxyDirectLink` has given a new link since: it writes the job and
leaves the row alone, so a renewal moves no deadline. What the cleaner
respects is therefore the first expiry, which is what `FilesOutliveFirstLinks`
says; that it does not respect the later one is finding 5. `dueRows` is in the
order the deadlines passed in, which is the order `due` reads them in. The cleaner reads
at most `BatchLimit` rows and handles each in two steps, deletion and removal.
`late` marks jobs that were still under way when the deadline of their own
attempt passed, three hours and more after it: their files may be deleted
under them. A file that an attempt cannot record is deleted best-effort and may
stay behind; it was never in the ledger, and `NothingForgotten` is about
files that were. A commit that is reported as failed and was not is modelled
for the completion only.

### ProxyStream

One action per step of `handleProxy`: failure cache, place in the limiter,
link, then ranges or a single stream. `parts` has the locals of
`serveProxyMultipart`; every worker's fetch ends on its own (`FetchEnds`) and
its result is received in the order of the channel. `sent` is what the
response writer was given. The counters of the limiter are the numbers of
downloads that hold a place, each returned by a `defer`.

### LibraryTree and LibraryLinks

`LibraryTree` is `library_entries` as a tree: the walk up and the height below
an entry are those of `validateLibraryParent`. `LibraryLinks` is one entry
with one file: its discovery with the deferred function that stores the
outcome, the link's token and mode, and downloads that join a running
resolution (`libraryDownloadJob`), wait, look the link up again and answer.
`proven` is a history variable: downloads whose link was in force at some
moment since the resolution ended.

### Vouchers, AuthLimiter, AdminSessions, OAuthSignIn

`Vouchers` has one action per transaction; the answer of an edit or revocation
comes from a read after it. In `AuthLimiter` a moment is its age in sweep
intervals, kept up to the longest window, so that time passes without a bound;
`counted` is what ought to be counted, computed without the limiter's map. The
limiter stands before the sign-in of the administrator, the sign-in of a user
and the registration by mail; a change of the administrator's password
verifies the current one without it, behind a session.

`AdminSessions` numbers passwords in the order they were set; `rec` is the copy
in memory and `row` the table, which an unconfirmed statement parts. A start
with a new `ACCESS_PASSWORD` is two commits, `PinPassword` and `EndPinning`,
and the process may end between them, or refuse to start after an error of the
first although it was executed; `server` says where it is. `acknowledged` and
`pinned` are history variables: the newest password that a change has been
answered for, and that a start has stored. A session is `missed` if the call
that opens it was under way when a change removed the sessions, if the error of
that removal was dropped, or if a start was cut short before its removal.
`OnlyMissedOutliveChange` says that these are all; the promise without them
fails (finding 4 and the note after the findings). `OldPasswordsStayDead` is
about all sessions: once the last holder of an old password is gone, none comes
back.

`OAuthSignIn` numbers flows; a browser's cookie holds the nonce of its last.
The identities and the registration switch are there as control, because the
callback branches on them; nothing of the repository promises more of them
than a single statement keeps, and no property is about them.

### MCCore, MCSafety and MCLiveness

The modules an MC module puts side by side share no variable and none of the
properties speaks of two of them. So `chosen` is drawn at the beginning, only
the chosen component moves, and the state space is the sum, not the product.
What the parts exchange in the program is inside each: `TempCleanup` has its
own pool of accounts that an administrator empties, `AccountPool` its own
completions.

## 3. The runs

| run | instance | distinct states | shows |
|---|---|---|---|
| `ledger_one_job` | 1 proxy job, 2 subscriptions, sizes 0 and 2, 2 attempts, 1 reset, 1 fault, 1 kill, `FairSpec` | 0.3 M | `LedgerSound`, `StartNeverBlocked`, `TerminalIsFinal`, `JobsEnd`, `ReservationsResolved` |
| `ledger_two_jobs` | a proxy and a direct job, 1 subscription, sizes 1 and 2, 2 attempts, 1 reset, 1 fault, 1 kill | 1.1 M | `QuotaConserved`, `ChargedExactlyOnce`, `RevisionNamesTheView` |
| `core_safety` | the queue with 3 jobs, limits 1 and 2, changed live; the restore of 3 files in 2 directories, 2 restores, 1 fault, 1 kill, 1 power loss, with fairness | 1.5 M | `OnePlacePerJob`, `ShutdownLeavesNothing`, `PositionNeverRises`; `AllOrNothing`, `NothingLeftBehind`, `JournalIsResolved` |
| `queue_serial` | 3 jobs, limit 1, `FairSpec` | 75 k | `WorkersWithinLimit`, `ActiveJobsEnd`, `ShutdownReturns` |
| `queue_overlap` | 3 jobs, limit 2 | | violation of `WorkersWithinLimit`, finding 1 |
| `store` | 2 jobs, 2 workers, 1 refresh, 1 reader, cache of 1 | 4.0 M | `AdmissionSeesEveryActiveJob`, `WorkIsKept`, `AnswersAreCurrent` |
| `store_refresh` | 1 job, 2 refreshes | | violation of `UpdatesAreKept`, finding 2 |
| `batch_uncertain` | 2 links, one unconfirmed commit | | violation of `VerdictCountsEveryLink`, finding 3 |
| `parts_safety` | the nine parts, one at a time (bounds below) | 2.9 M | the fifteen safety properties in the next table |
| `parts_liveness` | a batch of 3 links with every kind of failure once, `TempCleanup` and `LibraryLinks`, one at a time, with fairness | 0.1 M | `NoBatchIsOrphaned`, refinement of `BatchContract`, `BatchesEnd`; `RecordedIsDeleted`, `DiscoveryEnds` |
| `change_race` | 2 requests, 2 passwords | | violation of `OthersLoggedOut`, finding 4 |
| `links_renewed` | 1 job, 1 account, no mishap | | violation of `RenewedLinksHaveFiles`, finding 5 |

What the two runs of the parts show:

| property | module | says |
|---|---|---|
| `PoolIsDurable` | `AccountPool` | map, order and table agree whenever the lock is free, whatever failed |
| `TrafficIsBooked` | `AccountPool` | an account has used exactly what committed completions booked on it this month |
| `DeletedStaysDeleted` | `AccountPool` | no call that was under way brings a deleted account back |
| `PremiumIsCurrent` | `AccountPool` | no old answer of PikPak overwrites what a sign-in found |
| `NothingForgotten` | `TempCleanup` | a recorded file that is still at PikPak is in the ledger |
| `FilesOutliveFirstLinks` | `TempCleanup` | files are there until the expiry that their links had at completion (not longer, if a link is renewed: finding 5) |
| `RecordedIsDeleted` | `TempCleanup` | what is recorded is deleted in the end |
| `ClientGetsTheFile` | `ProxyStream` | one response, its chunks in order, none missing or twice |
| `AnswerIsAuthorized` | `LibraryLinks` | no address is answered for a link revoked before the resolution ended |
| `ReadyIsKept` | `LibraryLinks` | a late failure does not take the files of a resource back |
| `DiscoveryEnds` | `LibraryLinks` | no resource stays in inspection |
| `CatalogIsATree` | `LibraryTree` | moves make neither cycles nor chains that are too deep |
| `GrantsMatchVouchers` | `Vouchers` | one redemption per voucher, on the terms it shows, none after a revocation |
| `GuessesAreBounded` | `AuthLimiter` | failures and attempts in flight together stay within the limit |
| `OnlyMissedOutliveChange` | `AdminSessions` | a session older than an acknowledged change, or than a password a start has set, comes from a call under way at the removal, a removal whose error was dropped, or a start that was cut short (finding 4 and the note after it), and from nothing else |
| `OldPasswordsStayDead` | `AdminSessions` | once such a password is in no session and no call, it never gets into one again, whatever fails or restarts |
| `FlowEndsOnce` | `OAuthSignIn` | a sign-in is finished once, by the browser that began it |

A type invariant is stated in every module (`TypeOK`, `PoolTypeOK`, ...). That
of the ledger, the queue, the batches, the pool and the vouchers is a theorem
of its own; what the proofs need of the others is part of the inductive
invariants of section 4. That nothing is counted which did not complete, and
that a verdict is final, is `BatchContract`, which the batch is checked and
proved to implement.

### Bounds

* Two subscriptions of one byte and a size of two make every allocation a
  split one, and size 0 is an unknown size; two jobs with sizes 1 and 2 on one
  subscription make one take what another released, with estimates that are
  exact, too low and too high.
  `MaxAttempts` 2 is a retry; the second attempt is already the last. `MaxBytes`
  only bounds what a release may credit and is above every sum an instance can
  hold. `Horizon` 1 lets a subscription expire while it is reserved.
  `MaxGeneration` 1 is one reset under a reservation. One fault and one kill
  at every point of every interleaving: the kill also covers a release that
  never happens after a failed completion.
* Three jobs and two slots are the least in which a job waits behind two
  running ones and a resumed job overtakes; two turns per job are its first
  run and a resumption. `ActiveJobsEnd` is about finitely many jobs and turns:
  no wakeup is lost and no slot is kept. The queue is strictly by priority and
  does not age its entries (`resolver.go:125-131`), so it promises nothing to a
  user's job behind a stream of administrators' or resumed jobs that never
  ends, and neither does the property.
* A cache of one job with two jobs evicts on every put; `Refreshes` has one
  member in `store`, because with two the run shows finding 2.
* Three links: two continuations that race and one child that is still running.
* The restore in `core_safety`: two files beside the database and one
  elsewhere, two with a copy and one that is removed, every combination of
  existing files; the second restore meets what the first one left. A kill and
  a power loss make an interrupted recovery of an interrupted restore.
* `parts_safety`. Pool: two ids and one user name make every addition one of an
  account that is there or was; two completions overlap, in two months, with
  one sign-in, one fault and one kill. Limiter: three attempts against limits
  of two and three, and room for three of four windows, so that eviction,
  rollback of half an admission and the sweep happen. Sessions: three
  passwords and three requests, one of them between any two steps of the
  others; any of the passwords may be set by a start, which may be cut short.
  OAuth: two flows and room for one state. Vouchers: two editors and two users.
  Tree: four entries, depth three: a move of two levels under a
  third. Links: two downloads, two tokens, two resolutions. Proxy: four chunks,
  a window of three and two workers, so that the window, the workers and the
  end of the file each limit once; two downloads and buffers for one. Files: one
  job, for a magnet link or for a share that is chosen from, two accounts,
  batches of one row, and any two mishaps of a failing transaction, an
  unconfirmed completion, a deleted account and a kill.
* `parts_liveness`: the batch of three links above with one storage fault, one
  unconfirmed commit, one lapsed child and one kill; the same files for a
  magnet link only, and one download.
* Deadlock is not checked: the bounds let every model come to an end, and the
  programs end when they are stopped.

### Fairness

Only steps the program takes by itself are weakly fair: a worker's next
transaction (PikPak calls, polling and entries have time limits in the code,
and the cleanup loop expires selections after thirty minutes), the dispatcher,
`shutdown`, the handler between its update and `enqueue`, a requested restart,
and the next start, which the service manager brings about (the README of the
repository installs the service with automatic restart). For the restore these
are the next operation of the process that holds the storage, and that start. Submitting,
selecting, administrating, faults and kills are never fair.

In `parts_liveness` the clock passes every deadline and expiry, the cleaner,
a loop of the process, reads what is due and ends what it began, and PikPak
deletes the files of a row if it is asked for them again and again (strong
fairness of `DeletesRow`): without the last nothing could be promised. The
handler that starts a discovery runs on, the queue ends its job
(`ActiveJobsEnd`), and the deferred function runs. Jobs, whose ends are the
subject of other runs, are not scheduled there at all: what is recorded is
deleted even if its job never moves again.

### Findings

1. `queue_overlap`: `running` is keyed by the job's id (`resolver.go:168`,
   `176`). A job that is parked, selected and dispatched again before its
   first worker has left shares that worker's slot; the first `delete` frees
   it although the second still runs, and one goroutine too many is started.
   With a limit of one this cannot happen (`queue_serial`).
2. `store_refresh`: `getWithError` caches what it read without the lock
   (`jobs.go:325-346`), so an update of a job that ended may start from a
   version older than one already acknowledged and overwrite it. The outcome a
   worker stored is never lost this way (`WorkIsKept`).
3. `batch_uncertain`: a child whose completion was committed but not confirmed
   is counted as failed, and no start corrects a parent that has ended.
4. `change_race`: the comment of `handleChangePassword` says that a change
   "logs out every other session" (`server.go:775`). A sign-in that verified
   the old password before the change and inserts its session after the change
   has deleted all rows (`server.go:814`) stays signed in, as does the session
   of a change that another one has overtaken.
5. `links_renewed`: a link that is renewed for a download through the server
   has a new expiry, but the deadline of its files remains the one computed
   from the expiry at completion (`server.go:1444`, `proxy_cleanup.go:410`):
   the cleaner deletes the files of a link that is valid again, which the
   repository's `README.md:293` says it does only after the window in which the
   link is valid has ended.

A note without a run of its own: `NewServer` stores a new `ACCESS_PASSWORD` and
then removes the sessions, in two commits (`server.go:244`, `247`). If the
process ends between them, or the first reports an error although it was
executed, the next start finds its password stored and removes nothing, so the
clients that the comment at `auth.go:73` says "are forced to log in again" stay
signed in. In the model these are the sessions that `PinPassword` and
`StopServer` mark `missed`.

## 4. The proofs

Every safety property that a passing run checks, invariants and action
properties, is also a theorem, for every value of the constants that satisfies
the assumption of its module: any number of jobs, links, files, accounts,
clients, faults and kills. So is the refinement of `BatchContract`. Each
theorem follows one pattern: an inductive invariant, a lemma that the initial
states satisfy it, one lemma per action (or per group of actions that disturb
the same conjuncts), and a last step of temporal logic. An action property is
proved from the invariant of the state before the step.

| theorem | module | proves | by |
|---|---|---|---|
| `TypeCorrect` | `QuotaLedgerProofs` | `TypeOK` | itself |
| `LedgerSoundness` | | `LedgerSound` | itself, with `TypeOK` |
| `StartIsNeverBlocked`, `EndsAreFinal` | | `StartNeverBlocked`, `TerminalIsFinal` | `StageInv` |
| `EachJobIsChargedOnce` | | `ChargedExactlyOnce` | `StageInv`, `HeldInv` |
| `RevisionIsTheView` | | `RevisionNamesTheView` | `ViewInv` |
| `BytesAreConserved` | | `QuotaConserved` | `HeldInv` and the sums of `DataLemmas` |
| `QueueTypeCorrect`, `QueueOnePlacePerJob` | `ResolveQueueProofs` | types, `OnePlacePerJob` | `TurnsLeft`, `PlacesInv` |
| `QueueShutdown` | | `ShutdownLeavesNothing` | `ShutdownInv` |
| `QueueSerial` | | `WorkersWithinLimit`, when only one slot is asked for | `SerialInv` |
| `QueuePositionNeverRises` | | `PositionNeverRises` | `OrderInv` |
| `StoreShowsActiveJobs`, `StoreKeepsWork`, `StoreAnswersAreCurrent` | `JobStoreProofs` | `AdmissionSeesEveryActiveJob`, `WorkIsKept`, `AnswersAreCurrent` | `StoreInv` |
| `BatchTypeCorrect`, `NoneOrphaned` | `BatchProofs` | types, `NoBatchIsOrphaned` | `BatchInv` |
| `BatchKeepsContract` | | `ImplementsContract` | `BatchInv` |
| `ExactVerdict`, `BatchVerdictIsExact` | | `VerdictIsExact` of the contract, and of the code | the contract's own invariant, and the refinement |
| `PoolTypeCorrect`, `PoolDurable`, `DeletionStays`, `PremiumCurrent`, `TrafficBooked` | `StorageProofs` | the properties of `AccountPool` | `PoolInv` |
| `RestoreIsAllOrNothing`, `RestoreLeavesNothing` | | `AllOrNothing`, `NothingLeftBehind` | `RestoreInv` |
| `LedgerForgetsNothing` | `DownloadProofs` | `NothingForgotten` | `ForgetInv` |
| `FilesOutliveFirstExpiry` | | `FilesOutliveFirstLinks` | `OutliveInv` |
| `AnswersAreAuthorized`, `ReadyListIsKept` | | `AnswerIsAuthorized`, `ReadyIsKept` | `ServiceInv` |
| `ClientsGetTheFile` | | `ClientGetsTheFile` | `StreamInv` |
| `CatalogStaysATree` | | `CatalogIsATree` | `TreeInv` |
| `VouchersTypeCorrect`, `VouchersGrantOnce` | `PortalProofs` | types, `GrantsMatchVouchers` | `VouchersInv` |
| `OnlyMissedOutlive`, `OldPasswordsDie` | | `OnlyMissedOutliveChange`, `OldPasswordsStayDead` | `SessionsInv` |
| `OAuthFlowEndsOnce` | | `FlowEndsOnce` | `OAuthInv` |
| `GuessesBounded` | | `GuessesAreBounded` | `LimiterInv` |

### The arguments

* **Ledger.** `TypeOK` is inductive: a debit comes from `Allocations`, which
  take no more than there is, and a credit is never negative. `LedgerSound` is
  inductive relative to it: a row becomes valid only in `TakeBytes`, on an open
  subscription with the permission and of its current generation, generations
  never decrease, and the steps that close a subscription or take its
  permission away invalidate its rows in the same transaction.
  `StartNeverBlocked` is not inductive. `StageInv` says where a worker and its
  record may be together, and that a job which is new or completed holds no
  rows; then a row left at a start belongs to a job that has ended. `HeldInv`
  says that until a run unwinds, its job has reserved the size its worker
  remembers, so a completion finds all it charges and the backstop of
  `chargeIfEnoughTx` is never needed. `ViewInv` says that an administrator
  looks at subscriptions that exist; the rest of `RevisionNamesTheView` is a
  step: every transaction that changes what is shown raises the revision. For
  the bytes, there is one lemma per transaction about two sums, and
  `MovesConserve` for the step they share: what leaves the reservations of a
  job on a subscription is given back to it, or consumed.
* **Queue.** `PlacesInv` says for each job, by its status, which of its places
  it is in (handler, entries, list of the shutdown, one worker), and when each
  of those is empty; `OnePlacePerJob` only counts them. `TurnsLeft` bounds the
  resumptions, `ShutdownInv` orders the steps of `shutdown` against the workers
  and handlers it waits for, and `OrderInv` says that the entries are sorted by
  priority, so that an insertion is behind all it must not overtake.
* **Job store.** `StoreInv` has a part for the cache (a job that has not ended
  in the table is in memory as such, and one whose details lapsed is not), one
  for what has been acknowledged (it is in the table and in every copy in
  memory), one for what each call under way has read and may still publish
  (never a job that has not ended, never less than what was acknowledged), and
  one for what each reader has been promised.
* **Batches.** `BatchInv` relates the parent's live totals and record, the
  reports under way, and the children; under the refinement mapping every
  action is a step of the contract or a stutter. The contract's invariant is
  inductive as it stands: no link completes once the batch has a verdict, and a
  link that failed stays failed. `BatchVerdictIsExact` joins the two.
* **Pool.** `PoolInv` extends `PoolIsDurable` to the states in which a
  completion holds the lock: memory is then what its transaction will leave.
  `BookedInv` says the same of the traffic of the month.
* **Restore.** The heart of `RestoreInv` is a quantifier: there are contents
  `w`, the old ones or the new ones of every file, such that whatever a crash
  may leave of each directory, alone or together with the other, the recovery
  gets to `w`. Without a journal everything is in place in all those states,
  and while a crash may leave another journal or marker than there is now,
  everything is settled already. `RestoreInv` was checked on the instance of
  the restore in `core_safety` and on two files with two faults, two kills and
  two losses of power.
* **Files, links, downloads, library.** `ForgetInv` and `OutliveInv` follow a
  file from its creation over lists, rows and the cleaner; a renewal disturbs
  neither, because it changes no row. `ServiceInv` ties a
  request to its token and to the resolution it waits for. `StreamInv` says,
  for each place a download may be in, what has been sent and where the other
  chunks are. For `CatalogStaysATree` the ancestors' walk is a recursive
  function: its equation, its length and its height are proved from the least
  row at which they could fail.
* **Sign-in and vouchers.** `VouchersInv` says what an edit under way has read,
  `SessionsInv` orders the passwords in memory, in the table, in sessions and
  with requests under way (a session or a call of an older one than the last
  acknowledged or pinned is `missed`, or will be when the removal under way has
  happened, and what is in the table and in memory is never older), `OAuthInv`
  says whose flow a cookie and a callback are of, and `LimiterInv` bounds, for
  each window, the failures and the attempts in flight together.

`DataLemmas` holds what these need of data and no module of the standard
library states without an operator as a parameter: least and greatest members
of sets of numbers, sequences with a member added, removed or filtered, and
sums over finite sets. A sum is the fold of the community modules; that it
exists, does not depend on the order, is the sum of its parts and is additive
is proved from the fold's definition by taking the smallest set at which it
would fail.

### What is assumed

The named assumptions of the modules, which TLC evaluates in the runs:
`QuotaAssumption` (finitely many jobs, natural numbers, at least one attempt;
the number of subscriptions is open), `QueueAssumption`, `StoreAssumption`,
`BatchAssumption` (finitely many links), `RestoreAssumption`, `PoolAssumption`,
`CleanupAssumption`, `ProxyAssumption`, `LinksAssumption`, `TreeAssumption`,
`VouchersAssumption`, `LimiterAssumption`, `SessionsAssumption`,
`OAuthAssumption`. `QueueSerial` has one hypothesis more, that nobody asks for
more than one slot: the default of `RESOLVE_CONCURRENCY`, and without it the
property is false (finding 1).

What the model assumes the proofs assume: a transaction is one step, a file
operation is one step, and what was synced survives a loss of power. A loss of
power after a sync that failed is not modelled.

### What is only model-checked

Liveness (`JobsEnd`, `ReservationsResolved`, `ActiveJobsEnd`,
`ShutdownReturns`, `BatchesEnd`, `JournalIsResolved`, `RecordedIsDeleted`,
`DiscoveryEnds`): it needs `ENABLED` and fairness, which the prover does not
treat. The five violations are counterexamples and have no theorem. In
`JobStore` the form of the cache's order (`SelectSeq` of itself) is not proved
and not needed.

## 5. Abstractions, and what is not modelled

* One user in `QuotaLedger`. Reservations of different users touch different
  rows; every query of the ledger has `user_id` in its condition.
* What happens at PikPak is a choice of outcomes: a link of some size, an
  error, a selection, a panic; files that are deleted or not; a range that
  arrives or not.
* Names, messages, parsing, encryption, HTTP, listings and logs are left out.
* Arithmetic is unbounded: the sums of bytes are `int64` and an administrator
  cannot set more than 2^63-1 in one subscription; overflow of the sum over
  subscriptions is not modelled.
* Statuses, messages and parse errors of an account are one change without
  content; the choice of an account looks at its traffic only.
* Exceptions a property makes are named where it is stated, with the code that
  makes them: `disputed`, `inDoubt` (pool), `late` and links that were renewed
  (files), `missed` (sessions), `unrecorded` (library), `doubtful` (batches).

Not modelled:

* Admission beyond the global limit: the limits per user and on selections that
  wait are counts inside one section; a module is planned.
* Migration, schema and backups: they share the file system of
  `RestoreJournal`, and are planned after it.
* Locks on storage, secrets, settings, logs, configuration: single calls
  without steps of their own to interleave.
* The updater, the PikPak client and the web interface: input and output.
* An inspection for the library, which deletes its files and completes without
  links; `deferJobTempCleanup`, which nothing calls.
* Records and sessions of portal users: single statements by key.

## 6. Plan

Written: the ledger, the queue, the store and the batches, because a mistake
there costs users bytes or jobs; the restore; then the parts around them, in
the order of what they can lose: vouchers, files, accounts, links, downloads,
sign-in. Next, in this order:

1. `Admission`, with the bound on batch parents that have not ended, and its
   theorem.
2. Migration and backups over the file system of `RestoreJournal`.
3. `Billing`, an abstract account per user (deposits, holds, charges), which
   `QuotaLedger` implements: `BytesAreConserved` and `EachJobIsChargedOnce` are
   most of that proof.
4. Lemmas that bound, without the constants, what the runs bound for TLC: the
   number of workers with several slots, and the size of the cache.
