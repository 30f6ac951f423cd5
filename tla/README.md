# Verification of icloud-api

TLA+ specifications of the parts of icloud-api in which steps of several actors
meet: the persistent queue that deletes Hide My Email aliases and the quota that
guards Apple's deletion limit; the synchronisation of the upstream mailbox, the
scheduler that runs it and everything that invalidates it; the Hide My Email
service with automatic creation; the archive's files; credentials and sessions;
and the start of the process. TLC checks them on small instances; TLAPS
proves the safety properties, and that the deletion queue and the scheduler's
locks implement their abstract specifications, for every instance.

`PROJECT.json` lists the components, runs, mutants, the lines every definition
models, the hazards and the theorems. Definitions keep the names of the Go
functions they stand for. A definition `Op_Flaw` is a plausible bug of `Op`:
replacing `Op` by it must break the property it is listed with.

## The system

One Go process (`src/cmd/icloud-api`) over PostgreSQL, with these parts:

| Part | State | Operations | Interacts with |
| --- | --- | --- | --- |
| Deletion queue: `store/alias_deletion_queue.go`, `httpserver/admin_alias_delete_jobs.go` | jobs with items, shared works, subscriptions, audit log; in memory the active workers, blocked subjects, rotation flag | enqueue, list heads, claim, save, cancel, recover, prune, dispatch, stop | administrators, executor, rotation |
| Deletion executor: `hmesync/alias_delete_*.go` | directory read in the attempt, its lease, Apple session | read, deactivate, delete, reconcile, delete locally | Apple, quota, queue |
| Deletion quota: `store/alias_deletion_quota.go` | reservation rows and a cooldown per Apple principal | reserve, mark sent, commit, release, defer | executor |
| Mailbox sync: `syncer/manager.go`, `mail/archive_fetcher_v2.go`, `store/imap_sync.go`, `store/archive.go` | IMAP cursor, archive, latest snapshot and public mailbox UIDs of every alias | load, fetch, publish, record a failure | upstream IMAP, configuration |
| One-time read and seen worker: `httpserver/legacy_mail.go`, `store/seen.go`, `syncer/seen_worker.go`, `mail/seen.go` | consumed messages, seen tasks | read binding, consume, list, mark, delete tasks | sync, configuration |
| Configuration: `store/account.go`, `store/alias.go` | accounts with a version, aliases | reset, disable, change source, enable, disable, delete | all of the above |
| Sync scheduler: `syncer/manager.go`, `cmd/icloud-api/main.go` | account locks, global IMAP slots, retry queue, manual jobs, progress | rounds, retries, manual sync, shutdown | sync, seen worker, requests |
| Automatic creation: `autocreate/`, `store/alias_creation_schedule.go` | one plan per account, time of the last attempt | enable, poll, claim, correct, record, cool down | HME service |
| Credentials, administrators, sessions: `store/credentials.go`, `store/pending_alias.go`, `store/admin.go` | credential bundles, queued keys, password versions, sessions | rotate one or all, complete, acknowledge, log in, change password | queue, requests, public IMAPS |
| HME service, Apple client: `hmesync/service.go`, `store/auto_alias.go`, `store/alias_import.go`, `apple/` | Apple web session, login challenge, alias rows, pending candidates | log in, synchronise, register, forward, create, confirm, recover, delete | Apple, configuration, sync |
| Public IMAPS: `publicimap/` | the binding of a connection | log in, check the binding, select, fetch | credentials, archive |
| Archive files: `store/archive.go` | content files, quarantine directories | stage, publish, limit, reconcile | sync, configuration |
| Startup: `secure/secure.go`, `store/master_key.go`, `store/migrate.go`, `store/legacy_sqlite.go` | key file, key fingerprint, schema version, former SQLite file | publish the key, migrate, import, validate, bind | every stored secret |
| Parsing, logging, shell, web client | - | - | - |

What makes it hard: a work is shared by jobs that come and go while a worker
acts on Apple; Apple's answers get lost and its effects come late; the process
dies between any two steps; configuration changes under a sync, a read or a
mark that began before; an EXPUNGE renumbers the mailbox between two commands;
four kinds of goroutines want the same account locks and few IMAP slots while
the process is being stopped; files and rows are changed one after the other;
two processes start on one database.
What must hold of each part is listed with the modules below.

## Modules

### DeletionOrders, AliasDeletionQueue, AliasDeletionQueueProofs

Every SQL transaction is one step: all of them first lock the sequence row.
`work` and `job` are the tables (a job holds its items with their subscription
and their number of audit records), `worker` the goroutine of each Apple
subject, `proc`, `blocked`, `rotating`, `admitted` the in-memory runtime, `pv`
the password versions, `remote`, `wire`, `local` Apple's directory, the deletes
Apple may apply later and the local rows, `unread` the works that sent a delete
nobody has answered or looked up. The transactions are functions of the two
tables (`Publish`, `CancelJobs`, `CancelUnwanted`, `Prune`, `SaveTx`), so that
an action composes exactly the calls the code composes; in particular every
handler that prunes in the code prunes in the model.

Abstractions: `due` stands for `NextRunAt`; a claim re-validates the head list,
so the list itself is left out; the storage errors of `beforeRequest` before its
check are those of the step before; the save and the worker's leaving of the
runtime are one step; a removed administrator is a
changed password version; a legacy job has password version 0. A commit in
flight at a crash lands before the recovery or never, because the recovery
waits for the same row lock. Not modelled: listing and clearing jobs, the
account-changed errors, the wording of results.

Properties: `TablesAgree` (no item is left open by its work, no idle work is
left that nobody wants, a finished item is audited once, an address has one
active work), `WorkerActsAlone` (a worker acts only on the work it has claimed,
and never during a rotation), `Fifo`, `ConfirmedByApple`, `UnknownIsReconciled`
(after an unknown result the directory is read before the work is closed as
cancelled and before the next mutation of the address; the work may be reported
as failed while its outcome is unknown), `FinalIsFinal`, `EveryJobEnds`, and
`CancelsOnlyItself`, which fails.

A mutation takes three steps: `BeforeRequest` commits the transaction that asks
whether the work is still wanted; `Deactivate` or `Delete` sends the request, or
`Unsent` gives it up; the answer comes back in `DeactivateReturns` or
`DeleteReturns`. Between the first two a cancellation or a change of password
may commit, and the request is then sent all the same: the code asks once per
request, and the check does not lock the jobs until the request has left.

`DeletionOrders` is the abstract specification: what the queue promises whoever
orders deletions, without works, workers, claims, prunes or restarts. A job
orders addresses once; every single change of the directory was cleared, for
itself alone, at a moment when an order for it was open and its job not revoked
(`Clear`), and is then made or given up (`Mutate`, `Lapse`); all open orders of
an address get one answer, and "succeeded" only when the address is gone at
Apple and here; an order is withdrawn only when some job that names its address
is revoked, and never while a change of the address is cleared: who has revoked
a job is not told "cancelled" while a request for it may still leave. Two clauses
are as strong as the code allows. A revocation that commits after the check does
not stop that one request. And finding 1 is an order withdrawn because of another
job's revocation. `ImplementsOrders` is the refinement: an order is an item,
`revoked` the jobs with `cancel`, `cleared` the addresses of the workers between
their check and their request, and Apple's directory and the local rows are
themselves. The code sweeps unwanted works in nearly every transaction, so
nearly every abstract step may also revoke and withdraw.

### AliasDeletionQuota, AliasDeletionQuotaProofs

The rows and the cooldown of each principal, and the lease of each attempt from
its reservation to its accounting. The caller of a transaction may see an error
although it was committed. A throttle takes two steps: an attempt computes its
end from Apple's answer (`Throttle`) and stores it later (`DeferQuota`), while
others do the same, reserve, or die with an answer that they have not stored.
`ThrottleHonoured`: no slot is granted before the end of a stored throttle, in
whatever order longer and shorter ones were stored. Apple applies a delete that
was sent at any time up to `Lag` after the call returned, or never. A lease
names its row, as reservation IDs are random. `QuotaAssumption` holds for the
code's values: limit 200, Apple's window 60 minutes, the store's window 60
minutes and 5 seconds, lifetime 2 hours; that Apple applies nothing more than
`Lag` = 5 seconds after the call returned is the assumption the code's slack
makes.

### MailboxSync, MailboxSyncProofs

One account with its aliases. `StartSync`, `Fetch`, `ApplyMailboxSync` and
`FailSync` are `syncAccountLocked`; `Stale` is the set of reasons for which a
result is dropped; `NewLinks` assigns the public mailbox UIDs; `Kept` and
`NewLatest` are `persistLegacyLatestMessagesTx`. The reads that make up
`StartSync` are one step because the version is read first, and any change after
it makes the publication a no-op. `account.version` stands for `updated_at`,
which the store makes strictly increase, and for the times taken from it. A
message is its UID, its recipients and whether it was read. A fetch sees a
stable mailbox, which is what ArchiveDiscovery establishes: its `BatchExact` and
`WindowExact` are what `Discovered` and `RecentCursor`
assume. `given` records the messages for which `recentMail` won the claim; an
HTTP answer lost afterwards is lost to the client.

The account lock is the constant `Exclusive`. With FALSE configuration changes
do not wait for a sync: the handlers then rely on the store's version check
alone (`withAccountLock` runs without a lock when no manager is attached), and
the behaviours include all those with the lock.

`DeliveredExactly` says that a message is returned at most once and that what
counts as read was returned. Not modelled here: content files (ArchiveFiles),
the seen worker's loop (SyncScheduler), the API key check (Credentials), time
windows of a read, parsing, return to a source used earlier, the wrap of the public UIDVALIDITY at 2^32-1.

### ArchiveDiscovery, ArchiveDiscoveryProofs

One session of the fetcher, one step per IMAP command, from SELECT to a result
or a failure: the direct search of a short interval, the bisection over sequence
numbers, the range with its leading and trailing sentinel, and the anchored
recent window of a reset. Between any two commands messages are expunged or
arrive. Transport errors, which only end the session, are left out. `BatchExact`:
the batch holds exactly the next messages after the cursor, and the new cursor
passes over no other.

### AccountMutex, AccountLocks, SyncScheduler, SyncSchedulerProofs

`AccountMutex` is the abstract specification: an account has at most one owner,
only an owner connects, and at most `Slots` connect at once. `AccountLocks` is
the code's implementation of ownership, a map of reference-counted lock objects
with a one-token channel each. `SyncScheduler` extends it with the goroutines
that use it, one step per lock, slot or store operation: `Manager.Run` and its
rounds, continuations, retry queue and retry window; one automatic and one
manual sync per account; the seen worker; requests that synchronise, read or
configure an account; and the main goroutine, from the signal to the closing of
the database. `at[p]` says where a process is; `Outcomes` are how a sync can
end, `Recorded` which status it stores.

`ImplementsMutex` is the refinement: with `owns` mapped to the processes beyond
their lock and `connected` to those in work, every step is a step of
`AccountMutex`. `StatusHonest`: no progress entry outlives its sync and no
interruption is stored as a failure. `DatabaseOutlivesOwners`: the database is
closed only after the sync loop, the seen worker, every automatic and manual
sync and every request have ended. The loops of the deletion jobs and of
automatic creation are not modelled here, though `main.run` waits for them in
the same group; the sessions of public IMAPS clients are not modelled either,
and `publicimap`'s `Close` closes their connections without waiting for their
goroutines, so nothing is said of what a session does while the database is
being closed. `SyncCatchesUp` and `ShutdownEnds` are the liveness properties.

Abstractions: a mailbox has at most two batches; the other accounts of the
installation are the slots they take (`OtherTakesSlot`); a timeout of a wait is
a fault of the bound `MaxFaults`; the release of a token and of its reference
are one step, because a caller between the two finds the account busy as before.

### HideMyEmail, HideMyEmailProofs

One account with its Apple session, its challenge, its alias rows and Apple's
directory. A client's operation holds the operation lock from its start to
`Finish`; the account lock is held only where the code holds it, so account
edits, alias edits and mailbox syncs come between an operation's requests. Every
Apple call may succeed, be refused because the session expired, or fail, and
`Reserve` may have happened when its answer is lost. The user changes the
directory and the forwarding target on Apple's side, the process crashes, store
writes fail. Custom mailboxes (`registerManualAlias`,
`adminAPICreateRandomAliases`, `adminAPIDeleteCustomAlias`) are accounts of the
other type, and an update may turn one type into the other.

`EveryReserveTracked`: an address that our own request created is a row, about
to be one, or was reported to the caller as possibly untracked. A crash between
the reserve and the staging loses it, as the code accepts. `SessionOfIdentity`,
`CursorCoversPublished` (while a cursor exists the mailbox was scanned for every
enabled alias since it was enabled) and `CapacityKept` relate the rows that
different operations write.

What the code does and the model shows beside the properties: a manual directory
synchronisation removes a pending candidate that the directory omits at once,
while automatic creation reads the directory several times before it gives up.

### AutoCreate, AutoCreateProofs

One account's plan and the managers that poll it. Plans are the sequences of
times that `generatePlan` can draw; a claim is a compare-and-swap on the first
deadline; the clock may advance between any two steps, so the claim, the start
and the record of one attempt have different times. `SpacedAttempts`: attempts
begin at least `MinimumInterval` apart and not before the end of a stored
cooldown. Switching creation off and on again between a claim and its start
replaces the plan the correction would have moved; such an attempt is not
counted. To tell it apart a manager carries the mark `current`, which switching
creation off withdraws (`Withdrawn`) and no action of the code reads: the new
plan may begin, by coincidence, at the very deadline the claim stored, so the
deadline alone does not say that the plan is still the claim's (`Counted`).

### ArchiveFiles, StoredDataProofs

Rows, the account's directory, and the directory set aside, with a sync that
publishes files before its commit, a source change or deletion that moves the
directory before its commit, an eviction that unlinks before it marks, a reader
that marks what it misses, and the reconciliation of a start. A commit may fail,
or land and be seen as failed, and the process may die between any two steps.
`ContentKept`: none of it loses or exchanges an archived content, except where
the code itself unlinks: eviction runs without the account's mutex and may
unlink a content published after it chose the row, and a sync whose commit was
reported as failed removes the files it published. Left out: a failing
`RemoveAll` of a discarded directory.

### Credentials, StoredDataProofs

One alias' row, its queued key, an administrator's row and sessions. Rotations
lock the account row; guarded requests hold the read side of
`credentialRotationMu`, the global rotation its write side. `Complete` rows have
a bundle, older ones get theirs from `ensureAliasCredentialsTx`. A mail client
holds an access token or an IMAP session, both bound to id, version and bundle.
`ShownKeyWorks`: the key inside the sealed bundle and a queued key are the
alias' valid key. `RotationIsSharp`: a version names one bundle, and no public
request is authenticated before a global rotation and answered after it.
`SessionsProvePassword`: an accepted session proved the present password.

### Startup, StoredDataProofs

Two processes start, stop and start again on one key file, one database and,
possibly, the former SQLite file, which its old server may still write. The key
comes from the environment or the file; `publishMasterKey` links and never
replaces; the transaction of `CommitInitialization` holds the advisory lock from
its first read to the commit. `DataStaysReadable`: every stored secret is sealed
with the bound key, every process that serves holds it, and the installation
still has it. The steps of `migratePostgres` are one transaction with the
version as its result. `bindMasterKeyFingerprintTx` inserts nothing over a
fingerprint and compares what it reads back; under the advisory lock the
comparison never fails, and without the lock it would refuse a second key.

### MC modules

`MCService` checks HideMyEmail, AutoCreate, ArchiveFiles, Credentials and
Startup in one run. They share no variable, so their product has no behaviour
that its parts have not; `focus`, chosen initially, says which of them moves,
and the others rest. Their actors are the same two model values and so are
addresses and messages, hence the symmetry under both permutations is sound. The
other MC modules give the instances of the module they are named after.

Each module with a `TypeOK` states there the shape of its variables; the quota's
is checked and proved, and serves its proofs.

## Runs

| Run | Instance | Shows |
| --- | --- | --- |
| `quota` | 3 leases, limit 1, 2 throttles of two lengths, clock to 6 | the rolling window holds through crashes, lost accounting and late application, and stored throttles are honoured in whatever order they were stored |
| `queue_shared` | 2 administrators with a job each, a legacy job, 1 address, 2 faults | everything about sharing, cancelling, recovering and confirming, and that the queue implements DeletionOrders |
| `queue_fifo` | 2 jobs over 2 addresses of one subject, 1 fault | the order of the queue |
| `queue_live` | 2 jobs, 1 address, a crash or a throttle | every job ends |
| `queue_cancel_race` | 2 jobs, no faults | finding 1 |
| `sync_aliases` | 2 aliases, 2 generations, 2 UIDs, batch and window 1, no lock | no mail skipped, no stale generation |
| `sync_source` | 2 sources with the same UIDs, no lock | no state of a source leaks into the next |
| `sync_reset` | window 2, batch 1, 2 generations, 7 versions | nothing goes backwards when a window is fetched again |
| `sync_seen_replay` | 2 sources, with the lock | finding 2 |
| `discovery` | all mailboxes and cursors up to UID 6, limit and window 2 | no interleaving makes a session skip or over-read |
| `scheduler` | 1 account with its automatic, manual and seen process, a request, 1 slot, 1 fault, 1 retry, a shutdown at any point | locks and slots refine AccountMutex, every account catches up, shutdown ends |
| `service` | 2 actors in each component, 2 addresses or messages, capacity 1, 3 requests and 1 event (HideMyEmail), clock to 9 (AutoCreate), 2 sources and 2 faults (ArchiveFiles), 7 secrets (Credentials), 3 keys (Startup) | what each of the five components promises |

Bounds. Two jobs on one work are enough for every pair of subscription states,
two faults for a setback of the recovery of a setback, two versions of a
password for one revocation. Two UIDs with batches of one give a cursor in the
middle of a mailbox, and one more generation or source gives coinciding UIDs.
The quota's clock covers a lease, its expiry and a second lease; `MaxThrottles`
bounds the answers on record, two of which are a longer and a shorter one in
either order. With a limit of two, UIDs up to six leave room on both sides of a
batch for both sentinels and for expunges on either side. In the scheduler one
account already has four processes that want its lock and its slot, and
`OtherTakesSlot` stands for the other accounts. In the service a capacity of one
makes two candidates compete for the last place, three requests allow an
operation, its rival and the recovery of the first; nine units of time hold two
attempts and a cooldown; two sources reuse one path, and two faults allow a
crash within the recovery of a failed commit. `MaxFaults`, `MaxVersion`,
`MaxTime` and the other bounds are guards of the actions that would exceed them;
when they are reached the model stops, so deadlock is not checked, and the
system itself may rest whenever nothing is queued.

Fairness. `queue_live` assumes weak fairness of the disjunction `Progress`: a
supervisor restarts the process, the dispatcher's ticker keeps scanning, every
call of a worker has a deadline, time passes. It is fairness of the whole, and
does not assume that Apple ever answers well. It holds once no rotation is
pending for ever; storage faults are excluded because after one the code
deliberately blocks the subject until a restart. `discovery` assumes that a
session whose mailbox answers takes its next step. `scheduler` assumes weak
fairness of the loops, the main goroutine and the slots of other accounts, and
strong fairness of the processes that wait for a lock or a slot: Go hands a
channel to its waiters in the order they came, so one that is offered again and
again is received. Nothing is assumed of requests, of the signal, of the
shutdown's deadline or of the end of the retry window.

## Findings

1. `queue_cancel_race` (`httpserver/admin_alias_delete_jobs.go:612`): a worker
   sees that its work is unwanted; before it saves that, another job subscribes
   to the work, which is still running; the save ends the work as cancelled, and
   the new job's item with it. The README says a cancellation does not undo
   other jobs. The same happens after `context.Canceled` (lines 659-664).
2. `sync_seen_replay` (`syncer/seen_worker.go:205`): the tasks are listed before
   the account lock is taken and not listed again under it, so a change of the
   mailbox source in between, which deletes the rows, does not stop them from
   being sent to the new mailbox. The comment in `store/account.go:252` says they
   must not be; UIDVALIDITY protects only when it differs.

## Proofs

A theorem holds for every value of the constants that its module's assumption
admits, and without the bounds on faults, versions, requests or time mattering.
Each proof finds an inductive invariant, shows with one step per action that it
is kept, and derives the property. In most of them an invariant of the tables
alone is not inductive, because it does not say what the goroutines, Apple or
the mailbox may still do to the tables; what is added says that.

`AliasDeletionQuotaProofs` (from `QuotaAssumption`): `TypeOK`, `Occupancy`,
`RollingWindow`, `BoundedWait`, `SentNeverReleased` and `ThrottleHonoured`. `RollingWindow` says nothing about deletes that Apple
has yet to apply, so `IInv` adds `Covered`: a delete that is being called, is
still on the wire or was applied has a row in state sent or committed that
expires no earlier than Apple's window ends after it can last be applied. That
is preserved by each step for a reason of its own: marking sent extends the row
by the lifetime, which exceeds the call, the lag and Apple's window; committing
shortens it to the window, which exceeds the lag and Apple's window; a release
touches only rows that were never sent. Hence every deletion Apple counts is a
row the store counts, `Recent(p)` is a subset of `Live(p)`, and `Occupancy`,
which only `Reserve` can threaten and checks, bounds both. `Bounded` says that no
row or cooldown reaches beyond one renewal from now, which gives `BoundedWait`,
and `AnswersKept` that a stored throttle is covered by the principal's cooldown
whatever is stored after it, which gives `ThrottleHonoured`.

`AliasDeletionQueueProofs` (from `QueueAssumption`): `TablesAgree`, `Fifo`,
`WorkerActsAlone`, `ConfirmedByApple`, `UnknownIsReconciled` and
`FinalIsFinal`. The tables are changed by four functions that the transactions
compose, and each is shown to keep `Coherent` whatever it is applied to.
`Coherent` has a parameter, the works whose change the jobs have not been told
yet: `SaveTx` changes a work and publishes it afterwards, and between the two the
tables do not agree. `WorkerInv` says what the worker of a subject knows of its
work at each of its steps, `LateInv` the same of a commit that was in flight at a
crash, and `LocalInv` that a row is gone locally only if it is gone
at Apple. Pruning happens in nearly every transaction and is treated once: a
pruned work is idle and need not be reconciled (`RowPruned`).

`QueueImplementsOrders` proves the refinement: every action is shown to be one
step of `DeletionOrders` or a stutter. The invariants above speak of works and
do not say whose orders a work carries out, so `OrdersInv` adds it: every item
points to a work of its own address, and every work was made for some item
(`Filed`); an item whose work is active and that no longer subscribes to it
belongs to a revoked job (`FiledJob`); and a worker that is about to save, or a
commit in flight at a crash, has evidence for what it will say (`Backed`): for
"cancelled" a revoked job that names the address (`Shunned`), for "succeeded"
that the row is gone. `Shunned` is stable because a revocation is never taken
back, and that is why the save is right although what the worker saw when it
decided may have changed; that another job has subscribed meanwhile is what
`Backed` does not exclude, and why `CancelsOnlyItself` is false. A worker that is
between its check and its request has a running work (`ClearedRuns`), and what is
swept or saved elsewhere is not its work, so the orders of a cleared address stay
open (`SettledNotCleared`).
What the table functions do to the orders is proved once: `JobFollows` is
transitive and holds of each of them (`PublishFollows`, `CancelJobsFollows`,
`CancelUnwantedFollows`, `PruneFollows`); all but the publication of a result
also end an open item only as cancelled and only in a revoked job (`Spares`).

`MailboxSyncProofs` (from `SyncAssumption`, for both values of `Exclusive`):
`ArchiveComplete`, `SnapshotOfGeneration`, `OnlyCurrentSource`,
`DeliveredExactly`, `PublicUIDStable`, `NeverBackwards`, and
`SeenOnlyDelivered`. The argument is the version check of `ApplyMailboxSync`:
what a sync has loaded and what it has fetched describes the tables as long as
the account's version is the one loaded (`LoadedInv`, `FetchedInv`), and every
change that could make it untrue advances the version. A result is complete at
the moment of its fetch and stays so because a mailbox assigns UIDs in ascending
order (`UpstreamInv`). `ReaderInv` says the same of a reader's binding, and
`GivenInv` and `PublishedInv` tie what clients were given to the tables.
`SeenOnlyDelivered` is proved for an account whose mailbox source never changes
(`MaxSource = 1` is a hypothesis of the theorem): with a change it is false,
finding 2. Its invariant `SeenInv` separates the tasks in the table from those
the worker has listed, which is the difference the finding is about.
The attempt to prove `NeverBackwards` in an earlier form, which compared the
snapshot's and the cursor's UIDs without their UIDVALIDITY, failed for a good
reason: after two changes of UIDVALIDITY a lower UID is newer. The property now
says so, and `sync_reset` has two generations.

`SyncSchedulerProofs` (from `LockSupply`: there are at least as many lock
objects as processes, which an allocator grants): `ImplementsMutex`,
`StatusHonest` and `DatabaseOutlivesOwners`. For the refinement every step is
shown to be one of seven kinds of steps of a lock (`StepKinds`), and each kind
an action of `AccountMutex` or a stutter. `LockInv` says that the references of
an object are the processes that hold or await it, that all of them use the
object in the map, and that an object without its token has one holder; without
the first, a release could remove an object that another process is about to
use, and two owners would result. `LoopInv` and `ShutdownInv` relate the main
goroutine to the loops it waits for, `ProgressInv` a progress entry to the sync
that made it.

`HideMyEmailProofs` (from `HmeAssumption`: finitely many addresses, a positive
limit): `EveryReserveTracked`, `SessionOfIdentity`, `CursorCoversPublished` and
`CapacityKept`. None of them is inductive alone, because none says what an
operation between two requests relies on. `OpInv` says it: whoever talks to Apple
under the account lock has the account it began with; whoever is about to reserve
or stage has found no other candidate and a free place (`Reserving`), and nobody
can take it, since every action that enables, imports or stages needs the account
lock; a confirmation's candidate is still pending. For the cursor,
`MissedWereGiven` says that while it exists only addresses Apple has given out
were missed, so an address that was free when this operation's directory read did
not list it, and that our reserve created, cannot be among them.
`CustomHasNoReserved` covers the change of an iCloud account into a custom
mailbox, whose rows are deleted without asking Apple. Three lemmas count:
`FewerCandidates`, `OneMoreCandidate`, and `Imported` for the greedy import.

`ArchiveDiscoveryProofs` (from `DiscoveryAssumption`): `BatchExact`,
`WindowExact` and `FailsOnlyWhenDisturbed`, for every mailbox, cursor, limit and
window. Everything rests on `Shifted`: an expunge moves messages towards the
front only, and of two messages of the SELECT the later one has moved at least as
far. Hence a number answers with its message of the SELECT or a later one, and
when the last number still shows its message nothing has moved. `Between` says
where the bisection is: below `low` there is nothing new, from `high` on there is
nothing old, unless a message of the SELECT is already gone (`Disturbed`);
without that exception it is not inductive, and with it a disturbed session may
end anywhere, which the sentinels then notice. `RangeCovers` says that what was
read holds every message between its ends, and keeps holding it whatever is
expunged or arrives afterwards, and `BoundaryAt` that the boundary of a reset's
window has moved by less than the anchor behind it, so an anchor in place puts
the boundary in place.

`AutoCreateProofs` (from `AutoCreateAssumption`): `SpacedAttempts`, for every
number of managers and every plan. Every compare-and-swap raises the next
deadline: after a claim (`ClaimedPlan`), a shift (`ShiftedPlan`), a new cycle
(`GeneratedPlan`) or a cooldown (`NewPlan`, which is where `Cooldown >
CycleDuration` is needed). So the stored deadline never falls behind `notBefore`
(`ScheduleInv`), a claim's deadline, once passed over, is never stored again, and
no two claims share one (`ManagersInv`). At its claim a deadline was due, hence
`notBefore` had passed (`Claims`), and whoever begins while its deadline is still
stored is the only one to have done so.

`StoredDataProofs`, on files (from `ArchiveFilesAssumption`): `ContentKept`. The property
speaks of the moments at which nobody changes the archive; in between the
contents may be in the directory set aside. `RowsInv` says where they are
(`Kept`), `AsideInv` that nothing is published beside a directory set aside and
`WriterInv` that it is discarded only once the rows are gone. From these the test
`Obsolete`, which a start makes on what a crash left, is exact.

`StoredDataProofs`, on credentials: `ShownKeyWorks`, `RotationIsSharp` and
`SessionsProvePassword`, for every number of concurrent handlers. A transaction
that holds the account row works on the alias as it is (`LockedRow`), the global
rotation and guarded requests exclude each other (`GuardHolds`), a handler that
compared a password knows no newer administrator than the stored one
(`LoginsCurrent`), and a later bundle of an alias row has a greater version
(`ConnectionBound`).

`StoredDataProofs`, on the start: `DataStaysReadable`, for every number of processes. What a start
has verified under the advisory lock is still so when it commits
(`VerifiedStart`), a key that a process got past the key file is the file's or
the operator's (`KeyKnown`), and a process that opened the database holds the
bound key (`OpenedBound`).

Only model-checked:

- Liveness, `EveryJobEnds`, `SyncCatchesUp`, `ShutdownEnds` and `SessionEnds`:
  it needs fairness and ENABLED, which the prover does not support.
- `CancelsOnlyItself`, which is false (finding 1), and `SeenOnlyDelivered` over a
  change of source, which is false too (finding 2).
- `TypeOK` of the modules other than the quota is stated again, more precisely,
  as the type part of each proof's invariant.

## Not modelled

- Parsing of MIME, recipients and one-time codes, SRP arithmetic, cookies,
  request building: functions of text without state.
- The statements of each schema migration and the SQLite dialect.
- Log files, flow logs, audit listing, mail groups, pagination, routing, the web
  client.
- The editing of the Apple account's own e-mail addresses
  (`hmesync/account_email.go`): a second use of the Apple session, with a sign-in
  and an e-mail challenge of its own, which saves the rotated session under the
  account's locks.
- The end of public IMAPS sessions at a shutdown, and the loops of the deletion
  jobs and of automatic creation in it.
- The older unqueued batch deletion, whose requests use the same quota.
- A public IMAPS client that keeps a mailbox selected while the source changes:
  `Poll` reports the number of messages only, and UIDVALIDITY is announced at
  the next SELECT; only the stability of the pair is checked (`PublicUIDStable`).
- An acknowledgement of queued keys names aliases, not keys, so it may remove a
  key that a global rotation replaced after it was read; the key stays readable
  in the alias' credentials.

## Further work

The composition of HideMyEmail with the queue's executor on one directory, and
public IMAPS sessions over a mailbox that is reset.
