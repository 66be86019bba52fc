# Verification of the Codex Accounts Manager

The repository is a VS Code extension that manages several Codex accounts, and
a shim that stands between the official Codex client and its app-server. The
shim can move a running app-server from one account to another without
interrupting conversations, queue requests, and share one app-server between
several clients. This directory holds TLA+ models of the parts whose
correctness depends on the order of events, the TLC configurations that check
them on small instances, and theorems proved with TLAPS for every instance.

Paths below are relative to the root of the repository. `shim` stands for
`runtime/codex-app-server-shim.cjs` and `queue` for
`runtime/codex-session-queue.cjs`.

## 1. Inventory

| Component | State it keeps | Operations | Talks to |
|---|---|---|---|
| Session queue (`queue`) | per thread: queue, busy, activeTurnId, pendingStartId; pending and fallback requests | prepare an official request, handle a response, handle a notification, drain | called by the line handlers of the shim |
| Turn barrier and account switch (`shim` 1690-2800) | the pending switch, submitted starts, active turns, terminal turns, deferred lines, recent operations | request, prepare Goals, wait, interrupt, cancel, drain (login, identity, activate, resume, continue, roll back) | app-server by stdio, manager by control socket |
| Runtime owner (`shim` 237-775) | mode of the shim, owner directory and `owner.json` | attach, acquire, reap, renew, release, reconnect, shut down | other shims, only through files |
| Hot-switch bridge (`src/codex/hotSwitchBridge.ts`, `hotSwitchRuntime.ts`) | sessions with shims, outstanding operations | send a switch, answer `account/activate`, query the outcome | shim, account store |
| Capacity recovery (`shim` 4064-4414) | entries waiting, claimed or running, work generations | schedule, claim, settle, restore, run | switch, manager |
| Usage-limit batch (`shim` 4610-4861) | the batch, its deadline, recent threads | observe a limit, a start or an end; finalize, suppress | switch |
| Attached clients (`shim` 404-604, 1444-1677) | routes of requests and threads | attach, route, detach | clients, app-server |
| Gateway adapter (`shim` 5191-6400) | streams | translate requests | Gateway providers |
| Write coordinator (`src/storage/accountsWriteCoordinator.ts`) | lease directories, snapshots | acquire, renew, reap, release; read, merge, replace | other hosts, only through files |
| Token refresh (`src/auth/tokenRefreshCoordinator.ts`) | refreshes under way, generations | refresh, adopt, save | write coordinator, OAuth server |
| Runtime switch coordinator (`src/application/accounts/runtimeSwitchCoordinator.ts`) | the runtime-switch lease | run a switch, reconcile its outcome | write coordinator, bridge |
| Account store and state (`src/storage`, `src/application/accounts`) | accounts, active account, evidence of their state | import, update, activate, observe | write coordinator, secrets, `auth.json` |
| Schedulers (`src/application/accounts/balanceScheduler.ts`, `src/presentation/workbench`) | timers, leases | choose the next account, refresh, switch | all of the above |
| Wakeup tasks (`src/application/wakeup`, `src/storage/wakeupStore.ts`) | tasks, history, claim files | claim, run, recover | file locks |
| Import inbox (`src/presentation/workbench/localImportInbox.ts`) | job files, results | claim, import, requeue | account store |
| Sharing (`src/sharing`, `integrations/manager-gateway/src/sharing-relay.mjs`) | credential syncs with versions, transfers | publish, acknowledge, stop, deliver, return | relay over HTTP |
| Session locks (`src/sessions/sessionLocks.ts`) | lock files of conversations | find holders, terminate, remove | other processes |
| Manager gateway, mailbox, Feishu, sub2api integrations | their own | their own | third-party services |

`PROJECT.json` lists every component with its status, and under `hazards` what
is hard to test in each, at its line.

### What is hard

* **Order of messages.** The app-server answers a `turn/start` and announces
  the turn's start and end independently. An answer may be read after the end
  of its turn. Any table that trusts the answer keeps a dead turn.
* **One thread, many callbacks.** `drainPendingSwitch`, `prepareGoalsForSwitch`
  and `recoverPausedGoals` are async functions. Between two of their awaits any
  message, timer or cancel may be handled, and the request they hold may have
  been given up in the meantime.
* **Three parties, one account.** App-server, manager and shim each hold the
  account. They change by separate calls, each of which may fail, or time out
  and be carried out later.
* **Processes that meet only in files.** The owner directory and the leases
  are made, moved and removed by path, and read, truncated and written by
  handle. A process may be killed between any two of these.
* **Many windows, one app-server.** Calls of several windows share one pipe and
  one handshake; a window may close, or the owner of the app-server die, while
  they wait.
* **Liveness.** Every conversation hangs if the barrier stays up or a queued
  start is forgotten.

### What makes each modelled part correct

* Session queue: a request is held, under way or answered, exactly once; a
  thread has one start at a time; ended turns stay ended; what is held is sent
  in the end; nothing passes a raised barrier.
* Switch: no turn anybody asked for is cut over; all parties agree on the
  account unless a rollback failed; an outcome once reported stays; Goals and
  cut-off threads go on; the barrier comes down.
* Runtime owner: no shim touches the record of another; an owner that has lost
  its record stops; every shim becomes owner, attaches or stops.
* Leases: one holder, as long as none is taken for dead.
* Accounts index: what one host edits is in the file in the end, whatever other
  hosts, older saves, failures and disposals do; removed accounts stay removed.
* Token pair: a refresh token is sent once; the pair that stays is the newest of
  the last login, and the provider still takes it.
* Evidence: the verdict shown is the newest there is on the credential in use.
* Capacity recovery and usage-limit batch: a failed thread gets one Continue,
  from the recovery or from a switch; a batch is ready only when all its threads
  are at their limit; a thread whose user went on is left alone.
* Credential sync: what is acknowledged is stored; the follower catches up.
* Loan of accounts: the last credential is never lost, one side at a time uses
  it, and what was lent comes back.
* Wakeup: an occurrence is paid for once, whoever dies or sleeps; a run shown as
  interrupted is over.
* Import inbox: every job is answered and its file, which holds credentials,
  removed.
* Automatic switches: hosts that decide by themselves come to rest; a thread
  without capacity gets another account.

## 2. Plan

1. `SessionQueue` - done.
2. `AccountCutover` (abstract) and `SwitchBarrier` (implements it) - done.
3. `RuntimeOwner` - done.
4. `FileLease` (lease directories), `TokenRefresh` (which uses two leases) and
   `AccountsIndex` (which uses one), and `AccountEvidence` - done.
5. `CapacityRecovery` and `UsageLimitBatch` - done.
6. `CredentialSync` and `SharingLease` - done.
7. `Wakeup`, `ImportInbox` and `SeamlessSwitch` (the decisions to switch) - done.
8. `AttachedCalls` (the windows attached to an owner) - done.
9. Left: `SessionLocks`, the renewal of the runtime-switch lease, the requests of
   the app-server to attached windows, the turns of the manager gateway.

Proved: see section 5. Left to prove: `CutThreadsGoOn` of `SwitchBarrier`.

## 3. Modules

| Module | Contents |
|---|---|
| `SessionQueue` | the queue and the shim's tables around it |
| `AccountCutover` | what a switch promises, seen from outside |
| `SwitchBarrier` | the switch transaction of the shim |
| `RuntimeOwner` | the election of the owner |
| `AttachedCalls` | the calls of several windows to one app-server |
| `CapacityRecovery` | the recovery of a thread that met a model at capacity |
| `UsageLimitBatch` | the batch and the journal of threads at their usage limit |
| `FileLease` | lease directories |
| `AccountsIndex` | the shared index of accounts and its three-way merge |
| `TokenRefresh` | refresh of a credential pair by several windows |
| `AccountEvidence` | what is known of an account's health |
| `CredentialSync` | the sync of a credential between two Managers |
| `SharingLease` | the loan of accounts from one Manager to another |
| `Wakeup` | paid requests at set times, made by one host each |
| `ImportInbox` | the jobs left for import |
| `SeamlessSwitch` | the decisions to switch accounts, by quota, limit and capacity |
| `MC...` | instances for TLC; `MCCalls`, `MCStorage`, `MCRecovery` and `MCSharing` hold several modules each |
| `..._proofs` | theorems and their proofs |

Definitions whose comment begins with *Faulty* are not part of the models: each
is a plausible slip in the code, used to see that a property notices it.

### SessionQueue

The client writes requests (`ClientRequest`); `handleOfficialLine` defers,
queues, rejects or forwards each (`Blocked`, `Enqueue`, `RejectFull`,
`ForwardStart`, `ForwardOther`). The app-server takes, answers, begins and ends
turns (`Child...`, external) and writes to one ordered pipe per thread. The shim
reads a line at a time (`ReadResponse`, `ReadStarted`, `ReadCompleted`), each
action being the whole handler with the drain it triggers. `RaiseBarrier` and
`LowerBarrier` stand for a switch, of which the queue sees no more than that.
Requests are records of an id, a thread and one of three kinds: a managed
`turn/start`, a `turn/steer`, or other work such as a review. Goal turns, which
the app-server begins by itself, have ids of their own.

Not modelled: `clear()` when the app-server exits (shim 611), the cap of 32
remembered terminal turns per thread, anonymous turns without a thread.

### SwitchBarrier and AccountCutover

Each action is a callback or a stretch of an async function between two awaits.
`prep`, `rec`, `tx` and `intWait` hold the positions of the async functions
that may be suspended: `prepareGoalsForSwitch`, `recoverPausedGoals`,
`drainPendingSwitch` and the interrupts. A stretch that follows another without
waiting runs before any other callback, which `EventLoopFree` says. The
messages to the app-server carry who waits for the answer; after a timer has
fired, or a request was given up, the answer is nobody's, but the call is still
carried out. A preparation that comes too late recovers its Goals twice when the
first recovery fails (`Again`), and the answers to interrupts of an older request
may start the drain of a newer one (`OlderSettled`). The manager activates accounts in the order of the calls, because
it does so under a mutex (`src/storage/accounts.ts:1318`).

`Cutover == INSTANCE AccountCutover WITH ...` is the refinement mapping: a
switch is open until its final status; while the transaction runs, every party
counts as holding the previous account, since no work is let through; once a
rollback step has failed the accounts are untrusted. `ImplementsCutover` then
says that a switch is one atomic step of all three parties, or none.

Three variables only observe: `cut` (threads without a Goal to go on with that a
switch interrupted and has not asked to continue), `uncertain` (a rollback step
failed) and `unresumed` (the shim gave up on resuming a Goal).

Not modelled: the Gateway route switch; rollback to a snapshot or an unmanaged
account; subagent threads; anonymous turns; capacity claims inside a switch;
the switch that ends with the app-server; Goal changes by the client while the
barrier is up (shim 967). The two answers of an account call (response and
`account/login/completed`) are one.

### RuntimeOwner

A shim looks for an owner to attach to (`Look`), otherwise makes the directory
(`MakeDir`), creates the record exclusively (`CreateRecord`), fills it
(`FillRecord`), and starts the app-server (`Launch`). When the directory exists
it judges the record (`ReadRecord`) and moves the directory aside (`MoveAside`)
or waits. Directories have identities, so that a file opened before a directory
was moved is still written afterwards (`handle`). A renewal truncates the record
(`RenewBegin`) and writes it (`RenewEnd`); a shim that finds its record lost
shuts down, which drains the app-server and so takes time. `Crash` kills a shim
at the positions of `CrashAt`. Lease times are facts that become true:
`RecordExpires`, `RenewalLate`, `DirAges`; with `OnTime` running owners renew in
time.

Folded into one step each: reading the record and connecting, reading the record
and the directory's time, removing a directory with its contents. The socket of
an owner is taken to be reachable as long as the owner serves; in the code it
lies inside the directory.

### AttachedCalls

A window makes a bounded number of calls (`plan`) to its shim: an `initialize`, a
read of the account, which may be repeated, or other work, which may not. The shim
owns the app-server, or writes the call to the owner's socket (`SendToHub`), or
keeps it while it looks for an owner (`clientInput`). The owner reads a line at a
time (`HubReads`): it gives the call an id of its own and keeps the route, lets an
`initialize` wait for the first, or refuses. An answer (`ChildAnswers`) goes back
on its route and, if it ends the handshake, to all that wait. A window that closes
is noticed later (`CloseAttached`), and so is an owner that dies
(`OwnerDisconnects`): reads are kept, every other call is answered "outcome is
uncertain". Then the shim attaches to another owner, or starts an app-server and
initializes it itself (`Promote` to `BecomeOwner`, with the two awaits between
them). Who becomes the owner is the matter of `RuntimeOwner`; here there is one at a
time. A fresh id is the pair of the window and its own id. `heard` is what the
window sees; `given`, `repeated` and `initializes` only observe.

Not modelled: the requests of the app-server to windows and notifications (shim
3028-3073), the limit of 32 windows, lines dropped when more than
`MAX_ATTACHED_REQUESTS` wait in one shim (`AttachedCallsAssumption`), the barrier
and the queue, which `SessionQueue` has, and an `initialize` the app-server refuses.

### CapacityRecovery and UsageLimitBatch

`CapacityRecovery` follows one thread. `capacity` is its entry in
`capacityRecoveryThreads`; `ScheduleRecovery`, `ForceClear`, `ClearOfTurn` are
what each handler does with it. `RecoveryTimer` begins a call of
`runCapacityRecoveryTurn`, whose awaits are the positions of `run` (subagent
check, question to the manager, answer to the Continue); two calls may be under
way for two entries. The account switch is what the entry sees of it: it claims
the waiting entry (`SwitchAsked`), restores it (`SwitchGivenUp`) or continues the
thread itself (`SwitchContinues`). The app-server and the manager are external.
`owed`, `reported` and `continueLost` only observe. Not modelled: several threads
and the caps of the tables, the length of the back-off, Goals.

`UsageLimitBatch` keeps the batch of threads that had work under way when the
first of them met its limit, the journal of recent failures, and the snapshot of
threads a switch recovers. The batch is a pure function of the batch before and
of what is read (`LimitObserved`, `EndObserved`, `Finalized`), as in the code. The
phases of a switch are those between which its list may change: as long as it is
pending, threads join and leave it; from the login on they do not. Then it sends
one Continue after the other and waits for each (`awaited`), until the app-server
accepts it (`granted`, then `ContinueSettled`), refuses it (`ContinueRefused`) or
the shim gives it up (`ContinueTimesOut`), after which it may still be carried
out or refused. Only a Continue that is accepted takes its thread out of the
journal. `atStart`, `unseen`, `ended`, `stopped` and `late` (threads whose
Continue was given up) only observe. Not modelled: anonymous turns, with which
the code tracks no batch at all; threads whose Goal is resumed instead; the age,
the pruning and the cap of the journal.

### FileLease, AccountsIndex, TokenRefresh, AccountEvidence

`FileLease` is `tryAcquireSharedFileLease` with `renew` and `release`. A directory
keeps its identity, so that `lockFile` (a file held open) and `lockPath` (what the
path leads to) may differ. Every file operation is an action; reading a record and
the directory's time, and moving a directory and removing it, are one step.

`AccountsIndex` has one copy of the index per host and the file. The steps of a
save are those between which other callbacks of the host or other hosts run:
`WriteIndex` in memory, `FlushPending`, `Persist` under the write lock (exclusive
by `FileLease`, so one step for the others), `SettleSave`. `MergeIndex` is the
three-way merge of the code with one field for each host's edits. `SlowRead` and
`SlowWrite` are the mutators that await something between reading and writing.
A host that is disposed of makes its last save (`Dispose`). When the lock is busy it
makes one retry (`RetrySave`), which may fail (`RetryFails`); when the save fails
for another reason there is none. What the host had still to save is lost then, and
the host is in `dropped`.
Not modelled: backups and the recovery of a damaged file.

`TokenRefresh` is one account: the pair in the store, in the mirror and, while the
account is the active one, in `auth.json`; the pairs the provider accepts, calls of
`ensureFreshAccountTokens` with their positions, a login that replaces the pair.
`plain` are the writers that hold neither lease: `updateQuota` with the pair its
quota request went with, `switchAccountLocked`, an import that stores its pair once
more, the writers that mirror what they have read (`setAccountTags` and its like),
and `syncActiveAccountFromAuthFile`. Whether a result is dropped as stale
(`DropHeld`) is left open: the check knows the window's own replacements only, and
the runner of wakeup tasks (`wakeupRegistration.ts` 41-52) does not ask. `slips`
records the faults for which the code has no answer, so that the properties can
name them: an answer or save lost, a lease overrun, a mirror not written, an older
pair read back from the mirror (`"reverted"`), written back by a writer without a
lease (`"behind"`) or adopted from `auth.json` (`"adopted"`). Not modelled:
renewals and logins by Codex itself in `auth.json`, the cache of 30 seconds, the
other writers of `auth.json` (`restoreUnmanagedAccount`, `hotSwitchRuntime.ts`).

`AccountEvidence` is the tables of `accountState.ts` for one account, with
observations under way, delivered in any order and late.

### CredentialSync and SharingLease

`CredentialSync` is one sync: the primary's poll (publish, list, adopt what the
relay has, put a version, acknowledge a stop), the follower's (list, apply,
record, acknowledge), stops by either user, restarts of both sides between any
two of their steps, and the relay's record. A request has one of three fates:
answered, carried out unanswered, or lost. A version's event id is its number.

`SharingLease` is one transfer of accounts: posting and marking, delivery and its
acknowledgement, cancellation and expiry, returns of one or all accounts, and
their confirmation, with renewals of the credential by whoever holds it. Either
side may be restarted at any step (`OwnRestarts`, `BorRestarts`): what was not
persisted is gone (`ownSaved` is the owner's lease on disk during a poll),
`recoverExpiredAccountSharing` takes back or removes accounts whose lease is over,
and `reconcileTerminalOutgoingLeases` unmarks what belongs to leases that have
ended. A share that arrives after its time is declined (`DeclineLate`). The local
writes of one step are one write: a crash between two of them is not modelled.
`leaseSlips` records the cases in which a promise is not kept by the code; the
properties name them one by one.

### Wakeup and ImportInbox

`Wakeup` is one task with a daily schedule. `tasksFile` is `tasks.json`, `claimed`
the claim files, `lockOf` the lock directories of proper-lockfile, which are taken
over when nobody has touched them for a minute (`lockStale`). `change` is a call
of `mutate` between its lock and its write, with the copy it has read; `runner`
is an execution of the task in `run`: run lock, claim, check, request, finish,
release. A host that sleeps loses its locks and learns of it at any time after
(`Noticed`); until then it writes its old copy and removes its locks by path.
Recovery (`BeginRecover`, `EndRecover`) may come at any time. The edits of a task
are one step and wait for a free lock; the result of a run is added in the step
that finishes it. Not modelled: startup batches, quota-reset schedules, removal
and pausing of tasks, the request itself.

`ImportInbox` follows the name of each job's file. `TakeInbox` to `ReleaseInbox`
are the steps of `processPendingJobs`; the lease runs for two minutes and is never
renewed (`InboxLeaseEnds`), a rename keeps the time of a file (`oldJobs`), and
removals are by name. What an import does to the accounts, and whether it
succeeds, is left out: in both cases there is a result.

### SeamlessSwitch

`Decide` is `runSeamlessBalanceSwitchForActiveQuota` up to the choice of a
candidate; the callers are the refresh of the active account (`RefreshQuota`), the
monitor of threads at their limit (`PollLimit`) and the question about a thread
without capacity (`CapacityAsked`). `attempt` is `seamlessSwitchInFlight` with the
accounts as they were listed; the lease "seamless-switch" is never renewed
(`SeamlessLeaseEnds`). `copy` is the current account in each host's cached index,
`known` the quotas in the index, `left` those that are left. The switch itself is
one step, success or not, as `SwitchBarrier` says; what follows a success (bands
remembered, signal taken up) is in it. A quota is a band: accounts in the same
band are not told apart. Who of the candidates is taken, a matter of order and
plan, is left open. Not modelled: switches asked for by the user, the groups and
hidden accounts, weekly quotas beside five-hour ones, free plans, the switch with a
reload of the window.

### Modules side by side

`MCStorage` (`FileLease`, `AccountsIndex`, `TokenRefresh`, `AccountEvidence`,
`Wakeup`), `MCRecovery` (`CapacityRecovery`, `SeamlessSwitch`, `RuntimeOwner`),
`MCSharing` (`CredentialSync`, `SharingLease`, `ImportInbox`) and `MCCalls`
(`SessionQueue`, `AttachedCalls`, `UsageLimitBatch`) each instantiate modules that share no
variable. A behaviour is one of one module, chosen at the start (`store`, `cause`,
`way`, `stage`), while the others rest in their initial states; so each module is checked
exactly as it would be alone. Fairness is stated on the guarded actions. The
constraints `StoresHaveNotSlipped` and `LeaseHasNotSlipped` cut behaviours at a
fault. In the stores the properties promise nothing after it: they name these
faults themselves, and the theorems hold with them. The loan is cut at
`shareLost`, `renewedInShare`, `ackLost`, `returnedUnacknowledged` and
`removedExpired`; after the other slips (`renewedInReturn`, `returnForgotten`,
`takenBack`, `notSent`, `partial`, `inUse`) it is followed. `LeaseEnds` would promise something
after `renewedInShare` and `returnedUnacknowledged`, and `OneSideUses` after those
and `removedExpired`: the theorem about `OneSideUses` covers them, what `LeaseEnds`
says of them is not checked.

## 4. Runs

| Run | Shows |
|---|---|
| `queue_one_thread` | three requests and a Goal turn on one thread: one start at a time, no ended turn revived, a quiet thread is idle, every request answered; three windows, two of which close or are killed: every call answered |
| `queue_two_threads` | two threads that share the total limit, all kinds: each request in one place, limits kept, the barrier holds work; the same three windows: each call answered once, to who made it, and nothing but a read made twice; two threads at their limit and two switches: no early batch, no thread continued for a failure that is over |
| `queue_stuck` | finding: a start stays queued on an idle thread |
| `switch_again` | two switches in a row on one thread: no ordinary turn cut over, agreement, final outcomes, refinement of `AccountCutover` |
| `switch_two` | two threads, timers that fire and calls carried out late: cut threads go on, no Goal stays paused |
| `switch_liveness` | all timers may fire, the app-server need not answer: the barrier comes down |
| `owner_two` | finding: two app-servers for one Codex home |
| `storage` | two callers of a lease, one of them on another machine; two hosts with two accounts; two windows, a login and a writer without a lease; an account with two credentials; a wakeup task on two hosts: the promises of the five stores, each with the faults it survives |
| `recovery` | a thread at capacity with a user, two switches, calls that time out: no Continue that is not owed, none forgotten; two hosts that decide about switches: they come to rest; a record left by a killed owner, two shims, crashes and late renewals: records keep their owner, a lost owner stops, everyone settles |
| `sharing` | a sync and a loan of two accounts, with a fault or restart each: nothing acknowledged that is not stored, no credential lost, one side at a time, the follower catches up, the loan ends; two jobs and two hosts: every job answered |
| `seamless_capacity` | finding: the switch for a thread without capacity is never asked for |
| `sync_stop_unseen` | finding: the account of a stopped sync stays with the follower |

### Bounds

* Queue: three requests make one running, one waiting and one that meets a full
  queue or a displaced start; limits of one and two, instead of the code's, make
  the queue overflow with that. Two threads suffice for the total limit, which
  is all that threads share.
* Windows: two that go let an owner die twice, or a window close before its owner
  dies; the owner's second call has the id of another window's, so that ids
  collide; a window makes one `initialize` more only after one that failed.
  `MaxAttached` of two makes the owner refuse.
* Switch: one thread with two turns lets a turn end, and another begin, at every
  point of a switch; two switches let each meet the leftovers of the one before.
  Two threads are needed where one is interrupted and the other is not yet.
  `switch_again` and `switch_two` together would be out of reach, so the first
  has no timers and the second one switch. `SafeTimeouts` leaves out the four
  calls whose late execution is a divergence of its own (login, pause, interrupt
  and Continue); section 6 describes them.
* Owner: two living shims and one dead owner give every pair of acquirer,
  holder and reaper; two directories suffice because a directory that nobody
  holds open is a fresh one. `recovery` leaves out one crash, that between
  `mkdir` and the record, which section 6 describes. With three
  living shims the safety properties hold as well; `EveryoneSettles` then fails
  only by one shim that finds the record of changing owners in the middle of a
  renewal at each of its attempts, for ever, which no schedule of timers does.
* Storage: two callers are enough for every pair of holder, reaper and
  acquirer, one local and one remote (a remote holder is never found dead by its
  pid). Two edits in all make each pair of concurrent changes, one failed save
  makes a later one carry it, or is that of a disposal, whose retry may fail too
  (that the save finds the lock busy is none of the failures counted). Two refresh calls, in two windows, one
  login, and one writer without a lease, which may come again and again. Three events
  and three instants around a TTL of two make every order of two observations
  and a success.
* Recovery: one official start and two turns give a failure, its Continue and the
  failure of that; two switches let one fail and another claim what it restored.
* Usage limits (`queue_two_threads`): two threads and three starts let one
  conversation go on, end, or start anew while the other is at its limit; a second
  switch meets what the first has left in the journal.
* Wakeup: two hosts, of which one may sleep or die once and one is manned; two
  ticks hold one occurrence, its grace and the next occurrence's day; two runs, so
  that a second host meets what the first one left; one edit.
* Automatic switches: two hosts, two accounts, two bands used up. One
  beginning has two bands on each account, which are balanced, and no fault; the
  other one band on each, of which one is a reserve, with one failed switch or one
  poll by a host with an old copy: there both run dry while the quotas known lag
  behind. The threshold is 0 ("after exhaustion").
* Inbox: two hosts and two jobs, of which one death and one lost result.
* Sharing: one renewal of each credential; one fault, which is a request lost or
  carried out unanswered, or a restart of either side; two accounts, so that one may
  be returned before the other.

### Fairness

Weak fairness stands for the event loop: a handler that has input, or the next
stretch of an async function, runs. A healthy app-server takes its input,
answers, and ends its turns (`Fairness` of `SessionQueue`); the switch needs
nothing of the kind: `FairSpec` of `SwitchBarrier` assumes only the shim's own
steps and its timers, because every call of the shim has one (shim 2665-2696,
2714-2767), and the manager's cancel, which closes the socket when its limit of
"configured wait + 2 minutes" has passed (`docs/HOT_SWITCH.md:160`). Timers are
strongly fair since a timer is set anew for each call and enabled only while
that call waits. For the owner: each shim's own steps, renewal timers, the
deadline of an attempt, the end of an app-server that is being shut down (it is
killed after a limit, shim 803-886), and the passing of time. No fairness makes
a shim end its app-server otherwise, crash, or start.
For the windows: lines in a socket are read, the end of a socket is noticed, the
loop that looks for an owner goes on, the app-server answers.
For the index: timers and promises of a host. For the recovery: the
entry's timer, the shim, the app-server and the manager's answers, each of which
has a timer in the code. For sharing: both sides poll, which the extension's
interval does; `ReturnOnTime` is strongly fair since a poll finds it enabled
again. For the inbox: each window polls and goes on, files get older, and a
closed window is opened again some time. For the automatic switches: an attempt
that has begun goes on (every call in it has a timer), and one of the hosts
refreshes each quota again and again (strongly, since no particular state stays
until the refresh comes). No fairness makes a user, a fault, a renewal, a poll of
the limit or a switch happen.

`CHECK_DEADLOCK FALSE`: the inputs are bounded, so every model stops when they
are used up. That nothing stops early is what the liveness properties and
`QuietThreadIsIdle` say.

## 5. Proofs

Checked by TLAPS, for every value of the constants that satisfies the named
assumptions. Every bound (`MaxReq`, `MaxSwitches`, `MaxEdits`, ...) is any natural
number, and every set of threads, hosts or accounts any set (any finite set
where the assumption says so). `PROJECT.json` lists the results under `theorems`;
each follows from an inductive invariant, which TLC checked on a run before it was
proved.

| Module | Proved of every state or step | Invariant |
|---|---|---|
| `SessionQueue_proofs` | `TypeOK`, `BarrierHoldsWork`, `EachRequestInOnePlace`, `QueueWithinLimits`, `NoResurrection`, `OneStartAtATime`, `QuietThreadIsIdle` | `TypeOK`, `PlacesInv`, `LimitsInv`, `NamesInv`, `PathInv`, `QuietInv` |
| `SwitchBarrier_proofs` | `OutcomeFinal`, `AccountsAgree`, `ImplementsCutover`, `CutoverMeetsNoOrdinaryTurn`, `NoGoalLeftPaused` | `ControlInv`, `CutoverInv`, `WorkInv`, `GoalInv` |
| `RuntimeOwner_proofs` | of `RuntimeOwner`: `TypeOK`, `RecordKeepsOwner`; of `AttachedCalls`: `AttachedTypeOK`, `ServedOnce` | `IInv`, `CallsInv` |
| `Storage_proofs` | of `FileLease`: `LeaseTypeOK`, `LeaseExclusive`; of `TokenRefresh`: `TokenTypeOK`, `NeverAskedTwice`, `UsablePairStays`; of `AccountEvidence`: `EvidenceTypeOK`, `NewestVerdictShown`; of `AccountsIndex`: `IndexTypeOK`, `NoEditLost` | `ExclusionInv`, `TokenInv`, `EvidenceInv`, `IndexInv` |
| `CapacityRecovery_proofs` | `CapacityTypeOK`, `EntryHasOwner`, `ContinueOnlyWhenOwed` | `CapacityInv`, `OwedInv` |
| `UsageLimitBatch_proofs` | `ReadyMeansExhausted` | `LimitInv` |
| `Wakeup_proofs` | `WakeTypeOK`, `OccurrenceRunsOnce`, `InterruptedMeansGone` | `WakeInv` |
| `Sharing_proofs` | of `CredentialSync`: `AcknowledgedIsStored`; of `SharingLease`: `OneSideUses`, `CredentialKept` | `SyncInv`, `LeaseInv` |

The arguments, by module:

* `SessionQueue`. `TypeOK` is inductive as it stands. `BarrierHoldsWork` needs that
  a drain under the barrier writes to the deferred lines only (`DrainHoldsWork`).
  `EachRequestInOnePlace` counts appearances: `PlacesInv` says of every request that
  it is in one of the queue, the deferred lines, the input of the app-server, the
  app-server or the pipe, there once, or has had its one answer. `NoResurrection`
  needs to know that the names of turns are not used twice (`NamesInv`): a turn's
  id is in at most one start, answer, or announcement. `OneStartAtATime` rests on
  both and on `PathInv`, which says for each thread what `pendingStartId`,
  `activeTurnId` and the busy flag promise about what is between shim and
  app-server. `QuietThreadIsIdle` is not about what has gone wrong but about what
  is still to come: `QuietInv` says that whatever keeps a thread busy, pending or
  with something in its queue has, in the app-server, in the pipe or in the shim,
  something ahead of it that clears it (`BusySaysWhy`, `PendingIsComing`,
  `SubmittedComes`), that what is deferred goes to a managed thread
  (`DeferredIsManaged`), and that what is queued on an idle thread will be
  drained by an answer under way (`QueueIsWoken`). It assumes
  `"review" \notin Kinds`: the answer to a review is in no table of the queue and
  drains nothing (queue 133), which is the divergence `queue_stuck` shows, and with it the
  property is false.
* `SwitchBarrier`. `OutcomeFinal` is not inductive. A stretch of
  `drainPendingSwitch` that reports success, or a recovery that reports a
  deferral, must know that the request it reports is the current one and has no
  outcome yet. `ControlInv` says which of the phases (pending, preparing,
  switching, deferring, recovering) may coexist, that a timer belongs to a pending
  request, and that operations not yet accepted are unknown.
* The refinement `ImplementsCutover`: `AccountsInv` says for each step of the
  transaction which call it waits for (`CallsInv`), what it has reached
  (`ForwardInv`), and which parties hold which account then (`TrustedInv`);
  `OpenInv` that a switch without an outcome is the last one and something is left
  to decide it. With these, the step that opens a switch is `Request` of
  `AccountCutover`, the one that reports success is `Succeed`, which moves all three
  parties at once, a deferral or a failure is `GiveUp`, a rollback that fails is
  `RollbackFails`, and every other step is a stutter of the mapped variables.
  `AccountsAgree` is what `CutoverInv` says between switches. Both assume
  `"login" \notin Timeouts`: a login whose timer fires before it is carried out is
  not rolled back, which is the divergence of section 6, and with it the
  property is false. The other calls may time out and be carried out late.
* `CutoverMeetsNoOrdinaryTurn`. The shim counts turns in tables it fills from what
  it reads, and the app-server is ahead of them. `WorkInv` says of each thread how
  the numbers of turns in the app-server, in the pipe and in the tables fit
  (`TurnsFit`); that the shim knows of a turn that runs, or will read that it began
  after all it reads of older ones, and that an answer to whoever asked for it
  comes after that (`LinesFit`); that each call somebody awaits is in one place,
  and whoever asked is still waiting there (`OneOut`); and what is true of the
  preparation, of withheld submissions and of the time of the login (`PrepOnce`,
  `NothingSubmitted`, `LoginQuiet`). So a count of nothing means that no turn
  somebody asked for runs. The theorem assumes `"continue" \notin Timeouts`.
  Otherwise the Continue of one switch, its timer fired, may begin its turn during
  the login of the next; TLC finds that with two switches (section 6).
* `NoGoalLeftPaused`. A Goal is paused by the app-server, listed in
  `pausedGoalThreadIds` when the shim reads so, and resumed by one of three parties:
  the transaction, its rollback, or a recovery after a deferral or a cancel.
  `GoalInv` says, as long as the shim has not given up on a Goal: every paused Goal
  is listed, or the answer that will list it is in the pipe (`PauseIsKnown`); a call
  to pause is the preparation's, which waits for it (`PausesFit`), and does not ask
  about a thread it has listed (`PrepApart`); an answer that a Goal is active again
  is still true when it is read (`ResumedIsTrue`), so that nothing is struck off the
  list too early; and of each Goal listed somebody is left to resume it
  (`PausedIsResumed`): a pending request, a recovery that has it on its list or
  takes its list anew, or a transaction before or in its own resuming. `WorkInv`,
  extended to the calls of a recovery, gives that an awaited call is in one
  place. The theorem assumes that `"pause"` does not time out, for otherwise it
  is false (section 6), and `"continue"`, for the sake of `WorkInv`. All other
  timers may fire, that of an interrupt too, which `switch_two` leaves out.
* `RuntimeOwner`. `RecordsOK` says what an open file and a record know of each
  other: a record being created belongs to nobody, is torn, and is open in one
  shim only; one that is being renewed belongs to the shim that has it open. Then
  no write through a handle can reach the record of another, whatever has happened
  to the paths. No assumption on time or crashes is used.
* `AttachedCalls`. A call is in one place at a time - kept in the shim, on the way
  to the owner, waiting for the handshake, at the app-server, or on the way back -
  and unanswered as long as it is there (`Fine`). Its id tells it apart from the
  calls of other windows and from the `initialize` of a promoted shim
  (`IdsApart`). What has been given and is no read is nowhere on the way in, so no
  later owner gets it again. `initializeForwarded` is set before an app-server
  is given the `initialize` of a window; a window makes another one only when
  all it asked before has failed, so that two of its own are never under way at
  once (`InitializedOnce`). The hardest step is the owner's disconnection: what the shim
  takes back for the next owner are reads, and each is taken back once.
* `FileLease`. While nobody has found a lease stale, the directory of whoever made
  it is at the path until its maker removes it (`ExclusionInv`), so that at most one
  caller is between `mkdir` and removal. The removals by path are harmless for that
  reason only.
* `TokenRefresh`. As long as nothing of `slips` has happened, the mirror follows
  the store, the pairs the provider takes have not been asked for, the caller
  between request and save holds the refresh lease, and the newest login is stored
  (`Unslipped`); no writer without a lease, and not `auth.json`, has a pair ahead of
  the store (`NothingAhead`); the shape of the pairs holds always.
* `AccountEvidence`. Each table holds the newest of what has been delivered of the
  credential in use, and no evidence is in both tables that the other disproves
  (`Remembered`, `RejectionIsNewer`, `SuccessIsNewer`).
* `AccountsIndex`. What a host has still to save is taken *as if the save under way
  were settled* (`BaseHas`, `SaveHas`): rebasing then changes nothing. `Stays` says
  that an account nobody has removed stays in whatever the host has read, edited
  or saved, `FieldKept` that the field of a host is changed by its own saves only,
  `RemovalComes` that somebody who has removed what is still in the file has that
  removal still to save, and `AddedOnce` that an account added by one host only is
  nowhere but with that host until it is in the file. A host whose last retry has
  failed is excepted from these, its own edits only. The lemma `MergeIs` has what
  the three-way merge promises; `OneHostSteps` reduces each action to what it does
  to its own host and to the file.
* `CapacityRecovery`. An entry is of the thread's latest work, every Continue that
  is awaited is the one under way, and each entry has a timer, a call, a switch
  request or an answer (`Owned`). `ContinueOnlyWhenOwed` is about work rather than
  entries. `OwedInv` says how the work under way follows on one another: it is
  numbered and somebody awaits it (`Numbered`, `Waited`); the lines of a turn are an
  acceptance, perhaps an error, and its end, and those of an older turn come before
  those of a newer one (`TurnsInOrder`); behind the latest work nothing is under way
  but the lines of its own turn (`LatestIsLast`). So when an entry is made for the
  latest work, what remains between child and shim is at most the end of the turn
  that failed, and this stays so while the entry waits or a switch has claimed it
  (`StoppedRests`): that end, when it reports the failure a second time, finds the
  entry of the first (`SecondReport`). The claim of a switch is of the entry there
  is (`ClaimFits`), and a call left over from an earlier timer of an entry stands
  where that entry cannot be continued twice (`CallsFit`). Then no answer can have
  settled the failure unseen, and whoever sends a Continue owes it
  (`StoppedIsOwed`). The invariant holds as long as no answer to a Continue came too
  late, which is what the property itself excepts; no constant is assumed away.
* `UsageLimitBatch`. While a batch made beside no unanswered Continue gathers, all
  that was at work is in it until a switch continues (`AllInBatch`), a Continue that
  was sent since is awaited or was given up (`SwitchOrder`), and those that the
  batch has counted out have ended by the limit (`LimitedStop`, `TerminalEnd`).
* `Wakeup`. The claim file is never removed, and of the hosts past its exclusive
  creation one may still ask (`ClaimsInv`). Until a host has slept, the locks are
  held by those who took them, and whatever is written to the file has the runs
  under way in it (`LocksInv`, `RunsInv`).
* `CredentialSync`. Versions of the relay hold credentials in the order of their
  renewal, no update older than what is published waits, and the follower holds
  what it has recorded, until somebody stops the sync.
* `SharingLease`. `LeaseInv` says for each state of the transfer what either side
  has recorded and what their polls may carry, and for each account which of owner,
  borrower and relay has its last credential (`LeaseKnown`, and for the owner's part
  `OwnTerms`; `GivenUp` says when the owner has taken back what it lent). A restart
  takes both sides to states the invariant already describes, but for the slips it
  leaves. The exceptions in `OneSideUses` and
  `CredentialKept` are the faults the properties name.

Assumptions on constants are those of the modules. Besides ranges they say that
the values that stand for "nothing" (`NoIndex`, `Absent`, `NoBatch`, `NoSync`,
`NoLease`, `NoEvidence`, `NoEntry`, `NoChange`) are none of the records they are
compared with, which holds for `undefined` in the code, and that some sets are
finite.

What the proofs changed in the models: `NoEditLost` first said that a removed
account is never in the file. The proof did not go through, and three edits, one
more than the run makes, show why: two hosts add the same account, neither
knowing of the other, one of them removes it, and the addition of the other is
saved after that. The property now excepts it, with the observing variable
`added`; `storage` stays at two edits and the theorem covers the rest.
`OwnerDisconnects` of `AttachedCalls` put the reads back in the order of their ids
with a sort of the library that is a recursive definition; it now takes the
increasing sequence of them (`InOrder`), the same one, which can be reasoned
about without induction.

Only model-checked:

* the liveness properties (`EveryRequestAnswered`, `EveryCallAnswered`,
  `BarrierLowers`, `LastEditReachesFile`, `SyncCatchesUp`, `LentComesBack`,
  `EveryJobAnswered`, `FailureAnswered`, `RotationEnds`, `LostOwnerStops` and
  `EveryoneSettles`): liveness under fairness and `ENABLED` are outside the prover;
* `CutThreadsGoOn` of `SwitchBarrier`: its invariant is not written yet;
* `ContinuesStoppedOnly` of `UsageLimitBatch`. It is, as the length of the journal
  in `LimitTypeOK`, about a sequence filtered with `SelectSeq`, which needs an
  induction over data; so the journal has no type in `LimitInv`;
* the type invariants of `SwitchBarrier`, `UsageLimitBatch`, `SharingLease`,
  `CredentialSync`, `ImportInbox` and `SeamlessSwitch`, which no run has among its
  properties; added to the `INVARIANTS` of `switch_two`, `queue_two_threads`,
  `sharing` and `recovery` they hold. Those of the other modules are proved, and
  those of the stores checked by `storage` as well.

## 6. Divergences between code and documentation

`PROJECT.json` quotes each with the line it contradicts.

* `queue_stuck`: a review counts as a start of its thread, but its answer is not in
  `pending` and drains nothing (queue 132-135): a start queued behind it waits for
  the next event.
* `owner_two`: `owner.json` is empty during a renewal, and the directory's time
  is all that a reader then has (shim 686, 738).
* `sync_stop_unseen`: the relay takes the follower's acknowledgement of a version
  that arrives after a stop for one of the stop (`sharing-relay.mjs` 517), and the
  follower keeps the account.
* `seamless_capacity`: the view handed over for a thread without capacity has no
  `switchRuntimeAccount` (`accountsWorkbench.ts` 1083, `refreshCoordinator.ts`
  51-69), so the decision to switch comes to nothing (`quota.ts` 552).

Seen while modelling, and not stated as a property a run violates:

* A drained start whose thread still counts as busy is queued again at the back
  (queue 75), so starts of one thread may change order, against
  `docs/HOT_SWITCH.md:51`. The same happens to a start drained into the deferred
  lines behind a later one.
* A pause of a Goal whose timer fires before it is carried out leaves the Goal
  paused: `pausedGoalThreadIds` is filled only by an answer (shim 2189-2201).
* A Goal turn that the app-server begins by itself on an idle thread may be
  running at the login; only Goals of busy and recent threads are paused. This
  is why `CutoverMeetsNoOrdinaryTurn` speaks of turns somebody asked for.
* A Continue whose timer fires is given up and may still be carried out: its
  ordinary turn may begin during the login of the next switch, which has counted
  nothing (shim 2390-2412, 2459).
* An interrupt answered with a replacement turn, after the switch it belonged
  to has drained, interrupts the replacement (shim 2334-2343).
* The completion of a login is matched without its id (shim 2726-2737).
* A shim whose renewal fails drains its app-server first, so that two
  app-servers overlap for that time even without the race of `owner_two`.
* `loginApplied` is set only by an answer, so a login executed after its timer is
  not rolled back (shim 2092, against `docs/HOT_SWITCH.md:148`).
* After its timer, an interrupt's turn is no longer in `interruptedTurnIds`, and
  the switch may drain before the failure is looked at: the thread is not
  continued (shim 2335, against `docs/HOT_SWITCH.md:147`).
* `startRecoveryTurn` does not look at `terminalTurnIds`: the answer to a Continue
  read after its end makes the turn active again (shim 2459, against
  `docs/HOT_SWITCH.md:158`).
* A directory without `owner.json`, left by a shim killed after `mkdir`, is taken
  for a missing directory (shim 681), and that path never reaches the deadline:
  every shim tries for ever (against `docs/HOT_SWITCH.md:156`).
* A lease is judged stale and its directory renamed in two steps (write
  coordinator 588), and a record read in the middle of a renewal is judged by the
  directory's time (575): a holder may lose a lease that is in order. Its renewals
  then fail, but work under way goes on.
* A Continue that is given up stays in `recentUsageLimitedThreads` (shim 2411,
  2419-2427), though it may be carried out: the next switch may continue the thread
  once more, when it has long gone on. Why `ContinuesStoppedOnly` excepts `late`.
* What `updateQuota` stores is the pair its request went with, under no lease and
  uncompared (`storage/accounts.ts` 1760-1775): it may put an older pair over that of
  a login or of a refresh, whose refresh token is then sent again. The comment "Drop
  its quota result as well so it cannot write the old token pair back" (1076-1079) is
  true of the window that stored the login, until `updateQuota` stores.
* A login leaves `auth.json` with the old pair, which
  `syncActiveAccountFromAuthFile` stores again when it comes before the new one is
  written there (`storage/accounts.ts` 1903-1908).
* The save of a host that is disposed of is tried once more when the lock is busy;
  the failure of that is logged only (`accountsWriteCoordinator.ts` 80-90), and its
  last edits are lost. Why `NoEditLost` excepts `dropped`.
* A capacity entry made during a switch is not claimed by it, and its Continue
  may be sent in the middle of it. A Continue whose timer fires is not looked at
  again, so the thread may get two (shim 2390-2412). A forced clear may drop an
  entry newer than the one it is about (shim 4401).
* A thread outside the snapshot of a usage-limit batch that completes is ignored
  (shim 4694).
* A first version that is requested after the sync was stopped and pruned creates
  the sync anew (sharing service 1055).
* After the return of some accounts the lease stays `return_pending`, as it does when
  the return could not be sent or the borrower stopped between recording it and
  sending it (sharing service 856, 860); expiry passes over it (2338-2344), and what
  is left is removed at the next start only, without a return (1918-1920), against
  the comment "Reconcile this metadata without touching OAuth credentials" (1902): a
  credential the borrower has renewed is lost with it. The owner, at its own start
  past the lease's time, takes the accounts back, be they in use at the borrower
  (1924-1933). Why `OneSideUses` and `CredentialKept` except these.
* An owner restarted between storing what came back and recording it stores it
  again; it finds no account marked, and its lease stays "shared". What it has
  renewed meanwhile is overwritten.
* A refused import whose failure was not acknowledged is
  acknowledged as completed at the next poll (1995-1998), and the owner's accounts
  stay lent. When a cancelled share's acknowledgement is not answered, the
  borrower keeps the accounts.
* `setExecutionEnabled(false)` between the run lock of a wakeup task and the entry
  in `active` does not stop the run (`wakeup/service.ts`).
* A host that has slept releases the run lock of its successor, by path; recovery
  then shows the successor's run as interrupted while it goes on
  (`wakeupStore.ts` 423): why `InterruptedMeansGone` excepts it.
* A job whose result cannot be written is removed all the same
  (`localImportInbox.ts` 201-209). When its lease has run out a job may be
  processed twice, and the second import, which finds no file, replaces
  "completed" by "failed".
* An imported account is taken out of the pool by an index that may be five
  seconds old, and by the pending save of another host put back: its credentials
  are candidates while they are verified (`storage/accounts.ts` 995, against
  `docs/LOCAL_IMPORT_INBOX.md:31`).
* A host whose cached index still names the previous account answers a signal by
  switching the runtime back to it (`quota.ts` 402), against the comment "converge
  its stopped conversation to a decision made elsewhere"
  (`schedulerRegistration.ts` 206-207); the cache lives for five seconds, the
  monitor polls every two. Two such hosts may pull the runtime back and forth:
  why `RotationEnds` bounds these polls.
* "Do not let a quota batch or retry from the previous account trigger another
  switch" (comment in `accountsWorkbench.ts`) does not reach a decision another
  host is about to carry out.
* While a promoted shim waits for the `initialize` it makes itself,
  `initializeForwarded` is not set: the `initialize` of a window that attaches then
  goes to the same app-server (shim 593, 1505). If the app-server refuses the
  second, that error is kept as the answer to every later one (shim 1221). Why
  `ServedOnce` counts the calls of windows only.
* When a window closes, its routes are dropped and the requests of the app-server
  it was to answer are not answered by anybody (shim 1660). The answer to a request
  of a dead owner is passed on to the next one, which takes it for its own request
  of that id (shim 415-431, 1556).
* A switch asked for by a window whose marker of the runtime account is behind
  names a wrong previous account (`hotSwitchRuntime.ts` 513, against
  `docs/HOT_SWITCH.md:148`).
