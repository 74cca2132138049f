# Verification of the GMV Max control plane

Tiktok-OPS is a FastAPI back end with Celery workers, MySQL and Redis that runs TikTok advertising
accounts for several tenants. Most of it moves data. The part whose correctness depends on the
order of events is the **GMV Max control plane**: automatic Guards, operators, a queue of durable
pauses and fact synchronisations all change the same campaigns, through an API that has no
transactions. Beside it, a Celery beat fires the schedules of the database, requests start
single syncs of a TikTok binding, and video tasks share a pool of browser accounts. This directory holds TLA+ models of these parts, TLC
configurations that check them on small instances, and TLAPS proofs of their safety for any
instance. Paths below are relative to `src/backend/app/` unless they start with `src/`.

## Inventory

| Component | State it keeps | Operations | What makes it correct |
|---|---|---|---|
| Mutation lease, `gmvmax/services/mutation_execution_lock.py` | the lease object in the session's `info` | acquire (standalone or nested), assert_current, commit, release | one official mutation at a time; a superseded one commits nothing; everything is released or expires |
| Durable action leases, `features/tenants/ttb/gmv_max/control.py` (`GMVMaxGuardActionLease`) | owner, fencing token, expiry per scope | acquire, assert, release | a token is never granted twice; only the exact generation is freed |
| Redis lock, `services/redis_locks.py` | key with TTL; acquired and lost flags; heartbeat thread | acquire, verify, heartbeat, release | no heartbeat outlives its lease |
| Account sync fence, `gmvmax/services/sync_execution_lock.py` | one row and one key per account | claim, assert_current, release | facts are committed only by the newest generation |
| Guard cycles and fact syncs, `tasks/ttb_gmvmax_tasks.py` | a lease each | run, finish, fail | every exit gives both locks back |
| Manual pauses, `control.py`, `router_provider.py`, `tasks/ttb_gmvmax_tasks.py` | override row, pause intents | queue, claim, defer, complete, fail, cancel, scan | an executed pause is respected; a pending one is executed or visibly ends; a hold is no dead end |
| Smart Guard, `services/gmvmax_smart_guard.py` | cooldowns, decisions | decide, pause, enable, rebuild | re-checks the hold inside the lease |
| Manual pause reconciliation, `gmvmax/services/manual_pause_reconciliation.py` | observation counter on the override | observe | releases an executed hold only after two newer ENABLE observations |
| Create intents, `features/tenants/ttb/gmv_max/service.py`, `router_provider.py`, `gmvmax/services/create_intent_recovery.py` | intent states, quarantine mark on the strategy | prepare, submit, resume, finish, scan | one campaign per key whatever is lost, late or repeated; an interrupted one is not left running |
| Creative Guard, `services/gmvmax_creative_guard.py` | phases in the intent | pause the old campaign, create, finish, quarantine, compensate | old and new campaign never run together; a manual pause stands; a paused campaign is restored |
| Database scheduler, `celery_scheduler/db_scheduler.py` | schedules, runs, next windows | tick: misfire, dispatch, publish, advance | a window is fired once; a due schedule moves on; a run precedes its message |
| Sync dispatch, `services/ttb_sync_dispatch.py`, `tasks/ttb_sync_tasks.py` | runs, idempotency keys, the Redis key of a binding | dispatch, run, report, retry | one sync of a binding at a time; a known key starts nothing; a report stands and comes |
| Doubao pool, `services/doubao_provider/pool.py`, `tasks.py`, `capability.py`, `tasks/doubao_lab_tasks.py` | one row per account: lease, browser marker, verdict, cool-down | claim, renew, mark accepted, release by verdict, sweep, probe, switch | a browser Profile has one user; leases come back |
| AI video, `tasks/ai_video/video_tasks.py` | the task: status, account, accounts that failed it, retries | submit, rotate, recover, poll, deliver, supersede, retry | a task settles or the pool has nothing for it |
| AI routing, Website Ads, Hermes, TikTok Shop, onboarding, policy engine, front end, bridge agent | rows per task | see `PROJECT.json` | not modelled, see below |

**Interaction.** A Guard cycle holds the global scope (Redis key and durable row) and opens one
nested mutation at a time in its own session. A web request or control worker opens a standalone
mutation: global row, account Redis key, account row, each committed. Around the call to TikTok the
mutation proves both rows `FOR UPDATE` and keeps these row locks in its open transaction until it
commits. Releases run in a second database session. A pause that finds the lease taken becomes an
intent plus a `PENDING_PAUSE` hold; a worker on the queue `gmvmax_control` claims it for 90 seconds
and runs the ordinary pause; a scanner runs every 30 seconds. A sync of the catalogue, under the
fence of the account, releases the hold of a campaign it finds enabled twice. A create request and a
rebuild of the Creative Guard take the same lease, and store an intent row before, and after, each
official call; a periodic scan takes the lease for every intent that was left behind. The beat
stores a run, commits it, publishes its task and moves the schedule on; workers mark the run. A
request for a single sync stores and publishes a run in the same order; its worker takes a Redis key
per binding, and Celery publishes a failed task again. A delivery of a video task claims an account
of the pool and commits, drives that account's browser without a transaction, and writes the row
back; further deliveries poll the accepted task under the same lease. A beat sends probes to
accounts whose capability is unknown, through the same leases.

**Hard behaviour.** Keys and rows that expire under a running owner, takeovers, stale `finally`
blocks, lost Redis replies, row lock waits that time out (also on the request's own locks), a
release and a proof that lock rows in opposite orders, process deaths, claims that are not renewed,
workers that learn too late that they were superseded, snapshots read before a commit of someone
else, a create call whose outcome is unknown, beats that overlap or die between two commits, tasks
that are delivered twice or retried while an earlier attempt still writes, rows written back minutes
after they were read, claims that do not see locked rows. `PROJECT.json` lists each
at its line under "hazards" with the property that watches it.

## Modules

| Module | Contents |
|---|---|
| `FencedGenerations` | the abstract promise: per account a growing sequence of generations of which only the newest writes |
| `MutationLease` | Redis keys, lock objects, lease rows, row locks and the three kinds of execution |
| `MCMutationLease` | constants for its runs |
| `MutationLeaseProofs` | theorems about `MutationLease` and the refinement of `FencedGenerations` |
| `PauseIntent` | override, intents, workers, scanner, operators, Guards and catalogue syncs of one campaign |
| `MCPauseIntent` | constants for its runs |
| `PauseIntentProofs` | theorems about `PauseIntent` |
| `ProductClaims` | the abstract promise of campaign creation: one open claim per product, one campaign per claim |
| `DurableCreate` | what all creation shares: the create call of the service, the safety pause, the recovery scan |
| `CreateIntent` | the router's create request around `DurableCreate`, the campaign it replaces, users; implements `ProductClaims` |
| `CampaignRebuild` | the Creative Guard's rebuild around `DurableCreate`: phases, compensation, holds and permission; implements `ProductClaims` |
| `DurableCreateProofs` | what both creation workflows share of their invariants, and the lemmas about it |
| `CreateIntentProofs` | theorems about `CreateIntent` and the refinement of `ProductClaims` |
| `CampaignRebuildProofs` | theorems about `CampaignRebuild` and the refinement of `ProductClaims` |
| `DbScheduler` | overlapping beats, schedules, runs, messages, users and tasks |
| `DbSchedulerProofs` | theorems about `DbScheduler` |
| `SyncDispatch` | requests for single syncs of one binding, their runs, messages, workers and the Redis key |
| `SyncDispatchProofs` | theorems about `SyncDispatch` |
| `AccountPool` | accounts of the Doubao pool, the video tasks that use them, and probes |
| `AccountPoolProofs` | theorems about `AccountPool` |
| `MCCreateIntent`, `MCCampaignRebuild`, `MCDbScheduler`, `MCSyncDispatch`, `MCAccountPool` | constants for their runs |

Definitions marked "Mutant" are not used by the specifications. Each is a plausible bug in one
definition and exists to show that a property notices it; `PROJECT.json` pairs them.

### MutationLease

| Variable | In the code |
|---|---|
| `redis` | value of the Redis key of a scope |
| `lock` | `_acquired` and `_lost` of the execution's `RedisDistributedLock` |
| `row` | committed `gmvmax_guard_action_leases` row: owner, fencing token, not yet expired |
| `rowLock` | who holds the InnoDB lock of that row: the execution's main session or its release session |
| `renewed` | rows whose new expiry is flushed but not committed |
| `token` | fencing tokens handed to the execution |
| `pc`, `answered` | where the execution is, and whether its remote call has returned |
| `written` | the generation under which an account's facts were last committed |

An action is what happens between two points where another process can interfere: one Redis
command, one database transaction that does not outlive the action, or one locking read that does.
Operations with a timeout have a second action for the timeout (`ClaimFails`, `ProofLockWaitFails`,
`ReleaseLockWaitFails`, `GiveUpRedisKey`). Time is abstract: an unexpired lease or key may expire at
any moment, so every stalled process and missed heartbeat is covered. Each execution is used once,
because its owner token is a fresh uuid.

Three choices deserve a note. The proofs after the call and in `commit()` are one step, because
they run in one transaction that already holds both row locks. Lease rows exist from the start with
fence 0. The bypass of the global lease is absent, because its condition is never true;
`LeasePause.cfg` shows what follows from that.

### PauseIntent

| Variable | In the code |
|---|---|
| `intent` | `gmvmax_campaign_pause_intents`: status, `lease_owner`, lease not yet expired |
| `override` | `gmvmax_campaign_manual_overrides` row of the campaign: type, `active` and `external_enable_observation_count` |
| `holder` | the mutation lease of `MutationLease`, reduced to who is inside; `Stale` is a lease left to its TTL |
| `pc`, `claim` | where each execution is; the intent a worker runs |
| `seen` | the override in the REPEATABLE READ snapshot of the execution's transaction |
| `scanned` | the scanner has read a hold and not yet created the intent |
| `sync` | where a catalogue sync is with the campaign: it has noticed an active intent, lists, has listed, has seen a newer ENABLE |
| `outside`, `wrong` | at TikTok, since the last executed pause: the campaign was enabled; a listing wrongly said so |

The reduction to `holder` rests on what is proved about `MutationLease`: calls never overlap
(`SerialRemoteCalls`) and a call in flight owns the newest generations (`RemoteOwnership`), so no
second execution gets between a holder's first read and its commit. An execution whose lease
expires while it only reads is stopped by its next proof, which is `BodyRaises`. `LeaseBusy` is not
possible while a holder's call is in flight, because the contender then waits for a locked row; that
wait ends in `AcquireFails` or after the commit.

The snapshot matters: sessions do not expire objects on commit and flush only attributes that differ
from what was read (`Flushed`), and the override is read without a lock, whereas intents are read
`FOR UPDATE`. The engine sets no isolation level, so MySQL's default applies.

A sync reads the active intents in the snapshot of its transaction and locks the override until it
commits, so observing and committing are one step (`Reconcile`). Whether a listing is an observation
depends on ages (the change at TikTok is newer than the pause, two minutes of grace, one minute
between two listings); the model leaves that to a choice. What the rule of two observations is there
for is one listing that is wrong: `List` admits one per pause, and none more. `Queue` and `Fail` are
one step each. In the code a click may read the override before such a sync commits and write it
after; then the ORM leaves `active` alone and the pause runs without a hold before it.

### DurableCreate, CreateIntent and CampaignRebuild

| Variable | In the code |
|---|---|
| `intent` | `state` of the row of `gmvmax_campaign_create_intents` for a key, "none" without one |
| `made`, `late`, `running` | at TikTok: campaigns with the key's marker, calls it may still carry out, enabled campaigns |
| `strategy` | the local strategy of the new campaign: none, marked as quarantined, or open to its editor |
| `holder`, `proved` | the mutation lease as in `PauseIntent`, and whether the open transaction has locked its rows |
| `pc`, `target` | where a request, cycle or scan is, and the key it works on |
| `sourceOn` | the campaign that is to be replaced is enabled at TikTok |
| `phase`, `permitted`, `held`, `timely` | rebuild only: the checkpoint in the intent, the strategy of the old campaign, manual pauses, and whether the frozen schedule is far enough ahead |

An action ends at a commit or at the answer of an official call. A call that raises may have taken
effect, or may take effect later (`late`). A lease may lapse under a living execution, but not while
`proved`, because its rows are locked then. Acquiring the lease expires everything the session has
read (`db.expire_all()`), so what is read afterwards is current and no snapshot is modelled. The
router proves its own status calls only after they were answered (`AnsweredThenProved`), the
Creative Guard and the scan also before (`holder = e` in their guards). Listings of campaigns at
TikTok are complete when they succeed; a read that fails is a disjunct of its own
(`NotConfirmed`, `CreateRaises`). In a rebuild there is one key per old campaign; a rebuild on
another day is another key.

`CreateIntent` implements `ProductClaims` by `ClaimOf`: an intent is an open claim in exactly the
states in which the code holds its products. In `CampaignRebuild` the create service may end an
intent (`FAILED_TERMINAL`) that the cycle then reopens to compensate for. Its `ClaimOf` therefore
ends a claim only when nobody can do that any more: as long as the cycle whose create call was
refused still has the lease (`Reconsidered`), the claim is open. That this is sound, that no claim
of the same products gets in between, is what `ImplementsClaims` says there.

### DbScheduler

| Variable | In the code |
|---|---|
| `next`, `enabled` | `next_fire_at` and `enabled` of a schedule |
| `runs` | `schedule_runs` by schedule and idempotency key, i.e. window |
| `sent` | messages published for a run; 2 stands for more |
| `failed` | windows whose run was ever marked as failed (history) |
| `beat` | a tick: its time, rows left with their windows, snapshot, uncommitted updates and inserts |

Windows are numbers. The run states enqueued, running, success and partial are one, because each of
them uses up the window and a message that is acknowledged late can execute any of them again
(`Restart`). A crontab is a fixed period. A failed flush ends the tick: the handler's own access to
`row.id` and the last commit raise on the unusable session. Ticks without a due row stutter. The
deployment has one beat; the second stands for the overlap of an old and a new process.

### SyncDispatch

| Variable | In the code |
|---|---|
| `run`, `age` | committed status of a `schedule_runs` row, and how old the row is: below 15 minutes, below a day, more |
| `pc`, `sent` | where a request is; the runs whose message the broker has accepted |
| `queue` | messages at RabbitMQ, as run and attempt |
| `work` | a worker's delivery: step, run, attempt, the status its session has read, whether it has flushed the row |
| `lock` | the binding's Redis key; `Stale` is a key left to its TTL |
| `repeated`, `lost` | history: runs delivered twice; runs whose last message ended without a word to the row |

"running" is set in the session and never committed, because the commit comes after the final status
is set; but a flush in between locks the row, so that others wait (`RowFree`). What a session writes
is a status that differs from the one it read (`Written`). The Redis key is given back before the
commit. Celery and RabbitMQ are external and follow `celery_app.py`: a task is acknowledged when it
is over, comes again when its worker or connection is lost, does not when the hard time limit killed
it, and a retry is published before the hook `on_retry` runs. Messages of one run and attempt count
as one, and "partial" is not told apart from "success".

### AccountPool

| Variable | In the code |
|---|---|
| `row` | an account: the lease and whether it has expired, the browser marker and its acceptance, health (capability, verdict and cool-down), whether it is switched on, its newest probe |
| `pc`, `bind`, `failed`, `tries` | a task: status and place of its worker, its account, the accounts that failed it, retries |
| `copy` | the row as the worker has read it before a call of minutes, and will write it back |
| `probe`, `target` | where a capability probe is, and its account |

Row locks last for one statement or one short transaction, so they appear only in what a claim can
see: `FOR UPDATE SKIP LOCKED` skips rows that somebody has locked, hence a claim looks at some subset
of the accounts (`seen`). A lease that has expired stays in the row until somebody clears it
(`Current`, `Sweep`). `Late` is the set of tasks and probes that may go on using a Profile after
their lease has expired; empty means that renewals and time limits are kept, which the code intends
(20 minutes against a submission of at most 10, 5 minutes against a probe's time limit) and does not
check. Each task has one worker at a time, because the ownership of deliveries is left out. A probe
is used once, its id being fresh. The device an account runs on, the order among usable accounts and
membership do not matter to the properties.

## Runs

All bounds are sets of executions and: in `PauseIntent`, `MaxCrashes` and the number of rows; in
`DurableCreate`, `MaxCrashes` and `MaxLapses` (leases that lapse under a living execution); in
`DbScheduler`, `MaxTime` and `MaxEvents` (deaths, refused messages, failed tasks and switches); in
`SyncDispatch`, `Retries` (Celery's 3, here 1) and `MaxFaults` (every loss, lapse and failed call
but the failure of a sync itself, which is free); in `AccountPool`, `MaxTries` (automatic and manual
retries of a task, here 1) and `MaxEvents` (deaths, supersessions, users). `CHECK_DEADLOCK FALSE` is used where all requests
are single-use and the system rightly stops.

| Run | Instance | Shows |
|---|---|---|
| `lease_guard` | cycle with nested mutation, manual pause, two accounts | no token granted twice; a call in flight owns both scopes; calls are serialized across accounts |
| `lease_pairs` | a mutation that meets a second mutation or a sync, one account, fair | heartbeats end; the row lock cycle is harmless; facts never regress; refinement of `FencedGenerations`; a stale release frees nothing; everyone who starts ends |
| `pause_hold` | two pauses, enable, two workers, Guard, no sync, two rows, one crash; symmetric in pauses, workers and rows | types; the Guard respects an executed pause; an intent ends once |
| `pause_worker` | pause, enable, one worker, Guard, one sync, three rows, one crash, fair | a sync releases only the hold of a campaign that was enabled; a succeeded intent left the campaign held; a pending hold is no dead end |
| `create_claims` | two keys with a common product, one replacing a campaign, two requests, the scan, one crash, one lapse, fair | refinement of `ProductClaims`; the replaced campaign stays paused; quarantined and unfinished campaigns are paused and marked; success is complete; an interrupted create settles |
| `rebuild` | one key, a cycle, the scan, a user, one crash, one lapse, fair | old and new campaign never run together; nothing created is unaccounted for; quarantine holds; manual pauses stand; refinement of `ProductClaims`; compensation ends |
| `schedule` | two beats, an interval and a one-off with a window at 0, three instants, one event, fair | a window is published once; a run precedes its message; a one-off that was switched off left a run; due schedules move on unless a missed window has a run |
| `sync_products` | two product syncs of one key, two workers, one retry, one fault; symmetric in both | one sync at a time unless a heartbeat failed; an accepted run has its answer or somebody who will give it, or is lost in a named way; a repeated request starts nothing; a reported success stands |
| `sync_reported` | one sync, two workers, one retry, two faults, fair | a run whose message was accepted is reported, or its last message was killed or could not be reported |
| `pool` | two accounts on one lane, one probe, one task or (with one account) two, one retry, one event, fair | a Profile has one user; a live lease is ended by its holder only; no lease is held for ever; a task settles unless the pool has nothing for it |

Why the bounds are enough to be interesting: the lease protocols are pairwise. Every interference
the code guards against is between an owner and one successor, and two executions on a scope with
unlimited expiry, lost replies, lock timeouts and crashes produce all of takeover, stale release,
lost heartbeat and mutual lock wait. A third execution is present where its kind differs (a cycle as
host). What the small instances leave open is closed by the proofs for any number of executions and
accounts. For pauses, two workers on one intent are what the 90 second claim can produce, and two
operators what a change of mind produces; three rows let an intent be cancelled,
recreated by the scanner and cancelled again; the sync comes again and again, so that its
observations span several pauses. For creation, a repeat of a key by a second request
after a crash, a lapse, a lost and a late reply, with the scan in between, is what the intent states
exist for; the second key is there for the product scope, one of them for the whole shop. A rebuild
is the work of one cycle at a time, and all its rivals (scan, user, late call, time) are in the
instance. For the beat, a window, its grace period and the window after it fit into three
instants, and an event on top of an overlap is what the unique key is for. For single syncs, one
retry lets an attempt and its successor write the same row, the second worker takes what was
delivered again, and the second fault lets a report fail after a key was left behind. For the pool,
two tasks compete for one account, or one task rotates between two, each time beside a probe; one
event is a death between claim and acknowledgement, or a user who retries a task that left a lease
behind, and one retry brings a task back to an account that has changed hands.

### What the code does not do

Two runs check a statement of a comment or message and end with a counterexample; the findings in
`PROJECT.json` quote the line.

- `pause_forgotten`: a worker that was superseded by an operator's direct pause, and then fails,
  clears the hold of that executed pause.
- `cron_never_fires`: a crontab schedule is created without a next window, every tick computes one
  that lies ahead, and none stores it; no crontab schedule ever fires.

Further configurations reproduce disagreements that are known and are not part of the standing runs.
Each checks one property with `tlc -config X.cfg M` and ends with a counterexample.

| Configuration of module | Property | What the code does | What is said |
|---|---|---|---|
| `LeaseCycleLock` of `MCMutationLease` | `AcquiredCycleAlwaysReleasesLock` | a cycle whose durable acquire raises keeps Redis lock and heartbeat for ever | the test of that name, `src/backend/tests/test_gmvmax_smart_guard_task_lock.py:36` |
| `LeasePause` of `MCMutationLease` | `PauseWaitsForItsAccountOnly` | a manual pause waits for Guard cycles of other accounts | `router_provider.py:415` |
| `PauseCancelled` of `MCPauseIntent` | `CancelledPauseNeverRuns` | a worker that claimed before an enable cancelled the intent pauses after it | `control.py:741` |
| `PauseDropped` of `MCPauseIntent` | `QueuedPauseOutlivesEarlierEnable` | an enable cancels a pause that was queued after the enable had begun | `router_provider.py:538` |
| `CreateLocked` of `MCCreateIntent` | `HeldSourceCanBeFreed` | a create that failed for good still holds the campaign it was to replace, for ever | `router_provider.py:2432` "Resume the original create request", against `service.py:1430` "Start a new logical create" |
| `CreateUnfenced` of `MCCreateIntent` | `QuarantineHolds` | the router enables a new campaign without a proof before the call, also one that was quarantined after a lapse of the lease | `mutation_execution_lock.py:1` "every official GMV Max mutation" |
| `LeaseBusy` of `MCMutationLease` | `BusyMeansInProgress` | after a failed call the release waits for its own request's row locks, gives up, and the lease stays busy until it expires | `router_provider.py:427` "A GMV Max sync or action is in progress; retry shortly." |
| `ScheduleStuck` of `MCDbScheduler` | `SchedulesMoveOn` | a window that was missed by more than the grace period, and has a run already, fails every tick at the unique key, with the updates of all other schedules | `db_scheduler.py:441` "若 next_fire_at 还是过去时间，推进一下避免卡住" |
| `SyncSpacing` of `MCSyncDispatch` | `ProductsAreSpaced` | the limits are read before either of two requests has stored its run, so two product syncs pass and both execute | `common.py:736` "Ensure that product syncs are not executed concurrently or too frequently." |
| `SyncInProgress` of `MCSyncDispatch` | `InProgressIsTrue` | a run that was committed and never published refuses every product sync for a day | `common.py:789` "A GMV Max product sync is already running for this combination." |
| `SyncRefused` of `MCSyncDispatch` | `RefusedByAnother` | a task that is delivered again is refused by the key its dead worker left, and ends as failed without a retry | `ttb_sync_tasks.py:523` "another sync job running for this binding" |
| `PoolLane` of `MCAccountPool` | `LaneFence` | a claim does not see an account whose row is locked, and opens a second browser on its lane | `pool.py:716` "network lane fence" |
| `PoolStray` of `MCAccountPool` | `NothingStrays` | a task that rotates into a busy pool is deferred with a `doubao-local-` identity that is neither local nor remote, and fails for want of a binding | `tasks.py:789`-`799`, whose reset serves the other case |
| `PoolWaits` of `MCAccountPool` | `RouteAdvances` | a task that every account has failed is deferred as "pool unavailable" over and over | `tasks.py:820` "so unified routing can immediately advance" |
| `PoolDisabled` of `MCAccountPool` | `DisableStands` | a worker's old copy of the row, or a successful probe, enables an account that a user has disabled | `capability.py:91` |
| `PoolLate` of `MCAccountPool` | `OneProfileUser` | a probe compares the lease's name, not its expiry, and may run beside a task that has claimed the account | `doubao_lab_tasks.py:487` |

In `PoolWaits`, `PoolStray` and so on, files without a directory are those of
`services/doubao_provider/`. Three more gaps are in the models without a property: a Guard that dies between the service's
`FAILED_TERMINAL` and its own `COMPENSATION_PENDING` leaves the old campaign paused, a beat
that dies between the run's commit and the message loses that fire, and a retry hook that comes late
sets a finished run back to "enqueued" (`OutcomeStands` excepts it, `lost` records it).

`SucceededPauseIsHeld` is checked with one control worker. With two it fails in the way
`pause_forgotten` shows, and in no other: `SuccessIsHeld` proves it for any number of workers as
long as none fails while another owns an intent.

## Fairness

`FairSpec` of `MutationLease` assumes that a running thread goes on: weak fairness of each
execution's own steps, where a lock wait always has the timeout as an alternative, and of giving up
on a Redis key, which has a deadline. Starting tasks, expiry and crashes are not fair.

`FairSpec` of `PauseIntent` adds deliveries and the scanner's schedule (weak), expiry of claims and
leases (weak), and strong fairness of a worker's own attempt: entering, calling, being answered and
committing. The code justifies the last with its retries: conflicts and lost fences are retried
every two seconds without limit, other failures are counted and end in `Fail`. `PendingHoldEnds`
further supposes that Guards and syncs do not take the lease over and over; both start periodically
and the code gives a pause no way to overtake them, so the supposition is stated in the property. A
sync that has begun goes on (weak); starting one, and enabling the campaign at TikTok, are not fair.

`FairSpec` of `CreateIntent` and `CampaignRebuild`: an execution that has begun goes on (weak), and
the periodic scan, or cycle, comes round to every candidate (strong, because others hold the lease
in between; the code tries again at every period). That its reads, its pause or its compensating
call succeed in the end is strong fairness of these steps: both retry for ever, without a counter.
Users, requests, crashes and lapses are not fair. `FairSpec` of `DbScheduler`: beats tick for ever
(systemd restarts them) and time passes.

`FairSpec` of `SyncDispatch`: a worker with a task goes on (weak; a sync ends or its soft time limit
ends it, and a wait for a locked row times out), every message is taken (strong, because workers are
busy in between; the queue is first in, first out), and keys expire. Requests, faults and deaths are
not fair.

`Fairness` of `AccountPool`: a task's deliveries come again after every delay (weak), and the wait for
a remote result is bounded by the clock (strong fairness of `RemoteExpires`, since polls come and go
in between). A probe that was sent starts and ends (weak); sending one is not fair, so an untested
account may wait for ever. Cool-downs end, and expired leases are cleared by the beat (weak).

## Proofs

`MutationLeaseProofs` proves, for every set of executions and accounts:

| Theorem | Statement |
|---|---|
| `TypeCorrect` | `[]TypeOK` |
| `LeaseInvariant` | the inductive invariant `LeaseInv` |
| `DistinctTokens` | no fencing token is granted twice |
| `RemoteOwnership` | a call in flight owns the newest generation of both scopes |
| `SerialRemoteCalls` | two calls are never in flight together |
| `Refinement` | `MutationLease` implements `FencedGenerations` |
| `WritesGrow` | facts are never overwritten by an older generation |
| `ExactRelease` | only the owner gives a generation back |
| `HeartbeatEnds` | an execution that is over has given its Redis lock object back |
| `CycleIsHarmless` | aborting a release that waits in a circle with a proof leaves no global lease held |

**The argument.** `RemoteOwnsBothScopes` is not inductive: an execution in "remote" would have to
know that nobody can take its rows. `LeaseInv` adds what the code relies on without saying so:

1. a granted token is at most its row's fence, and a row's owner holds exactly that fence
   (`TokensBounded`), so the next grant is fresh and `TokensDistinct` is preserved;
2. a mutation past its global proof still holds the global row lock, and its host still owns that row;
3. a mutation in its call holds its account's row lock and still owns that row;
4. an execution between the two halves of its release holds the account row lock in its second
   session.

A row changes hands only in steps that find it unlocked, so 2 and 3 survive everybody else's steps,
expiry and crashes. Serial calls follow from 2 alone, because a row lock has one holder: it is the
database lock of the open transaction, not the lease, that serializes the calls. The refinement and
`WritesGrow` follow from the account row being proved and committed in one transaction.

The proof is laid out by action: `TypeStep`, `TypeMutationStep` and `TypeEnvironment` for types,
then `InvStep`, `InvMutationStep` and `InvEnvironment`, each resting on a few lemmas about the
building blocks (`RowStep`, `DropStep`, `LockStep`, `GrantStep`, `FreeStep`). The last two theorems
have invariants of their own: where an execution may stand while it still holds its lock object
(`HeartbeatInv`), and that nobody but a mutation locks the global row in its main session
(`GlobalLockInv`).

### The other modules

| Module | Theorems | Inductive invariant |
|---|---|---|
| `PauseIntentProofs` | `TypeCorrect`, `GuardKeepsAway` (`GuardRespectsExecutedPause`), `OutcomeIsFinal` (`IntentEndsOnce`), `ReleasesAreDeserved` (`ReleaseIsDeserved`), `SuccessIsHeld` and `OneWorkerHolds` (`SucceededPauseIsHeld`) | `IInv`, `HoldInv` |
| `CreateIntentProofs` | `TypeCorrect`, `ReplacedStaysPaused`, `MarkStays` (`UnfinishedIsMarked`), `QuarantineIsPaused`, `FinishedIsOpen` (`SuccessIsComplete`), `KeepsClaims` (refinement of `ProductClaims`) | `IInv` over `CreateInv` |
| `CampaignRebuildProofs` | `TypeCorrect`, `OneOfTwoRuns` (`NeverBoth`), `EverythingAccounted` (`NothingUnaccounted`), `QuarantineIsPaused`, `PausesStand` (`ManualPauseStands`), `RebuildKeepsClaims` (refinement of `ProductClaims`) | `RInv` over `CreateInv` |
| `DbSchedulerProofs` | `TypeCorrect`, `RunsComeFirst` (`RunBeforeMessage`), `FiredOnce` (`OncePerWindow`), `OneoffsLeaveRuns` (`OneoffLeavesRun`) | `SInv`, `OffInv` |
| `AccountPoolProofs` | `Typed`, `MarkersBelong` (`BrowserOnlyWithLease`), `OneUser` (`OneProfileUser`), `TimelyUsersExclude`, `LeasesStand` (`LeaseStands`) | `Sound`, `Held` |
| `SyncDispatchProofs` | `TypeCorrect`, `SyncsExclude` (`OneSync`), `Idempotence` (`RepeatStartsNothing`), `ReportsStand` (`OutcomeStands`), `EveryRunIsInHand` (`NoRunFallsSilent`) | `KeyInv`, `RunInv`, `CopyInv`, `AnswerInv` |

Each holds for any number of requests, workers, Guards, syncs, keys, products, beats or schedules,
and for any bound on crashes, lapses, time, events, retries and faults.

**Pauses.** A Guard reads the override once, in the snapshot of its transaction, and acts on it much
later. `GuardSaw` says that what it saw stays good: only an execution inside the lease executes a
pause, `InsideOwns` says that whoever is inside is the holder, and a Guard's snapshot is taken
inside. `RowsStay` is needed because the override is updated in place and never deleted, so what was
seen once as an executed hold can be released but cannot vanish. For `ReleaseIsDeserved`, `CountInv`
says that an observation of the present pause was a true enable or the one wrong listing, which then
shows in `wrong`: a pause resets the count, also through the ORM's partial write, because no sync
counts while a pause holds the lease.

Between the commit of a pause and that of its intent a worker is outside the lease, and operators,
Guards, syncs and the scanner go on. `HoldInv` says what lasts through that: there is one active
intent; while its owner is inside, the override is the one it has read or a pending hold that was
queued since, either of which its pause turns into a hold; and once it has committed, the campaign
is held and no sync stands where it could release it. An enable cancels the intent, so its owner owns
it no more. One step breaks `HoldInv`: the failure of a worker that was superseded, which clears the
hold of whoever came after it. `FailsAlone` excludes exactly that step; with one worker it is true by
itself (`OneWorkerHolds`).

**Creation.** `CreateInv` is shared, since both workflows run the same service code. It has one
conjunct per key (`KeyOK`: what the intent's state says about campaigns made, late calls and the
strategy) and one per execution (`ExecOK`: where an execution is determines what it has read and
still owns). `CreateIntent` adds `Sole`, `Quiet` and `Lively`, which hold up to the first lapse of a
lease: who works owns the lease, what is quarantined or about to be is paused, and what has
succeeded or is about to runs. Refinement is shown step by step (`ClaimsStep`): every
transition is a claim, a creation, a release or a stutter of `ProductClaims`. `CampaignRebuild` adds
what the phase says about the old campaign (`SourceOK`) and what a cycle may rely on between its
checks of a hold and its call (`GuardOK`). Its refinement (`RebuildKeepsClaims`) has one lemma per
group of steps, of which the hard ones are those that end a claim: an intent that the create call
has ended is reopened only by the cycle that still holds the lease, and a claim is made only by
who holds it; when that cycle lets go of the lease, or it lapses, the claim is refused for good, and
`CreateInv` says that nothing was or will be made under it. The run has one key; clashes of several
keys are the theorem's part, which has no bound on them.

**The beat.** `SInv` describes what a beat that is not at rest knows: the schedules it has yet to
treat, the windows it computed from a snapshot that others may have overtaken (`ViewOK`), and which
of its inserts own their unique keys (`KeysOK`, `Exclusive`). A window's second publication would
need a second insert under its key, which the unique index refuses. `OffInv` adds what a beat remembers of
a one-off between its flushes: that it is to be switched off only if the run of its window is stored
or is inserted by the flush that switches it off, so that a rollback undoes both or neither.

**Single syncs.** `KeyInv` says that a sync owns the key of its binding until its own heartbeat
fails: the key is deleted by its owner only. `RunInv` says what a request has done before its
message is out, so that a later request finds the run. `CopyInv` counts: a run whose message was
never delivered twice has one message or one worker that may still report, and neither once it has
succeeded. Every step of workers and the broker is first reduced to what it does to messages and
runs (`Effect`, or `Doubled` if a message comes again), and the invariants are shown for these two.
`NoRunFallsSilent` is not inductive: a worker that found an answer when it read its run writes none,
and would be counted as the one who gives it. `AnswerInv` counts a worker only if it is going to
write (`WillWrite`). Whoever takes an answer back either executes the run again, and will write, or is
a late hook, which hands the run on or is recorded in `lost`.

**The pool.** `Sound` says that a browser marker belongs to the lease beside it, in every row and in
every worker's copy of a row. `Held` says that whoever uses an account has a live lease of it, and
that what a worker has read of the row says so too; the second half is what makes a write of
minutes-old data harmless to leases. Each step is shown to keep the live leases of everybody else
(`Keeps`), which gives `LeaseStands` beside `Held`. Both suppose that no task works on after its
lease has expired (`Late \subseteq Probes`): such a task would write its copy over the lease of its
successor. Late probes need no supposition, since a probe looks for its name in the row before it
writes; they break only their own exclusion, so `OneUser` supposes that there are none and
`TimelyUsersExclude` does not.

**Assumptions.** Those named in the modules, and no others: the kinds of execution are disjoint
(`DisjointKinds`, `ExecsDisjoint`, `CreateKinds`, `NobodyIsNoSession`, `SyncKinds`), functions of
the constants are total (`ScopesOfExecs`, `KindOfOperators`, `CreateScopes`, `CreateReplaces`,
`ScheduleKinds`, `ScheduleTimes`), bounds are numbers (`CrashBound`, `CreateBounds`,
`ScheduleBounds`, `SyncBounds`, `PoolBounds`), tasks and probes of the pool differ (`PoolActors`), and
the marks for an absent run or row are none themselves (`NoneIsNoStatus`, `NoRow`).
`BypassIsDead` says why a branch is not modelled; no proof uses it. TLC evaluates all of them in the
runs.

**Only model-checked.** Liveness, because the prover has no fairness rules: `EveryExecutionEnds`,
`PendingHoldEnds`, `CreateSettles`, `CompensationEnds`, `MoveOnUnlessPoisoned`,
`PublishedRunIsReported`, `AccountComesBack` and `TaskSettles`. Everything else the standing runs
check is proved, and type correctness of every module, which only `pause_hold` runs.

## Not modelled

- Data that no property tells apart: metrics, thresholds, budgets, request bodies, audit rows.
- A database connection lost during a call (its row locks would vanish) and the first insert of a
  lease row by two sessions at once.
- The relation of heartbeat interval to TTL: a key may expire at any time.
- The payload of a create request and its hash, authorisation and identity checks; how creatives are
  judged; a second rebuild of a campaign on another day.
- The beat's static entries, its limit of 500 rows, jitter, and the switching off of intervals that
  are too short; time zones.
- The stages inside a single sync, its advisory database lock (`TTB_SYNC_USE_DB_LOCKS` is off) and
  what a run records besides its status.
- The creative 10-minute partitions and the other fact tasks, which repeat the account fence.
- Of the pool: the circuit breaker of a device, membership, login probes, other video providers and
  the choice between them, and the ownership of deliveries.
- Components listed as `not_modelled` in `PROJECT.json`, with the reason for each.

## Plan

1. `MutationLease`, its refinement and proofs. Done.
2. `PauseIntent` with the reconciliation of manual pauses. Done; to come: the full status of the
   campaign at TikTok, clicks and failures that read before a sync commits and write after it.
3. `DurableCreate`, `CreateIntent` and `CampaignRebuild`. Done.
4. `DbScheduler` and `SyncDispatch`. Done but for the parts named above.
5. `AccountPool`. Done; to come: the ownership of deliveries, which a late release of a superseded
   delivery depends on, and the circuit breaker of devices.
6. Proofs. Every invariant and action property of the standing runs is proved; the modules to come
   are to be proved in the same way.
