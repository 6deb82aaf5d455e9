# hive-vm in TLA+

hive-vm rents spare machines to agent workloads. A control plane (a TypeScript
library behind the `hive` command line and an HTTP API) keeps hosts, workloads,
assignments, usage and bills in one SQLite file; on every host a daemon polls
that file for assignments, drives Docker, and meters what runs. This directory
models the parts of it where processes meet: the life of a workload between
control plane, daemon, database and container engine, the way from metered
usage to bills and payments, and the market, in which owners, daemons and
customers change and read hosts, pools, reputations and prices.

All paths below are relative to the repository.

## 1. The system

### Components, state, operations

| Component | Source | State it keeps | Operations |
|---|---|---|---|
| Workload lifecycle | `src/services/workloadService.ts` | table `workloads`: status, host_id, runtime_id, checkpoint_id, rate | spawn, sleep, wake, requeueOnHost, markRunning/Sleeping/Failed/Migrating, setCheckpoint |
| Checkpoint and migration | `src/services/checkpointService.ts` | table `checkpoints` | createCheckpoint, migrateWorkload |
| Assignment queue | `src/services/assignmentService.ts` | table `assignments` | createAssignment, nextPendingForHost, markProcessing/Completed/Failed |
| Host daemon | `src/daemon/hostDaemon.ts` | the batch, the job and the sweep it has read | runOnce, runForever, four handlers, collectMetering |
| Scheduler | `src/services/schedulerService.ts` | none | availableCapacity, placeWorkload |
| Runtime adapters | `src/runtime/*.ts` | the containers (Docker), a map (mock) | launch, stop, status, usage, checkpoint, remove |
| Host registry, pools | `hostService.ts`, `poolService.ts` | tables `hosts`, `pools`, `pool_members` | initHost, setHost, setDaemonStatus, heartbeat, adjustUptime, adjustCompletion; createPool, addHostToPool |
| Metering | `meteringService.ts` | table `usage_events` | recordTick, sums |
| Billing | `billingService.ts` | `billing_line_items`, `host_earnings` | materializeForWorkload, summaries |
| Reputation | `reputationService.ts` | metric and score columns of `hosts` | computeScore, refreshHostScore, updateMetrics |
| Pricing | `marketPricingService.ts` | none | priceForHost, regionPressure |
| Command line, API | `src/cli.ts`, `src/api/server.ts` | none | one process per command; one server |
| Parsers | `src/utils/parsers.ts` | none | units, durations, dates |
| Chain simulator | `bin/hive-sim-chains.ts` | in memory only | settlement dry runs against public RPC nodes |

### How they interact

There is no call from control plane to daemon or back. Everything goes through
the database: the control plane writes the workload's row and then an
assignment; the daemon of that host reads its pending assignments in one query,
executes them one after the other, and writes the outcome to the assignment and
to the row. `checkpoint` and `migrate` also call the container engine from the
caller's process. No operation opens a transaction, and almost every UPDATE is
unconditional (`WHERE id = ?`), so what a process read can be stale by the time
it writes, and what it writes overwrites whatever is there.

### What is hard

* every operation is several statements and awaited engine calls, in processes
  that know nothing of each other (commands, API server, daemons);
* the daemon works from snapshots: the batch of `nextPendingForHost`, the row a
  handler read, the rows of the metering sweep;
* failures in the middle: a launch, a stop, a placement or a statement throws, a
  process dies, a container dies;
* failures that are swallowed: a stop or checkpoint during a migration, an
  inspection that fails and reads as `missing`.

`PROJECT.json` lists the hazards one by one, each at its line.

### What makes each component correct

* **Lifecycle**: a workload in a transient status (`assigned`, `migrating`) has
  somebody who will move it on; transient statuses are left.
* **Queue**: a job is executed at most once and eventually; of two jobs of a host the
  one posted first, in an earlier second, goes first.
* **Migration**: never two live containers of a workload; every live container
  is known; the checkpoint is not forgotten; the workload runs where it moved.
* **Scheduler**: what hosts are told to run fits what their owners allow.
* **Metering**: usage is recorded for the host that ran the container, and no
  faster than time passes.
* **Billing**: line items bill the usage and no more, payments match the line
  items, a host is paid for what ran on it, and a bill that ended half-way is
  repaired by the next.
* **Reputation**: no outcome is lost or counted twice, whoever writes the host's
  row meanwhile; the stored score ends up that of the stored metrics.
* **Pricing**: whatever the demand and the score, a price stays within fixed
  bounds of the host's floor.
* **Placement**: a workload is on a host of the pool it asked for, or on one a migration
  named, within its price cap; a better reputation never loses against a worse one.
* **Registry**: a host is registered once, and editing it leaves its reputation
  alone; pools hold registered hosts.

## 2. The modules

| Module | Models | State |
|---|---|---|
| `HiveState` | the tables, the one-statement operations on them, what a placement reads, the container engine | `workloads`, `assignments`, `checkpoints`, `usageEvents`, `daemonStatus`, `containers` |
| `ControlPlane` | the callers: spawn, sleep, wake, checkpoint, migrate, `host start/stop` | `client` (where each caller is in its call), `calls` |
| `HostDaemon` | the daemon processes | `daemon` (where each daemon is, its batch, job and sweep) |
| `AssignmentQueue` | abstract: what the assignments table promises | `queue` |
| `HiveVM` | the composition, its fairness and the properties | |
| `Billing` | ticks of the daemons, `materializeForWorkload` statement by statement, `hostEarnings` | `now`, `hostId`, `loopAt`, `sweep`, `usage`, `ranOn`, `lineItems`, `earnings`, `biller` (where each process is) |
| `Reputation` | the arithmetic of scores, of adjustUptime and of adjustCompletion | |
| `ReputationLedger` | abstract: what reputations promise | `metrics` |
| `Registry` | owners' calls (`host init/set/start/stop`, `pool create/add-host`) and the daemons' updates of metrics, statement by statement | `registered`, `settings`, `metrics`, `score`, `daemonStatus`, `pools`, `members`, `caller`, `daemon` |
| `Market` | market price, scheduler with its filters and ranking, spawn and migrate as its users | those of `Registry`, and `workloads` |
| `MCHiveVM`, `MCBilling`, `MCMarket` | values for TLC | |
| `FiniteSums` | lemmas on sums over finite sets | |
| `HiveVMProofs` | proof of type correctness, lemmas the other proofs use | |
| `StrandedProofs` | proof that no workload is stranded | |
| `QueueProofs` | proof that the assignments table implements `AssignmentQueue` | |
| `CapacityProofs` | proof that placements fit the hosts | |
| `RuntimeProofs` | proofs of what the control plane knows of the containers, for patient callers | |
| `BillingProofs` | proofs that bills follow the usage, payments the bills, and revenue the host | |
| `MarketProofs` | proofs about prices, placements and reputations | |

`ControlPlane` and `HostDaemon` extend `HiveState` and share its variables;
`HiveVM` interleaves their steps, and instantiates `AssignmentQueue` with the
host, status and assigned_at columns of `assignments` as refinement mapping. `Billing` stands
by itself: of the rest of the system it sees what its queries see, the usage and
the host a row names, both of which change under its feet.

`Market` extends `Registry`, which extends `Reputation`. It is the counterpart of
`HiveVM`: there hosts are constants and the life of a workload is detailed, here
hosts change and of a workload's life only its placements are detailed; the
rest is `WorkloadMoves`, which may do to a placed row's status whatever daemons
and other calls may do. `Market` instantiates `ReputationLedger` (the metrics it
has are the ledger's).

### Granularity

A step is one write to `workloads` or one call of the container engine,
together with the reads since the previous one. Reads that follow each other
with no write of the same process in between are one read (migrateWorkload reads
the row twice on its way to the checkpoint). Writes to other tables are steps of
their own where somebody could see the difference (the INSERT of an assignment,
both writes of the catch block) and are joined with their neighbour where nobody
can: `markProcessing` with the handler's first read, the INSERT of a checkpoint
with the UPDATE that names it, `markCompleted` with `adjustCompletion`.

| Code | Actions |
|---|---|
| `spawn` | `Spawn` (INSERT, placement), `AssignWorkload` (UPDATE), `Enqueue` (INSERT) |
| `sleep`, `wake` | `Sleep`/`Wake` (read, guards), `MarkAssigned`, `Enqueue` |
| `createCheckpoint` | `Checkpoint`, `Snapshot` (engine), `SaveCheckpoint` or `SaveCheckpointFails` (the INSERT, the UPDATE or the read-back throws) |
| `migrateWorkload` | `Migrate`, `Snapshot`, `SaveCheckpoint` or `SaveCheckpointFails`, `MigrateStop`, `MigratePlace`, `MigrateMark`, `MigrateRequeue`, `Enqueue` |
| `host start`, `host stop` | `SetDaemonStatus` |
| `runForever` | `StartDaemon`, `RunOnce`, `EndLoop`, `StopDaemon`, `CrashDaemon` |
| `runOnce` | `Claim`, then `Complete`, or `FailAssignment` and `FailWorkload` |
| `handleStart/Wake/Restore` | `Dispatch` (the read), `InspectOld`, `Launch`, `Launched` |
| `handleSleep` | `Dispatch`, `StopRuntime`, `Stopped` |
| `collectMetering` | `CollectMetering`, `Meter`, `Condemn`; in `Billing` `CollectMetering`, `RecordTick` |
| `initHost` | `InitHost` (SELECT), `InsertHost` or `InsertHostThrows` |
| `setHost`, `host set --pool` | `SetHost` (SELECT), `UpdateHost` (UPDATE, and the SELECT of refreshHostScore), `RefreshHostScore` (UPDATE), `JoinPool` |
| `createPool`, `addHostToPool` | `CreatePool`, `AddHost` |
| `adjustUptime`, `adjustCompletion` | `AdjustUptime`, `AdjustCompletion` (SELECT), `UpdateMetrics` (UPDATE) |
| `spawn` in `Market` | `Spawn` (INSERT), `Place` or `Refuse` (the decision), `AssignWorkload` |
| `migrateWorkload` in `Market` | `Migrate` (the destination the caller names, or else the placement), `MarkMigrating`, `RequeueOnHost` (which the foreign key may reject) |
| `materializeForWorkload` | `Materialize`, `ReadUsage` (the SELECTs), `UpsertLineItem` (one minute), `DeleteEarnings`, `InsertEarning` (one minute), `Return` |

### Abstractions

* One resource, `cpu`, stands for cpu, memory and storage; `Capacity[h]` is
  `floor(cpu_total * max_cpu_pct / 100)`.
* In `HiveVM` the region, tier and pool filters are the constant `Admits`, which
  `setHost` and pool commands do not change. Prices and scores only rank hosts,
  so `PlaceWorkload` may choose any eligible host, and any price may exceed the
  cap of a workload in `Capped`. `adjustUptime` and `adjustCompletion` write only
  columns that rank hosts and are left out there; that `adjustCompletion` may
  throw inside the try block is kept (`Complete`). `Market` has all of these.
* In `Market` memory stands for memory and storage. Money is in millionths and
  truncated after each of the two multipliers, so that a price may be up to two
  millionths below the one the code computes; the properties allow for it.
  Metrics are in tenths, scores in hundredths of a point (`toFixed(2)`, halves
  rounded up), scores of placements in units of 1/100000. Host and placement
  are read in one step, where the code has a SELECT per host.
* `perf_score`, `network_score` and `policy_score` are constants: nothing updates
  them after the INSERT.
* Assignment, checkpoint and runtime ids are positions in sequences; 0 is NULL.
* `assigned_at` is a second that `createAssignment` reads from its process's clock
  before the INSERT. The model takes any member of `Second` at every INSERT, whatever
  earlier ones took: processes overtake each other between the two, and a clock may
  be set back. `nextPendingForHost` sorts by it without a tie-break, so
  `NextPendingForHost` is the set of all batches the query may return. A daemon
  works through a batch in any order that respects the seconds.
* In `Market` a migration is the choice of the destination and the two writes; its
  checkpoint and its stop, and what fails there, are in `HiveVM`. The field `named` of a
  row is a note of the model and no column: that the caller of the last migration named
  the host.
* A set of usage events records which runtime was measured for which host, not
  how often.
* In `Billing` time is counted in units, four to a minute in the runs, 15 seconds
  each. `usage_seconds` stands for all that is summed per minute; storage and
  egress costs are linear in it or summed alike. Rates are integers; fee and
  payout are fixed shares of `gross_revenue` and left out. `assigned_rate` is a
  constant: only `spawn` writes it, together with the first host.
* The container engine is external, modelled from how the adapters use it: one
  Docker engine for all hosts, as a local installation has. `docker checkpoint
  create` stops the container, and may fail without an error. A failed
  inspection reads as `missing`. The mock adapter keeps its containers in one
  process and its checkpoints leave them running; both are among the outcomes
  of the model.
* A SQLite statement is atomic; foreign keys are enforced (`db/client.ts:17`).
  Where the model lets statements fail it is the fault `db`.

### Failures

`Faults` says which of these the environment may inject: `crash` (a daemon
dies, or a statement outside its try block throws), `shutdown` (SIGTERM between
loops), `abort` (a caller ends between two statements), `db` (a statement in a
try block throws), `launch`, `stop`, `inspect` (engine calls fail), `die` (a
container exits by itself).

## 3. What TLC checks

Properties are defined and commented in `HiveVM` (runs of `MCHiveVM`), in
`Billing` (`billing` and the last two runs of the second table, of `MCBilling`)
and in `Market` (`market`, of `MCMarket`).

| Run | Instance | Properties |
|---|---|---|
| `lifecycle` | 1 workload, 2 hosts, 2 clients, 3 calls of any kind, any destination including an unknown host, all in one second; faults db, inspect | `TypeOK`, `NoStrandedWorkload`, `HandsOutOnceInOrder` |
| `capacity` | 3 workloads (one with a price cap), 1 host with room for one, 1 client, 4 calls of spawn, sleep, host start/stop, batches of 1, any of 2 clock readings on each job; faults stop, die, crash, abort | `NoOvercommit`, `HandsOutOnceInOrder` |
| `migration` | 1 workload, 2 hosts, 2 patient clients, 4 calls of any kind; faults shutdown, launch, die, abort | `SingleLiveRuntime`, `LiveIsAccounted`, `MeteredByLauncher` |
| `liveness` | 1 workload, 2 hosts, 1 client, 3 calls, migrations to a host of the scheduler's choice, a named one or an unknown one; faults launch, stop; `FairSpec` | `EveryJobHandled`, `EventuallySettles`, `DeadRuntimeNoticed` |
| `billing` | 1 workload, 2 hosts, 2 processes that bill it one after the other and may end half-way; 5 units of time (two minutes), 1 migration, 1 restart of each daemon; ticks as long as the loop | `TypeOK`, `NeverOverbilled`, `BillNeverShrinks`, `PaidOnce`, `BooksBalance`, `MeteredInRealTime`, `RevenueFollowsUsage` |
| `market` | 3 hosts, 2 of them registered and in a pool and with nearly full uptime, 1 daemon; a caller that registers, edits (price and memory cap), pools, starts and stops hosts and migrates, and one that registers, edits, spawns and migrates; destinations of the scheduler's choice or a named host, which is outside the pool and perhaps not registered; 2 requests, one for the pool with a cap that a busy or repriced host exceeds and one that no host has room for; 4 calls, 1 outcome or crash; `FairSpec` | `TypeOK`, `PlacedAsRequested`, `PriceRange`, `OutcomesCountOnce`, `ReliabilityPays`, `ScoreHeals` |

Six runs end in a counterexample, each against a sentence of the repository:

| Run | Property | Against |
|---|---|---|
| `stale_sweep` | `MigratedWorkloadRuns` | `tests/migration.test.ts:48-52`: after a migration and a run of the destination's daemon the workload runs there. The source's sweep, begun before the migration, fails it afterwards. |
| `wake_overcommit` | `NoOvercommit` | `spec/spec.md:74`: host limits are enforced. `wake` does not look at them. |
| `host_loss` | `HostLossRecovered` | `spec/spec.md:210`: a VM of a lost host is rehydrated from its checkpoint. Nothing does, and the interrupted assignment stays `processing` for ever. |
| `checkpoint_lost` | `CheckpointContinuity` | `spec/progress.md:30`: checkpoint metadata continuity. Migrating a failed workload sets `checkpoint_id` to NULL. |
| `double_metering` | `MeteredInRealTime` | `spec/spec.md:139`: metered per second. With the defaults of `host daemon` a loop of 15 seconds records ticks of 30: twice the time. |
| `earnings_moved` | `HostReceivesItsRevenue` | `spec/spec.md:140`: the host receives the revenue of its usage. After a migration the next bill pays all of it to the new host. |

### Under which conditions the passing properties hold

The code promises less than one might hope; each run names the conditions under
which the promise is kept, and outside of them TLC finds it broken.

* `NoStrandedWorkload` and `EventuallySettles` need callers that finish their
  calls and daemons that do not die (`abort`, `crash` off): row and assignment
  are separate statements, and `processing` assignments are never resumed.
  `EventuallySettles` makes one exception: a migration to a host id without a row.
  `markMigrating` has then written the row when the foreign key rejects
  `requeueOnHost` (`checkpointService.ts:118-119`), the runtime is stopped, and the row
  stays `migrating` until somebody makes another call; without the exception
  (`Misdirected`) TLC finds that behaviour. Statements of the migration that throw
  in the same place (`db`) have the same effect and are not in that run.
* `NoOvercommit` needs placements that follow each other (one client) and neither
  `wake` nor `migrate`. `wake` and an explicit destination do not look at
  capacity. A migration does, but the job left on the old host then fails
  the workload on its new one, another workload is given the room, and the job
  that is still pending there starts the first one all the same: TLC finds this
  with two workloads, two hosts, one client and no fault. Waiting for every call to
  settle does not help: a checkpoint stops a container, a sweep fails the workload,
  another is given its room, and a migration of the failed one then counts it on its
  old host again, as `migrating` (`MigrateMark`). Owners may stop hosts at
  any time, but not lower their limits: nothing evicts what is placed already.
* `SingleLiveRuntime`, `LiveIsAccounted` and `MeteredByLauncher` need callers
  that wait until the earlier calls on a workload have returned and settled
  (`Patient`), whoever made them, which is what every test of the repository does by
  running the daemon between two calls; and one daemon per host. Two impatient
  migrations leave two live containers. `MeteredByLauncher` needs nothing else. The
  other two need statements, stops and inspections that do not fail: with any one
  of the faults `db`, `stop` and `inspect`, TLC finds two live containers within four
  calls. `LiveIsAccounted` also needs daemons that do not die in the middle of a job
  (`crash`): nobody writes down what a dead daemon has launched. Daemons may still be in any
  step, launches fail, callers give up, containers die and daemons be restarted
  at any time.
* `HostReceivesItsRevenue`, which migrations break (`earnings_moved`), holds as long as
  there are none; that is part of `RevenueFollowsUsage`. Its other part, that all
  payments for a workload together do not exceed its usage, needs `Exclusive` only.
* `DeadRuntimeNoticed` is about containers that a checkpoint stopped and sources that
  a migration stopped before its placement was refused: their rows go on
  saying `running` until a sweep of the host's daemon fails the workload. It needs that
  daemon to loop on, or to be started again (`FairSpec`).
* `HandsOutOnceInOrder` needs one daemon per host. That a job is handed out at most once
  needs nothing else: it is checked with impatient callers, crashes, aborts and failing
  statements, and proved. The order it promises is the code's and no more: a
  job goes before one that was posted later *and* carries a later second. Jobs of one
  second come in any order, and so do jobs whose seconds disagree with the order of
  their INSERTs, because their posters overtook each other or a clock was set back; a
  restart of a workload may thus be executed before the sleep that preceded it. In
  `lifecycle` all jobs are of one second, so that every order of handing out
  occurs and only the first half of the property is at stake; `capacity` has the second,
  with each job stamped earlier, the same or later than those before it.
* `PaidOnce`, `BooksBalance` and `BillNeverShrinks` need bills of one workload
  that do not overlap (`Exclusive`): with two at once both delete and both
  insert, and hosts are paid twice until the next bill. `NeverOverbilled` needs
  nothing.
* `MeteredInRealTime` needs a loop at least as long as a tick
  (`MeteringInterval <= Interval`).
* `OutcomesCountOnce` needs one daemon per host. Owners' commands may interleave
  with it in any way: setHost writes no metric and refreshHostScore only the score.
* `ScoreHeals` needs the daemon to loop on (`FairSpec`, finitely many crashes) and
  edits to end: refreshHostScore may write a stale score, and the next
  `adjustUptime` replaces it, also when uptime is at its maximum.
* `ReliabilityPays` compares hosts with the same settings and the same room.
* `PriceRange` has the price as low as 79% of the floor, which is the host's minimum
  where that is above the base rate: the multipliers are applied after the
  maximum is taken (`marketPricingService.ts:18-19`), so in a region with little
  demand a host is hired for less than what `spec/spec.md:134` calls its minimum
  acceptable rate. The property says from what demand on that cannot happen.
* `PlacedAsRequested` promises the cap always, and the pool unless the caller of the last
  migration named the host: `migrate --to-host` (`cli.ts:383-389`) and the API's
  `toHostId` (`server.ts:158`) skip the scheduler (`checkpointService.ts:98-99`), so
  that pool, tier, region and room of that host are not looked at. A later migration
  that names none, and finds one, brings the workload back into its pool. The cap bounds the rate in
  the row, which stays that of the first host after a migration to a dearer one. Nothing is
  said of tier and region, which an owner may edit under a placed workload.

### Bounds, and why they are enough

`MaxCalls` bounds the calls and with them assignments, containers and
checkpoints; in `Market`, `MaxOutcomes` bounds the crashes and the outcomes that
move completion. Nothing else is unbounded. Three calls reach a spawn with two
further calls racing it and each other; four calls of patient clients reach
spawn, sleep, migrate, wake; four calls fill a host of one, empty it and fill it
again, with two jobs pending at a time. Two seconds are enough for clocks: a job's
second is before, after or that of another. Two hosts are what a migration needs, and a third would only be another
destination. One workload is enough where the property is about one workload;
daemons treat workloads independently except for the order of jobs (`capacity`
has three in one queue, with `BatchLimit` 1 so that the LIMIT of 25 is
exceeded). Symmetry over workloads, clients and hosts is used only with safety
properties, in runs whose other constants do not name any of them.

In `market` the daemon's host starts one tick below full uptime, so that both an
update that moves a metric and one that moves none happen; four calls let two edits or
registrations overlap with each other and with the daemon, or with a spawn and its
migration, or two migrations of a workload with each other; the request nobody can serve leaves its pending row, whose demand drives
the price to the ceiling of its multiplier. Prices, scores and sums are
small-instance samples there; their bounds are proved for all values.

### Fairness

`HiveVM!FairSpec` assumes weak fairness of each caller in the middle of a call, of each
started daemon, and of starting a daemon that is down. Callers and daemons wait
for nothing but SQLite and the container engine, and `runForever` loops for ever;
that the engine answers is an assumption (no call has a timeout). Nobody is
obliged to begin a call, and no failure has to happen. The abstract queue's
fairness (`WF` of handing out and of concluding) is implied, not assumed:
`EveryJobHandled` is the refinement of `AssignmentQueue!FairSpec`.

`Market!FairSpec` assumes the same of the daemons, and nothing of callers.

## 4. What is proved

For every value of the constants that satisfies the named
assumptions of the modules (any number of workloads, hosts, clients and daemons,
any bounds, any capacities, any rates and intervals):

* `HiveVMProofs!TypeCorrect`: `Spec => []TypeOK`. `TypeOK` alone is not
  inductive: `Enqueue` writes what the client remembers, `Claim` reads the row
  its job names, `Condemn` the row it swept. `TypeInv` adds what the program
  counter of a client (`ClientKnows`) and of a daemon (`DaemonKnows`) says about
  the fields it holds, for instance that a client past its placement has a host
  of the table and that a batch holds rows of `assignments`.
* `StrandedProofs!NoStranded`: `Spec => []NoStrandedWorkload`, provided that
  neither `abort` nor `crash` is among the faults. The invariant adds
  `JobsHeld`: the job a daemon works on has left the queue. Without it, failing
  that job could take away the pending job that attends to another workload. The
  argument follows who attends: a row becomes `assigned` only in a step that
  takes its client to the enqueuing; the enqueuing posts a pending job; a pending
  job leaves the queue only into a daemon's hands; and a daemon lets go of a
  workload only after a write that takes it out of `assigned`.
* `QueueProofs!TableIsQueue`: `Spec => HandsOutOnceInOrder`, provided that no
  two daemons serve the same host; all faults are allowed, and `Second` is any set of
  numbers, from which each INSERT takes any. The invariant
  (`QueueInv`) says of every daemon that its batch holds jobs that are pending
  still, and with a job every pending one of its host that is older by id and by
  second (`BatchOf`: so whichever of the least second the daemon takes next, no pending
  job precedes it, in the batch or in the table), and that the job it executes
  is `processing`, or `completed` if it is the bookkeeping after completion that
  threw (`JobOf`). A job inserted with an earlier second after the batch was read has
  a greater id, and does not disturb it. Initial states map to initial states and each
  step maps to `Post`, `Claim`, `Finish`, `Revoke` or a stutter.

* `BillingProofs!BillingTypes`: `Spec => []TypeOK` of `Billing`.
* `BillingProofs!UsageBoundsBills`: `Spec => []NeverOverbilled`, with any number of
  bills of a workload at once. The invariant adds that what a bill has read is
  no more than there is (`ReadBound`), as usage only grows.
* `BillingProofs!TicksInRealTime`: `Spec => []MeteredInRealTime`, provided that
  `MeteringInterval <= Interval`. The invariant (`TickInv`) says that what was
  recorded for a workload is covered by the time of the daemon's next loop, or by
  now while the sweep has still to reach it, give or take a tick per restart.
* `BillingProofs!NoDoublePayment`: `Spec => []PaidOnce`; `BooksBalanced`: `Spec =>
  []BooksBalance`; `NoBillShrinks`: `Spec => BillNeverShrinks`; all provided that bills
  of a workload do not overlap, and all from one invariant. `BooksInv` says of a bill
  in progress that line items charge no more than it has read, and that the minutes it
  is through with are charged, and after the DELETE paid, exactly as read
  (`OnItsWay`); of the books that items have the workload's price and payments follow
  them. Whatever an aborted bill left satisfies it, which is why the next bill repairs
  the books.
* `BillingProofs!PaymentsFollowUsage`: `Spec => []RevenueFollowsUsage`, provided that
  bills of a workload do not overlap. From `BooksInv` and `NeverOverbilled` every
  payment is covered by the usage of its minute; distinct payments are of
  distinct minutes, so that their sum is covered by the sum of the usage
  (`SumCovered`, `SumScaled`). For the hosts one by one the invariant adds (`StaysInv`) that
  a workload that has not moved runs on, and is billed for, the one host its row names:
  the other half of the finding `earnings_moved`.

* `CapacityProofs!CapacityRespected`: `Spec => []NoOvercommit`, provided that there is
  one client, that it uses neither `wake` nor `migrate`, that no two daemons serve
  the same host, and that the workloads are finitely many. Faults are all allowed. The
  invariant has two parts. `PromisesFit` sums, with what is allocated on a host,
  what the call in progress is about to allocate there. `StartedOnce` says that
  until a workload has been started, whoever is to start it - the call, its
  pending job, the daemon executing it - is the only one with it in hands, and its row
  says `assigned`: without this, a workload could fail, lose its room and be
  started afterwards, which is what `migrate` does. That a job is not executed
  twice comes from `QueueInv`.
* `RuntimeProofs!OneLiveRuntime`: `Spec => []SingleLiveRuntime`; `LiveAccounted`: `Spec =>
  []LiveIsAccounted`; `MeteredWhereLaunched`: `Spec => []MeteredByLauncher`. All three
  are about patient callers, any number of them, and one daemon per host
  (`Orderly`). The first two exclude the faults `db`, `stop` and `inspect` (`Faultless`), the second
  `crash` as well, the third none. The invariant (`RuntimeInv`) has these parts. At most one call
  or one job is about a workload (`OneAtATime`): a call begins when there is none,
  its job is posted as it returns, and a daemon concludes the job last of all. The
  runtime a row names was launched for the workload on the row's host
  (`RuntimeOfRow`). Whoever is to launch without looking at the old runtime - a
  spawn's or a migration's call, its job, the daemon executing it - will find the workload down (`CallFits`,
  `JobFits`, `DaemonFits`). The row names the live container, or the daemon that
  launched it is about to write it there, or a crash has kept it from that and
  the job it left `processing` holds off all later calls (`Accounted`): this is
  why crashes do not lead to a second container. And a sweep holds runtimes of the
  daemon's own host (`SweepFits`). What is said of live containers is conditional on `Faultless`, the
  rest is not, which is why the one invariant serves all three. That a job is executed
  by one daemon, the one of its host, comes from `QueueInv`.
* `MarketProofs!MarketTypes`: `Spec => []TypeOK` of `Market`. The invariant (`TypeInv`)
  adds that the host a spawn is about to write is registered; of a migration's host the
  foreign key sees to it.
* `MarketProofs!PricesInRange`: `Spec => []PriceRange`, from the types alone: the
  two truncated divisions are bounded one after the other (`PressedRange`,
  `PriceOfRange`), for any floor, supply, demand and score.
* `MarketProofs!PlacementsAsRequested`: `Spec => []PlacedAsRequested`, with any
  number of callers and daemons, and any explicit destinations. The invariant (`PlacedInv`)
  says of calls past their placement what the property says of rows (`CallPlaces`,
  `RowPlaced`): a host that no caller named is of the pool. It is kept because pools
  only grow, the rate is written as read, and a migration writes the host together with
  how it came by it, so that of two overlapping ones the last decides both.
* `MarketProofs!ReliabilityRewarded`: `Spec => ReliabilityPays`. A score that is one
  hundredth of a point better adds 4 to a rank; the higher price it makes takes away
  at most a tenth of that and what the roundings lose (`DearerBy`, `CheaperByLess`).
* `MarketProofs!OutcomesCounted`: `Spec => OutcomesCountOnce`, provided that no two
  daemons serve the same host. The invariant (`LedgerInv`) says that what a
  daemon is about to write is one outcome away from what its host's row has, that
  daemons at work serve registered hosts, and that hosts without a row have the metrics that initHost will insert: so
  an INSERT is no step of the ledger.

`FiniteSums` carries the sums of capacities, demands and payments: that the recursion behind
`SumFunctionOnSet` has a solution, adds one element at a time in any order, and
grows with its set; that a sum grows by what one of its terms does
(`SumRaised`), and scales with its terms (`SumScaled`); and that a sum is covered by
another if each of its terms is covered by a term of its own there
(`SumCovered`). As induction rules are out of reach, its
lemmas take a minimal counterexample, by the well-foundedness of strict inclusion
among the subsets of a finite set.

The proofs of `HiveVM` share lemmas on what the writes to the tables do
(`SetAssignmentEffect`, `CreateAssignmentEffect`, `RowType`).

Model-checked only: the liveness properties (`EventuallySettles`, `DeadRuntimeNoticed`, `ScoreHeals`) and
the refinement of the queue's fairness, which are out of the prover's reach. Every
other property of a passing run is a theorem. The properties of the
violation runs are refuted as they stand.

## 5. What is not modelled

* The chain simulator (`bin/hive-sim-chains.ts`): a stand-alone script for
  developers that asks public RPC nodes for chain ids and replays settlements of
  made-up amounts in memory. It shares no code, table or process with the system.
* `heartbeat` (its column is read by no decision), `removeHostFromPool` (no command
  or route calls it), `quiet_hours` and `power_mode` (stored and never enforced;
  `host set` resets `power_mode` to its default when the option is absent).
* Bad news about uptime: `adjustUptime` is only ever called with `true`, so uptime
  never falls, and a host that is down keeps what it had.
* The parsers of durations and dates, which only bound reports; storage amounts,
  which are read like memory amounts (`ParseMemoryToMb`).
* Values nothing validates: a negative price, a `max_cpu_pct` over 100 or a request
  for nothing, which makes the ranking NaN. `Requests` asks for positive amounts.
* Configuration and packaging: constants and re-exports.
* Rounding of costs (they are floating point numbers in the code), and the
  platform's share.
* What commands print, list and parse; the HTTP layer; the mappers.
* Several machines: the code opens a local file, so all processes share it.
* Docker networking, images, checkpoint contents, egress and memory figures.

## 6. Plan

1. *(done)* `HiveState`, `ControlPlane`, `HostDaemon`, `AssignmentQueue`,
   `HiveVM`: lifecycle, queue, migration, metering attribution; runs
   `lifecycle`, `capacity`, `migration`, `liveness` and the four findings.
2. *(done)* `Billing`: ticks, bills and payments; runs `billing`,
   `double_metering`, `earnings_moved`; its proofs.
3. *(done)* `Reputation`, `ReputationLedger`, `Registry`, `Market`: owners, daemons and
   customers on the hosts' rows; prices and placements; run `market`, its proofs.
4. *(done)* `CapacityProofs`: placements fit, for one caller.
5. *(done)* `RuntimeProofs`: the containers, for patient callers; `PaymentsFollowUsage`.
6. `NoOvercommit` with migrations, which patience alone does not save (see above), and
   with owners that lower their limits, once the code says what should happen then.
