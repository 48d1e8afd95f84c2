# A verification project for agent-insight

TLA+ modules of the protocols in agent-insight that many processes take part in, the TLC
configurations that check them on small instances, and theorems about them that TLAPS checks for
every value of the constants. `PROJECT.json` is the index: every definition with the source lines
it models, every run, every hazard, every theorem. Paths below are relative to the repository;
`benchmark/` stands for `src/lib/benchmark/`.

Contents: 1 the system, 2 inventory, 3 the modules and the code, 4 the runs, 5 the theorems,
6 where code and documents disagree, 7 what is left out, 8 plan.

## 1. The system in brief

The platform is a Next.js application over SQLite. A *benchmark experiment* has cases; every case
gets a *run* on the machine of a client, where an *executor* starts the agent, and its submission
gets an *evaluation* by a separate *Evaluator service*.

    user ── experiment ── pump ──> run scheduler ── command bus ──> client ──> executor ──> agent
                                     ^    |                                     |
               watchdogs, sweeps ────+    |       <── progress, artifacts, completion
                                     v    v
                                 SQLite rows ──> evaluation scheduler ── POST ──> Evaluator service
                                     ^                                             |
               deletion, reconcile ──+            <── progress, completion, stop notice

No component holds a lock across a network call. What they share is rows: the case run, its
dispatch outbox, the evaluation, *its* dispatch outbox, and the official result. Every party reads
them, waits for something, and writes them under a condition; the conditions are what makes the
system correct or not, and are what these modules keep.

## 2. Inventory

State, operations, interaction, what is hard and what correctness means, part by part. The status
is that of `PROJECT.json`.

**Evaluation scheduler** (`benchmark/evaluation-scheduler.ts`, `evaluation-preparation-service.ts`)
— *partly modelled: EvaluationDispatch.* State: evaluation and its outbox (`attemptCount`, lease,
`lockedBy`), reservations in `progressJson`, in-memory health cache. Operations: a dispatch call
(claim, freeze the target, probe health, admit, POST, four outcomes), the lease sweep at start-up
and from the watchdog, the reaper. Hard: two calls for one evaluation, a call that outlives its
lease, an answer after a completion, POSTs of unknown fate, counting slots at a shared service.
Correct: one story in all rows, a terminal status written once, no trace of a stale call,
reservations within capacity and quota, a finished result is settled.

**Evaluation callbacks** (`benchmark/evaluation-callback-service.ts`) — *partly modelled:
EvaluationDispatch.* Progress, completion (freeze the raw result, normalise, write the verdict,
resume an interrupted one, record a refused write) and the stop notice. Hard: a completion
delivered twice, one that read the row long before it writes, one that races with the reaper or a
deletion, a database error in the last transaction.

**Evaluation continuation** (`benchmark/evaluation-continuation-service.ts`) — *not modelled yet.*
State: a lease with heartbeat on the evaluation. Runs supplemental evaluators and finalises the
case after a verdict. Hard: the lease expires during the work. Correct: one finalisation per case.

**Run scheduler and pump** (`benchmark/scheduler.ts`, `orchestrator.ts`) — *partly modelled:
RunDispatch.* State: case run and its outbox, retry timers in memory. Operations: pick and prepare
a pending run within concurrency and budget, dispatch it by a command and poll for receipts, retry,
sweep leases, reap silent runs, resume submitted ones. Hard: overlapping calls, late receipts,
busy clients, process death between transactions. Correct: a deleted run stays as it is, an
acceptance means a journalled job, every dispatched run ends and its result is told.

**Run callbacks** (`benchmark/run-callback-service.ts`) — *partly modelled: RunDispatch.* Progress,
artifacts and completion, each with a compare-and-swap; a completion may be repeated.

**Experiment lifecycle** (`benchmark/experiment-lifecycle.ts`, `experiment-service.ts`) — *partly
modelled: RunDispatch.* Creates the rows, fails pending results of ended runs, settles the
experiment when no result is pending. The experiment's own status is for the composition.

**Evaluator service** (`services/evaluator/src/service.cjs`, `job-journal.cjs`, `service-control.cjs`,
`platform-client.cjs`) — *partly modelled: EvaluatorService from inside, EvaluationDispatch as the
platform sees it.* State: a journal of jobs on disk, active jobs and requests in memory, control
marks. Operations: admission under a mutex, execution, delivery of progress and results with
retries, cancellation with tombstone, shutdown, a stop tool in a process of its own, recovery.
Hard: admission against cancellation, restart with half-cancelled jobs, containers that cannot be
removed. Correct: never more jobs in Docker than slots, a cancelled job stays down, what was
evaluated is delivered and not evaluated again, every job ends.

**Image pool** (`services/evaluator/src/image-pool.cjs`) — *partly modelled: ImagePool.* State:
image records with users, protection windows, operations that hold space, a byte budget. Operations:
prepare, acquire, release, prefetch, evict, recover. Hard: an image chosen for eviction while a job
acquires it, a lost connection while Docker pulls or removes, an estimate that is too small, jobs
that wait for each other's space. Correct: an image in use is never removed; every pull is counted;
every acquisition ends.

**Executor client** (`services/executor/src/index.cjs`, `scripts/reliability-client.cjs`) — *partly
modelled: RunDispatch, as the platform sees it.* State: journal of runs, workspace, spool of
receipts. Accepts a run once, runs the agent under a deadline, delivers progress and completion
with retries, recovers after a restart.

**Cancellation** (`src/lib/engine/experiment/cancellation-service.ts`) — *partly modelled: deletion
in both modules, the reconciliation of the evaluation target in EvaluationDispatch.* State: a
cancellation with targets (run, evaluation, local execution), each confirmed or not. Hard: what is
still under way when it is confirmed; targets that no one can confirm any more.

**Command bus and control channel** (`src/lib/reliability/command-bus.ts`, `command-receipt.ts`,
`control-hub.ts`, `scripts/control-server.js`) — *partly modelled: CommandBus, for the command that
carries a configuration.* State: commands CREATED, SENT, RECEIVED, RUNNING, final, with TTL and
acknowledgement window; on the client the handled commands and a spool of receipts. Operations: push
over a WebSocket or hand out by poll, record receipts, sweep, flush the spool. Hard: both channels at
once, receipts after expiry. Correct: a final status is final, a command is begun once, every
command ends.

**Client registry and configuration delivery** (`src/lib/reliability/client-registry.ts`,
`client-config-service.ts`) — *partly modelled: CommandBus.* Configuration versions, one delivery
row per command with states, receipts and reports in any order. Correct: what is called written was
written; a page does not show "notified" for ever.

**Telemetry spool consumer** (`src/lib/ingest/otel-consumer/`) — *not modelled yet.* Cursors per
file, a process lock, retention. Hard: crash between handling and saving the cursor, two owners of
a stale lock, compaction against reading.

**Fault injection** (`src/lib/fault-injection/`, `agent_fault_injection/`) — *not modelled yet.* Claims of
queued runs by workers, stale claims returned by a sweep, markers from several sources.

**Experiment engine** (`src/lib/engine/experiment/`), **agent RAS runtime** (`agent_ras/`) — *not
modelled.* Ordinary experiments with trace generation and retries; a Python runtime of detectors.

**Not protocols**: adapters and evaluator assets (data conversion), storage (taken as given:
statements are atomic, transactions serializable), runtime cleanup, skills and quality monitoring
(LLM calls), web interface, collectors, SkillBench.

## 3. The modules and the code

| module | what it is |
|---|---|
| `EvaluationDispatch` | evaluations, dispatch calls, Evaluator, callbacks, watchdog, deletion |
| `SettleOnce` | what the platform promises of an evaluation, whoever ends it |
| `EvaluationDispatchProofs` | theorems about EvaluationDispatch |
| `MCEvaluationDispatch` | its instances |
| `RunDispatch` | case runs, pump, dispatch calls, executor, callbacks, watchdog, deletion, crashes |
| `RunDispatchProofs` | theorems about RunDispatch |
| `MCRunDispatch`, `MCRunDoubts` | symmetry; a document compared with the code |
| `EvaluatorService` | the Evaluator from inside: admission, tasks, delivery, cancellation, shutdown, stop tool, recovery |
| `EvaluatorJob` | what the platform counts on of a job; EvaluatorService implements it |
| `EvaluatorServiceProofs`, `EvaluatorSlotsProofs` | theorems about EvaluatorService; its slots and EvaluatorJob |
| `ImagePool`, `ImagePoolProofs` | the Evaluator's images: preparation, acquisition, windows, eviction, Docker; theorems |
| `CommandBus`, `CommandBusProofs` | configuration commands: socket and poll, receipts, spool, sweeps, deliveries; theorems |
| `MCEvaluatorService`, `MCImagePool`, `MCCommandBus` | their instances |

The modules meet at two interfaces. EvaluationDispatch drives a `job` per evaluation as its
environment; EvaluatorJob states the same five states with what may follow each, and EvaluatorService
is shown to implement it, so what one side assumes the other side keeps. RunDispatch sees of the
command bus an answer, or none in its window; CommandBus shows for one kind of command how receipts,
expiry and sweeps come to that. ImagePool stands behind `preparing` and `ImagesArrive` of
EvaluatorService: images arrive, or do not, and by `AcquireEnds` one of both happens.

### Conventions

A database transaction or a single conditional update is one action. A function that awaits the
network, or does two transactions, is several actions, and keeps what it read in variables of the
call (`subject`, `doubt`, `attempt`). Time is abstract: a lease, a retry delay or a deadline may
have passed at any moment, so the sweeps, timers and reapers are enabled whenever the row's status
lets them act. Operators named as mutants in their comment are small errors of the kind the code
could have; they are used by no specification, only to see that a property would notice them.

### EvaluationDispatch

Variables are columns: `status`, `digest` (completionDigest set), `reserved` and `failure` of the
evaluation; `outbox`, `holder` and `expired` of its outbox; `run`, `result`, `deleted`. A call of
`dispatchBenchmarkEvaluation` is `at` a place between two of its awaits:

| code | actions |
|---|---|
| claim of the outbox, `:593` | `Claim`, `ClaimLost` |
| `freezeTarget`, `:607` | `Freeze`, `FreezeFails` |
| `ensureHealthy`, `:626` | `ProbeHealthy`, `ProbeFails` |
| admission transaction, `:637` | `AdmitQueued`, `AdmitAgain`, `Defer` |
| POST and its answers, `:691` | `Send`, `SendRefused`, `Handle`, `Refuse`, `Receive`, `NoAnswer` |
| `markPending`, `markFailed`, `markAccepted`, `markUnknown` | operators of these names |
| a call whose write fails, or that is cut off | `Abandon` |
| lease sweep, `:798` | `SweepMark`, `SweepRelease` (two updates in the code) |
| `reapStaleBenchmarkEvaluations` | `Reapable`, `Reap` |
| callbacks | `Progress`, `Complete`, `ReadAgain`, `Resume`, `ResumeLost`, `Finalize`, `FinalizeLost`, `PersistenceFails`, `StopNotice` |
| deletion and reconciliation | `Cancel`, `CancelJob`, `ConfirmCancel` |
| the Evaluator | `Accept`, `JobEnds`, `ShutDown`, `Unwind`, `Restart`, `LateArrive` |

Abstractions worth knowing:
- The outbox's `attemptCount` is compared for equality only, and every claim raises it; `holder`
  names the call of the latest claim instead.
- The code reads its token in a statement after the claim; the two are one step, as no other claim
  can succeed between them before the lease of 30 s expires.
- The lease may expire during a live call: a call's deadlines are not bound to it.
- Capacity is a constant; the code caches `/health` for a time.
- `resuming` counts the repeated completion calls that have read the row, `finishing` those between
  their claim and their last transaction. The claim of a repeated one tests the status alone
  (`evaluation-callback-service.ts:489`), not what it read (`:445`), so it may take up an evaluation
  whose normalization has failed for good in the meantime. `Complete`, the first delivery, does keep
  its read and its claim together, as its update tests all that it read.
- A stopped Evaluator (`halted`) answers nobody: neither `CancelJob` nor the confirmation of a
  contacted target happens until it is back.
- One attempt of evaluation per run: re-evaluation and the continuation after the verdict are in
  the plan. A stop notice here does not touch experiment and binding.

### SettleOnce and the refinement

An evaluation is open, may be judged, and settles once; the step that settles it writes the verdict
of case run and official result together; a deletion withdraws what is not settled (and the code
also turns a failed dispatch into a cancelled one, keeping its failure). One end is not quite an end:
what failed to be normalised ("unread") may be judged once more by a delivery that read it before,
while its case has failed already (`JudgeAgain`). The refinement mapping
`phaseOf`, `verdictOf` reads it off the rows; rows that disagree map to the verdict "torn", which
SettleOnce has no step to. It holds while the database accepts its writes (`DatabaseFaults`
FALSE): `recordPersistenceFailure` writes a status without case or result, and repeats later.

### RunDispatch

Variables are again columns (`status`, `stage`, `reported`, `result`, `outbox`, `attempts`), the calls
of `dispatchBenchmarkRun` (`at`, `subject`, `attempt`, `answer`), what lives in memory only and is lost
in a `Crash` (`timers`, `preparers`, `closing`, `answering`, `drafts`, the calls) and the client (`job`,
`late`). `drafts` are evaluations under preparation: the run has been read as submitted, its files are
being read, and the row is created at the end without another look at the run.

| code | actions |
|---|---|
| `prepareNextBenchmarkCaseRun` | `Pick`, `Prepared`, `PreparationFails`, `PreparationExpires` |
| `dispatchBenchmarkRun` | `Start`, `Read`, `Claim`, `ClaimLost`, `Receive`, `NoAnswer`, `NoteUnknown` |
| lease sweep, watchdog | `LeaseExpires`, `Reap`, `ResumeSubmitted`, `CreateEvaluation` |
| client and executor | `Handle`, `Refuse`, `LateArrive`, `JobEnds` |
| run callbacks | `Progress`, `StoreArtifact`, `Complete`, `CompleteAgain`, `CompleteTooLate`, `ReadSubmitted`, `PrepareEvaluation` |
| `failBenchmarkCaseResults` | `FailResults` |
| evaluation, seen from here | `Evaluate`, `EvaluationGivesUp` |
| deletion of a case | `Cancel` |

Abstractions worth knowing:
- The command bus is what a dispatch call sees of it: an answer, or none in its window, with
  commands and receipts that may arrive afterwards.
- `attempts` saturates at 2, the only value the code compares it with.
- Progress and completion retry their compare-and-swap in a loop; each success is one step.
- `Reports` are the stages that progress reports name: all of them where safety is checked, one where
  liveness is, as watchdog and completion treat the statuses of a running agent alike.
- An evaluation created for a run whose case was deleted meanwhile stays as it is: the dispatch refuses
  it and nothing else looks at it (section 6).
- One experiment. The budget per user and that of the platform are one `Budget`.
- `closing` is the gap between the transaction that ends a run and the one that fails its results.
- Database errors inside a call are modelled only as the death of the whole process.

### EvaluatorService

Variables are files (`stage`, `unreleased`, `result` of a job; `mark`, `control` under `control/`),
Docker's `containers`, memory that an `Exit` loses (`task`, `queue`, `admitting`, `preparing`, `timers`,
`cancelling`), and what others were told (`told`: "cancelled", `notified`: a stop notice). `task[r]` is
the place of `execute` between two awaits.

| code (`service.cjs`, `service-control.cjs`) | actions |
|---|---|
| `POST /api/v1/evaluations` under `withAdmission` | `Admit`, `PrepareImages`, `Accept`, `Repost` |
| image preparations and windows | `ImagesArrive`, `LeaveWindow` |
| `start`, `execute` | `Begin`, `RemoveStale`, `RunHarness`, `HarnessEnds`, `CleanUp`, `SaveResult`, `End` |
| `deliverResult`, `handleDeliveryFailure` | `Deliver`, `UploadEvidence`, `Complete`, `Retry` |
| `cleanupCancelled`, `cancel` | `Unwind`, `Cancel`, `CancelEnds` |
| `shutdown` and the stop tool, loop by loop | `Terminate`, `AbortAll`, `ToolStops`, `Look`, `Stop`, `ToolKills`, `ToolLooksAgain`, `ToolRemoves`, `Exit` |
| `manage --start`, `recover` | `Resume`, `Recover` |
| `flushStopNotifications` | `Flush` |

Abstractions worth knowing:
- A loop over the journal takes its jobs in any order, and reads and writes each in two steps
  (`Look`, `Stop`), as the code does: in between the job goes on.
- A mark and an abort are two things. `execute` tests the signal alone before it starts the harness
  (`service.cjs:700-730`); the stop tool only marks, and `cancel` and `shutdown` mark first and abort
  in a later step (`CancelEnds`, `AbortAll`). A marked job may therefore still start its containers.
- A stop notice reaches the platform (`notified`), but is never over for the service: see section 6.
- Whether containers can be removed is decided anew at each attempt, for runs in `Sticky` only.
- The start-up of the service is one step: it does not listen before `recover` is over. Its passes
  over the journal are `halfway`, `held`, `blocked` and `recoverable`, and the order of the restarted jobs is free.
- The retry timer fires after the task that set it has ended (its delay is seconds).
- Several POSTs of a run are one `Admit`/`Repost` each; artifacts, progress and scores are left out.

The refinement maps a job with a mark to "stopping" while it has containers or a task that may still
start them (`stale`, `prepare`), to "stopped" after that, one with a result on disk to "finished" and one
that holds a slot to "running". EvaluatorJob limits what
is running or stopping to `Capacity`: admission counts `Occupies`, recovery its `available` slots.

### ImagePool

Variables: Docker (`docker`, `pulling`, `lingering`), the saved state (`image`, `operations`,
`windows`), memory (`work`, `acquire`, `gc`). `work[i]` is a preparation in `inflight`, `acquire[o]`
the place of a job's `acquire`, `gc` the eviction under way, of which there is one at a time.

| code (`image-pool.cjs`) | actions |
|---|---|
| `prepareOnce`, `reserve`, the pull and its fallbacks | `Reserve`, `Refuse`, `TimesOut`, `Pull`, `Pulled`, `LosePull`, `Resolve`, `Finish` |
| `acquire`, `release` | `Acquire`, `Prepare`, `PrepareAgain`, `Register`, `Trim`, `Reclaim`, `Cancel`, `EndJob` |
| windows and prefetch | `SetWindows`, `Prefetch` |
| `evictOne`, `evictCandidate` | `Evicts`, `Choose`, `Check`, `Remove`, `LoseRemoval`, `Forget`, `Rested` |
| Docker, other users of it | `DockerPulls`, `DockerRemoves`, `Tag` |
| process death, `initialize` | `Crash`, `initialize` |

Abstractions worth knowing:
- A change of the pool's state is queued behind the previous one and saved: one step. Docker's
  work lies between the steps, and goes on if the pool does not wait for it any more (`pulling`,
  `lingering`).
- One spec per image, one size and one estimate for all, one user set per image. `Room` is the set of
  answers that `budget` may give: of the images Docker pulls, any part may fill its space already.
- What `reserve` sets aside is the `Estimate` (a provider's value, four times the manifest, or 8 GiB),
  what an image takes is `ImageSize`, and nothing ties them. `DockerPulls` of what does not fit ends
  "full" (ENOSPC): `Pulled` then gives up without another reference, and each waiting job evicts one more
  image before it fails (`Reclaim`). The two error codes with which it may fail are one.
- `purgeIdle` and the maintenance that empties windows are left out; they use the same eviction.

### CommandBus

Variables: the server's rows (`command`, `expired`, `delivery`, `rows`), its functions under way
(`notify`, `shown`, the stage of each of `receipts`), the wire (`gateway`, `link`, `frames`, `poll`)
and the client (`job`, `handled`, `wrote`, `spool`, `flush`).

| code | actions |
|---|---|
| `notifyClientSync`, `dispatchCommand` | `Create`, `NotifyOffline`, `Dispatch`, `MarkSent`, `Record` |
| `sweepUnackedCommands`, `reconcileDelivery` | `Sweep`, `ViewReads`, `ViewWrites` |
| `applyCommandStatus`, `handleCommandStatus` | `LookUp`, `Expire`, `Apply`, `Mark` |
| `claimNextCommand` and the client's poll | `Poll`, `Claim`, `ClaimMarks`, `PollArrives`, `PollEnds` |
| control socket | `Connect`, `Disconnect`, `FrameArrives` |
| `handleCommand`, `executeAction`, `applyConfigSnapshot` | `Handle`, `Send`, `SendAnswered`, `SendFails`, `Pull`, `WriteFile`, `ApplyFails` |
| `flushSpool` | `FlushBegins`, `FlushPosts`, `FlushAnswered`, `FlushFails`, `FlushEnds` |
| RAS: `recordConfigLoad`, `noteCapabilityIngestPull` | actions of these names |
| process death and start of the client | `Crash`, `Boot` |

Abstractions worth knowing:
- Time is what it allows: a command passes its expiry, and any command that is SENT may be beyond
  the acknowledgement window when a sweep comes (`late`).
- `gateway` is chosen in Init: a deployment without the control server only polls.
- A receipt is a request the server takes in up to three statements; its caller waits for the
  answer, has given up ("orphan"), or never waited (the socket). A failed request, the client's or the
  spool's, lost either the receipt or its answer: the server may have it all the same, and gets it again.
- RAS may report any version the client ever wrote, at any time.
- `executeAction` reports every failure with the phase of the pull, so the status `write_failed`
  does not occur. One flush at a time; the gateway's `markCommandDeliveryFailed` and the other
  actions of the bus (their handlers differ, their commands do not) are left out.

## 4. The runs

| run | instance | states | what it shows |
|---|---|---|---|
| `dispatch_rows` | 1 evaluation, 2 calls, 2 deliveries | @dr@ | rows agree, statuses final, stale calls silent, confirmed cancellations quiet, SettleOnce implemented |
| `dispatch_live` | 1 evaluation, 1 call, database faults | @dl@ | finished jobs settle, cancellations are confirmed, rows agree once a refused write is repeated |
| `dispatch_slots` | 2 evaluations of one user, 2 calls, 1 slot | @ds@ | reservations within capacity and quota |
| `run_rows` | 1 run, 2 calls, 2 preparations, all progress stages | @rr@ | no result forgotten, acceptance means a journalled job, cancelled is final |
| `run_live` | 1 run, 2 calls, 1 slot that others may hold, 1 crash | @rl@ | dispatched runs end or are submitted unless wedged; without a crash results are told |
| `service` | 2 runs, 1 slot, one with images, cancellation and stuck containers; 1 crash, signal or stop | @se@ | containers within the limit, cancelled and stopped stays down, a stop reaches every job, nothing evaluated twice, EvaluatorJob implemented |
| `service_live` | 2 runs, 1 slot, 1 crash, signal or stop | @sl@ | jobs end, also behind the recovery queue |
| `pool` | 2 images whose estimate is a third of their size, on a disk for one, 2 jobs, one pull at a time; 1 crash, lost connection or foreign tag | @po@ | used and resolved images stay, pulls are counted, every acquisition ends |
| `bus` | 2 commands by poll, 1 with the gateway and 1 fault | @bu@ | statuses move forward, commands are begun once and end, what is called written was written, failures show |
| `run_doubt_revival`, `verdict_overwritten`, `bus_spool` | 1 run, 1 evaluation with 1 call each; 1 command and 2 faults | stops at the violation | section 6 |

**Bounds and why they are enough.** Evaluations do not influence each other except by the slots they
count, so one evaluation suffices for everything but slots; there two are needed, and of one user, for
the two limits to bind. Two calls are what ownership needs: one stale, one current; a third adds only
another stale call (and the theorems hold for any number). Two deliveries of a completion are one winner
and one loser; `MaxDeliveries` is the only counter in EvaluationDispatch. In RunDispatch `MaxPreparers`
bounds preparations of one run in flight (two: the one that expired and its successor) and `MaxCrashes`
the deaths of the process. `run_live` has two calls, so that the wedge of section 6 is in it, and one crash,
which the theorems about other properties bound nowhere (`FailuresAreTold` excludes it). Its constraint `Open` stops
following the run when its result is settled: both properties hold of it from then on. `dispatch_slots`
has a state
constraint, `Competing`: no deletion, shutdown, late POST or result, which only end the competition.
Two jobs for one slot are the least that queue, block and overtake each other in the
Evaluator; what makes a job awkward (images, a cancellation, containers that stay) is given to one of
them, so that the other is the bystander whom the first may harm. In `pool`, disk, image size and
reserve leave room for one image, one job needs both and the other one of them; the estimate is so small
that a second pull is admitted and finds the disk full. Each kind of contention happens, eviction and
ENOSPC included. With one reference per image (`References`) the fallback to the next is left to the
theorems, which hold for any number, as with two the run exceeds its time; `MaxPulls` is 1, the least
that makes pulls wait. One fault is enough to interrupt each step once and to
recover from it; a fault during the recovery from another is not covered by these three runs. In `bus`
two commands without the gateway make an earlier and a later delivery; the gateway adds the second
channel and the fault, for one command, as two with both exceed the time for a run (`Carried`,
`MaxFaults`). Calls, runs and evaluations are symmetric where no liveness is checked. Deadlock is
checked in the evaluation runs, `service` and `pool`; RunDispatch may stop for good when a case has been
deleted or a run has ended, the Evaluator of `service_live` when its jobs are completed and no fault is
left (nobody cancels there), and the bus when every command has ended and been told: hence
CHECK_DEADLOCK FALSE.

**Fairness and why the code justifies it.** Weak fairness throughout, on steps, not on luck:
- calls end: every await in them has a deadline, and a step that finds its condition gone returns;
- sweeps and reaper: timers that run for the life of the process (`startBenchmarkEvaluationWatchdog`,
  `startBenchmarkRunWatchdog`) and, after a crash, from start-up again;
- deliveries of a completion: Evaluator and executor repeat them until they are answered, and the
  platform does not die, nor the database refuse the write, at the same point of every repetition
  (strong fairness of `Resume` and `Finalize`);
- reconciliation of a cancellation: its watchdog repeats it until every target is confirmed, which an
  Evaluator that is stopped does not answer (`CancellationConfirms` asks for one that is up);
- `JobEnds` of a run: the executor runs agents under a timeout. Reaping is fair only for a run
  whose agent does not run any more: a running agent sends heartbeats, which postpone its deadline;
- a client is not busy whenever it is asked: it may answer "busy" any number of times, but its agents
  have deadlines (strong fairness of an answer that is not "busy");
- the Evaluator's tasks, timers and admissions are steps of its event loop; a service that is down and
  not stopped is started again (`scripts/evaluator.sh:448`); a platform that is asked again and again
  answers one day, hence strong fairness of `Delivers` alone: an attempt may fail any number of times;
- the pool's loops retry on a signal and on a short timer, Docker answers what it was asked, and a
  condition that holds again and again is seen (strong fairness of `Work` and `Job`), and the eviction
  before a failure (`Reclaim`) ends; `TimesOut` and `Cancel` have none, so `AcquireEnds` does not live on timeouts;
- on the bus, time passes (`Expires`), somebody keeps the page open, whose poll sweeps and reconciles,
  and `MarkSent` goes on; client and channels have no fairness, so commands end whatever these do;
- nothing is assumed of the user, of the arrival of an answer, of a shutdown or restart, of a
  health probe, of the pump's choice of a run, or, in RunDispatch, of the evaluations: their watchdog
  exempts those whose dispatch is in doubt, without limit.

`FinishedJobSettles` asks that the verdict is *saved*: a note that the database refused it settles nothing.
It lets go of an evaluation whose job is stopped, by a shutdown or a cancellation, before it was delivered,
and has one delivery at a time (section 6 says what a second one does). `JobsEnd` likewise lets go of a job
that is stopped, and of all while containers hold a slot that nobody can remove. `CancellationConfirms`
is stated where the Evaluator's address is known or no dispatch ever began: section 6 says why.
`DispatchedRunEnds` exempts a run that its own two calls have wedged (`Wedged`): one writes "accepted"
or "failed" to the outbox, the other then "dispatch_unknown" to the run, and nothing resolves it (the
hazard at `scheduler.ts:451`). It stops at a submission with its evaluation, which EvaluationDispatch
takes over. `EndedRunIsTold` speaks of behaviours without a crash, as what `closing` holds in memory is
lost in one (section 6).

Every property of a passing run has a mutant in `PROJECT.json`: an operator of the module that
changes one mapped definition, with which TLC finds the property violated in that run.

## 5. The theorems

`EvaluationDispatchProofs`, for any sets of evaluations, calls and users and any limits:

| theorem | statement |
|---|---|
| `TypeCorrect` | `Spec => []TypeOK` |
| `RowsAlwaysAgree` | `Spec => [](TypeOK /\ Agreement)` |
| `SettlingClosesCase` | without database faults, `[]SettledClosesCase` |
| `AcceptedStays` | `[]AcceptedIsNotQueued` |
| `SettlingIsFinal` | without database faults, `SettledIsFinal` |
| `EvaluationSettlesOnce` | without database faults, `SettlesOnce`: the refinement |
| `StaleCallsAreSilent` | `StaleCallWritesNothing` |
| `ConfirmationMeansQuiet` | `[]ConfirmedCancelIsQuiet` |
| `SettlingClosesCaseAfterFaults` | with or without database faults, if `MaxDeliveries = 1`, `[]SettledClosesCase` |
| `ReservationsFit` | `[]ReservationsWithinLimits` |

`SettledClosesCase` is not inductive: a party that ends an evaluation writes case run and result
only where *they* are still open, so one must know that an open evaluation has an open case.
`Agreement` adds that: an active evaluation has a submitted run, a pending result and no frozen
completion; a deleted case has a cancelled, a judged or a judging evaluation (a delivery claims before
it notices the deletion); an accepted outbox goes with no waiting evaluation; and, without database
faults, every status comes with its `Outcome` in run and result. Of an evaluation that is being judged
the outcome is `Untold`: nothing is written yet, or its case has failed, where a failed normalization
is taken up again. A delivery under way means a frozen completion; that is in `TypeOK`, with the bound on
deliveries. The proof goes by the parties:
`EndingAgrees` for the four outcomes of a call, `CallAgrees` for its other steps,
`EvaluationAgrees` for callbacks, watchdog, deletion and Evaluator, `StepAgrees` for all of them.

The action theorems rest on one fact, `StepMoves`: a step moves at most one evaluation, along one of
the moves Reopened, Frozen, Retaken, Pronounced, GivenUp, Withdrawn and FailureWithdrawn. `Retaken` is
the one that leaves a settled state, and takes a delivery that had read the row before: as none reads one
that failed for good (`UnreadIsAbandoned`), there are ever fewer of them. `SettledIsFinal` reads off
that list; `PhaseMoves` and `MovesImplement` map each move to a step of SettleOnce or to a
stutter. `ConfirmationMeansQuiet` has its own strengthening, `Quiet`: an outbox that was never
claimed has sent nothing, and a confirmed cancellation is of such an outbox or of a job whose
tombstone the Evaluator holds.

With database faults `SettledClosesCase` needs another strengthening, `RetriesFit`: who still has a
verdict to write finds the case open or failed by the reaper, never with another verdict. That is so as
long as one completion of an evaluation is handled at a time, as in `dispatch_live`; with two it is
false (section 6), hence the hypothesis `MaxDeliveries = 1`. `EndingRetries`, `CallRetries` and
`EvaluationRetries` prove its step by party.

`ReservationsFit` is the one result here that counts. A call that admits has read the reservations of
all *other* evaluations at its address and of its user and found room (`Occupied`, `HasSlot`), and it
adds itself: `OneMore`, from the library's facts on cardinalities. Nothing else makes a queued
evaluation with a slot: `EndingSlots` and `StepSlots` show that any other step only loses some. For
cardinalities to say anything the sets must be finite, and they are although `Evals` need not be: slots
are kept by evaluations with a frozen address (`SlotsFit`), and each step freezes at most one.

`RunDispatchProofs`, for any numbers of runs, calls, preparations and crashes:

| theorem | statement |
|---|---|
| `TypeCorrect` | `Spec => []TypeOK` |
| `FailuresAreTold` | if the process never dies, `[]NoResultForgotten` |
| `CancellationIsFinal` | `CancelledIsFinal` |
| `AcceptanceIsJournalled` | `[]AcceptedIsJournalled` |

`IInv` adds to the types which runs have an outbox (`HasOutbox`: a timer, an evaluation, a draft of one,
and each status from dispatching on needs one) and what a withdrawn run looks like (`Withdrawal`:
cancelled implies withdrawn; a withdrawn run is not submitted and its result not pending). It says
nothing of the evaluation, which a draft may add to a withdrawn run; `CancelledIsFinal` holds since
such a one is never sent. `NoResultForgotten` is false after
a crash between the two transactions that end a run and its result (section 6), hence the hypothesis
`MaxCrashes = 0` of the theorem. `AcceptedIsJournalled` is strengthened by `Journalled`: an answer
"accepted" that a call has not read yet is already the answer of a journalled job.

`EvaluatorServiceProofs` and `EvaluatorSlotsProofs`, for any finite set of runs, any number of slots
and of faults:

| theorem | statement |
|---|---|
| `TypeCorrect` | `Spec => []TypeOK` |
| `CancelledNeverRuns` | `[]CancelledStaysDown` |
| `StopMissesNoJob` | `[]StopReachesEveryJob` |
| `NothingEvaluatedTwice` | `EvaluatedOnce` |
| `ContainersAreLimited` | `[]ContainersWithinLimit` |
| `StoppedNeverRuns` | `[]StoppedStaysDown` |
| `ServiceImplementsJob` | `Spec => JobSpec`: the refinement |

Here `IInv` is the types and five facts about who may still know a job. `NamesKnown`: queue, timers,
containers and stop loops name only jobs of the journal. `DownIsQuiet`: a process that is down has
nothing in memory, and the second loop of the stop tool runs only while it is down. `CancelledIsMarked`:
a run that was told "cancelled" is marked, has no task and no containers; marks are never removed and
`start` refuses a marked run, so neither a late POST nor queue, timer or recovery brings it up again.
`ResultIsNew`: a task before its result has none, which makes `EvaluatedOnce` a matter of the one
action that starts a harness. `LoopCovers`: in the second loop a job is terminal, marked, or still
before it; this holds because no task is left to change a stage behind the loop's back. `JobFits`,
`LoopFits`, `RecoverFits` and `StoppingFits` prove the step by party, `StepFits` joins them.

`ContainersWithinLimit` says nothing of the jobs that have no containers *yet*: a queued job, a
recovered one, a POST between the admission check and its write, a marked task that has not seen an
abort. `SInv` counts those too. `Holders` are the runs with containers, with a working stage and no
result, or with a task that may start a harness (`Starting`); there are never more than slots,
and room for one more while a POST is inside admission (`SlotsHold`). Only `Accept` adds a holder
(`JobHolders`), because `RunFits` ties each run's files, memory and containers together: a task or queue
place that leads to a harness belongs to a holder, containers belong to a job that admission counts
or that recovery will clean up, a job not accepted yet has nothing, who delivers has a result, and a job whose stop notice went out has
neither containers nor a task that leads to some (`NotifiedFits`, hence `StoppedNeverRuns`).
`OthersUntouched` says that a step of one job leaves every other alone, apart from the next in the
queue. The refinement then reads off `SInv` that a job moves as EvaluatorJob allows (`JobStepMoves`,
`StoppingWithdraws`) and that what the platform sees as held is a holder (`HeldHolds`).

`ImagePoolProofs`, for any finite set of images, any jobs with any needs, any disk, image size and
estimate, slots, references and faults:

| theorem | statement |
|---|---|
| `Invariance` | `[]IInv` |
| `TypeCorrect` | `[]TypeOK` |
| `UsedStays` | `[]UsedImageStays` |
| `ResolvedStays` | `[]ResolvedImageStays` |
| `PullsStayCounted` | `[]PullsAreCounted` |
| `EstimatedPullsFit` | if `ImageSize <= Estimate`, what is there and what Docker pulls fit the disk, always |

None of the safety properties is inductive: the pool looks at an image, waits for Docker, and
acts. `IInv` ties together the three places that know of an image. `GcFits`: what is under eviction is
marked "deleting", and is there until it is removed. `LingerFits`: what Docker may still remove for a
pool that lost the connection is marked uncertain, or the pool is down. `WorkReady` and `RegisterReady`:
a preparation that ended well, and a job that is about to register, are of an image that is there,
known, and marked for no removal. They make `UsersFit` inductive, which is `UsedImageStays` (`SafeStays`
is the heart of it: no step takes a ready image away). For the pulls, `PullsFit` says that for whatever
Docker pulls an operation keeps its space set aside, by a live preparation or as uncertain. `CountFits`
bounds what is set aside by `MaxPulls`: only `Reserve` adds to it (`AsideStep`), one that holds a slot,
and none begins while an earlier one is in doubt. `EstimatedPullsFit` answers what the estimate is for:
where it covers the size (`EstimateCovers`), `SpaceFits` bounds the images that are there together with
all that is set aside, and `EnoughIsFree` and `ReserveHasRoom` show that the percentage `Reserve` tests
leaves room for one more. Where it does not, the pool meets a full disk, and `pool` checks that its
acquisitions end all the same. `NextSplits` groups the actions once for all these proofs; `SizeSubset`,
`SizeUnion` and `AddOne` are what is needed of cardinalities.

`CommandBusProofs`, for any set of commands, any sharing of snapshots, any faults, with and without
the gateway:

| theorem | statement |
|---|---|
| `Invariance` | `[]IInv` |
| `TypeCorrect` | `[]TypeOK` |
| `ConfirmedOnlyIfWritten` | `[]ConfirmedWasWritten` |
| `StatusForward` | `StatusMovesForward` |
| `CommandBegunOnce` | `BegunOnce` |

A row says "written" because a receipt said so, which was posted, spooled, read from the spool, or sent
by a socket that has been closed since; the claim is therefore about every place where a receipt can be.
`JobsTold`, `ReceiptsTold` and `SpoolTold` say it of the job, of the requests under way and of the spool
with the copy a flush holds: whoever says that a command succeeded says it of a snapshot that was
written. `WroteGrows` keeps it true, since a file once written was written. `PostFits`, one receipt of a
flush on its way at a time, gives `FlushAnswered` the entry it removes. `StatusForward` needs of the
invariant only that a command whose notification has not begun is still to be created: every other write
tests the status it replaces. For `BegunOnce`, a job that is under way is `handled`, which both channels
test.

The assumptions used are those in the modules (`CallsAssumption`, `UsersAssumption`, `LimitsAssumption`,
`FaultsAssumption`; `RunsAssumption`, `LimitsAssumption`, `ReportsAssumption`; `RunsAssumption`,
`ConcurrencyAssumption`, `FaultsAssumption`; `ImagesAssumption`, `SpaceAssumption`; `BusAssumption`),
which TLC evaluates in the runs. They say that constants are of their kind: numbers are numbers, a
default value is none of the set it stands beside. `IsFiniteSet(Images)` in the pool, and the finite set
of runs in EvaluatorService, are there because sizes are counted; a deployment has finitely many of
either.

Only model-checked: all liveness properties, as temporal reasoning with fairness and ENABLED is out of
the prover's reach (`FinishedJobSettles`, `CancellationConfirms`, `DispatchedRunEnds`, `EndedRunIsTold`,
`JobsEnd`, `AcquireEnds`, `CommandsEnd`, `FailureShows`). Every safety property of a passing run is stated
by a theorem. The three that do not hold of the code, in `run_doubt_revival`, `verdict_overwritten` and
`bus_spool`, have counterexamples instead. Induction over data is out of reach,
too; these modules have no recursive definitions.

## 6. Where code and documents disagree

Shown by a run whose property TLC finds violated:
- `run_doubt_revival` — `data-control-flow.md:420` says a late dispatch cannot revive a task that
  has ended. `scheduler.ts:463` writes "dispatch_unknown" to any run that is not cancelled.
- `verdict_overwritten` — `evaluator.md:220` says the final write cannot overwrite a failure that the
  watchdog has written. The last transaction does not; the note that the database refused it does
  (`recordPersistenceFailure`, `evaluation-callback-service.ts:380`, tests only "not cancelled").
- `bus_spool` — the comment at `reliability-client.cjs:2542` says a receipt that could not be sent is
  kept on disk and sent later. `flushSpool` ends by writing back what *it* could not send
  (`:2566`), and overwrites a receipt that was spooled while it posted.

Known divergences without a run of their own, seen in the models while they were written:
- `evaluation-dispatch.md:366` allows one more POST after an unclear answer; `evaluation-scheduler.ts:752`
  retries without limit.
- `data-control-flow.md:71` says an unknown acceptance keeps its slot. A call that read the row as
  queued may put it back to queued without a reservation (`evaluation-scheduler.ts:757`).
- By the same line slots are reserved by address and user; the admission lets a redispatch pass before it
  counts (`evaluation-scheduler.ts:643`), even if it never had a reservation.
- `data-control-flow.md:420` and `result-processing.md:184` have the watchdog reap uncertain
  dispatches; `evaluationTimeout` (`evaluation-scheduler.ts:119`) exempts dispatch_unknown.
- By the former, a late completion cannot revive a reaped evaluation; `verdict_overwritten` shows it. With two completions of an
  evaluation at once, one may have written its verdict when the database refuses the other's: the
  status becomes "normalization_failed", a repeated completion resumes it, and the reaper may then fail an
  evaluation whose case and result tell the verdict (set `MaxDeliveries` to 2 in `dispatch_live`).
- `evaluation-callback-service.ts:489`: a repeated completion that read the evaluation before its
  normalization failed for good puts it back to "normalizing" and may write another verdict over a case
  that has failed. `SettledIsFinal` and `SettleOnce` say so.
- `evaluation-preparation-service.ts:160`, `:229`: between the read of a submitted run and the creation
  of its evaluation the case may be deleted. The evaluation is created queued all the same; its dispatch
  is refused for ever, nobody ends or cancels it, and it may stand at the head of the admission's queue
  (`evaluation-scheduler.ts:661`), before others of its user.
- `scheduler.ts:451`: of two calls for one run, one settles the outbox and the other then notes
  "dispatch_unknown": the run stays in execution for ever, and holds its place in the concurrency
  (`Wedged`). The same overlap, or a receipt after the window, may put more runs in execution than the
  experiment allows.
- `scheduler.ts:472` fails a run "after a retry with the same runId"; `attemptCount` also counts the
  claims that a busy client answered, so the first unknown outcome may be the last.
- `cancellation-service.ts:130` waits for a dispatch that is "determining its target" whenever the
  outbox was ever claimed. If that dispatch failed before it bound one, none will come, and the
  cancellation stays unconfirmed (drop the exemption from `CancellationConfirms` to see it).
- `deploy-services.md:383` says recovery makes experiments converge. A run's failure and its result's
  failure are two transactions; a crash between them is not repaired.
- `scheduler.ts:558`: the lease sweep returns an outbox to unknown and a new call claims it, past the
  limit of two attempts, which only the call itself tests.
- `evaluation-callback-service.ts:409`: a stop notice ends an evaluation and leaves its outbox; one that
  is unknown is dispatched again for ever.
- `data-control-flow.md:49` has the result of a stopped job reported after the service resumed.
  A job that sees the stop mark and unwinds to "cancelled" before the loop of `shutdown` reaches it
  (`service.cjs:823`) is passed over and gets no mark of its own; `flushStopNotifications` asks for that
  mark, so it is never reported.
- A stop notice that does arrive is never acknowledged: the platform answers it without a
  `normalizedResult` (`evaluation-callback-service.ts:407`, `:421`), the client refuses such an answer
  (`platform-client.cjs:53`), and the service keeps the notice pending and repeats it
  (`service.cjs:838`).
- `service.cjs:700`: a job that the stop tool has marked, or that `cancel` has marked and not aborted yet,
  may still start its containers; it is stopped by a later abort or clean-up. `StoppedStaysDown`
  shows that none does so after its notice went out.
- `service.cjs:932` against `cancel`: a cancellation that comes while the POST is being admitted finds
  neither a request nor a task and answers "cancelled"; the admission then writes "accepted" and
  `start` refuses to run it. The job stays "accepted" and holds its slot until a restart. It never
  runs (`CancelledStaysDown`), hence `JobsEnd` exempts runs with a mark.
- The comment at `service.cjs:809` says that the final clean-up of an active run confirms its
  termination; one that delivers its result only notices the cancellation as a failed delivery, and
  stays "callback_pending".
- `service.cjs:860`: the recovery queue moves on when a task ends; a queued run that was cancelled
  meanwhile throws in `start` before it is a task, and the runs behind it wait for the next restart
  or for the platform to ask again. `JobsEnd` covers queues without such a run.
- `image-pool.cjs:420`: an image that is pulled while the eviction of its former record is past the
  removal is refused by `Resolve` and then forgotten: it stays in Docker, owned by nobody.
- A job that joins the preparation of a prefetch inherits its rank for eviction: it fails with a
  retryable SPACE_LOW although images under protection could have gone.
- `client-config-service.ts:612`: a late receipt takes a delivery back from "ras_loaded" to "written";
  `:225` reads a delivery and then writes "notify_failed" over what came between; `:363` creates the
  row after the dispatch, so early receipts find none and it stays "sync_notified". A receipt that
  is the first to find its command expired is refused and the delivery stays "pulling". The handled
  commands are in memory (`reliability-client.cjs:2701`): after a restart the poll may begin one again.

## 7. What is left out

Data that no property speaks of: request bodies, digests, scores, artifacts, traces, log texts.
Network and process I/O of the services. Clocks: all deadlines are "may have passed", so nothing is
said about durations. Within the modelled files: several experiments sharing the platform's
budget, repeated cases (`retryOfRunId`), re-evaluation attempts, supplemental evaluators, the
experiment's own status, batch limits of the sweeps; the pool's maintenance that empties windows;
commands other than configuration; the client's journal of executor runs.

Whole parts: the evaluation continuation, the telemetry consumer and fault injection are protocols
of their own and are in the plan. The ordinary experiment engine, skills, quality monitoring, web
interface, collectors, adapters and the RAS detectors are most of the repository's lines: pages, data
conversion and LLM calls, with at most one actor per row. A state machine of them would restate their
assignments. The hazards in `PROJECT.json` without `properties` say why none covers them.

## 8. Plan

1. `EvaluationDispatch`, `SettleOnce`, proofs. *Done.*
2. `RunDispatch`, proofs. *Done.*
3. `EvaluatorService` with `EvaluatorJob`, the job as EvaluationDispatch sees it, proofs. *Done.*
4. `CommandBus`. *Done for the commands that carry configurations.*
5. `ImagePool`. *Done.*
6. `EvaluationResult`: re-evaluation attempts, the latest attempt decides, continuation lease.
7. `FaultInjectionClaims`, `OtelConsumer`: claims with stale sweeps, cursors and the process lock.
8. `BenchmarkPipeline`: the composition of runs, evaluations and experiment status, all kinds of
   cancellation targets.

Theorems to come: those of the modules 6 to 8. Of today's, `NoResultForgotten` could do without
`MaxCrashes = 0` by saying which runs a crash leaves behind.
