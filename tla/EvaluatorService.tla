-------------------------- MODULE EvaluatorService --------------------------
(***************************************************************************)
(* The Evaluator service: how it admits a job, runs it in containers,      *)
(* delivers its result, cancels it, stops, is killed and recovers.         *)
(*                                                                         *)
(* On disk: the journal of jobs, a mark per cancelled run and the mark of  *)
(* a stopped service.  In memory: the active tasks, the image preparations,*)
(* the recovery queue, the retry timers.  Requests, tasks, cancellations,  *)
(* the shutdown and the stop tool interleave at every await; a file is     *)
(* read or replaced in one step.                                           *)
(***************************************************************************)
EXTENDS Naturals, Sequences, FiniteSets

CONSTANTS
  Runs,
  MaxConcurrency,
  Pooled,         \* runs whose benchmark describes images for the image pool
  Cancels,        \* runs the platform may cancel
  Sticky,         \* runs whose containers Docker may fail to remove
  MaxFaults,      \* bound: crashes, signals and uses of the stop tool
  NoRun

ASSUME RunsAssumption ==
  IsFiniteSet(Runs) /\ NoRun \notin Runs /\ Pooled \cup Cancels \cup Sticky \subseteq Runs
ASSUME ConcurrencyAssumption == MaxConcurrency \in Nat \ {0}
ASSUME FaultsAssumption == MaxFaults \in Nat

VARIABLES
  stage,       \* state.json: the job's stage, "none" without a request.json
  unreleased,  \* runs whose state.json says resourcesUnreleased
  result,      \* result.json: "none", the evaluator's "output", the "completion"
  mark,        \* control/cancelled: "none", "cancelled" or "stopped"
  control,     \* "stopped" while control/stopped.json exists, else "running"
  containers,  \* runs with containers in Docker
  proc,        \* the process: "down", "up", "signalled" or, its tasks aborted, "stopping"
  task,        \* where the active task of a run is, "idle" without one
  queue,       \* recoveryQueue
  admitting,   \* the run whose POST is inside withAdmission
  preparing,   \* imagePreparations
  timers,      \* runs with a timer for the retry of their callback
  cancelling,  \* runs whose cancel request has written the mark and waits
  told,        \* runs whose cancel request was answered "cancelled"
  notified,    \* runs whose stop notice the platform has received
  todo, seen,  \* what the loops of shutdown and of the stop tool have left
  tool,        \* where the stop tool is
  faults

journalVars == <<stage, unreleased, result>>
diskVars == <<journalVars, mark, control>>
memoryVars == <<task, queue, admitting, preparing, timers, cancelling>>
stopVars == <<proc, todo, seen, tool, faults>>
answers == <<told, notified>>
vars == <<diskVars, containers, memoryVars, answers, stopVars>>

-----------------------------------------------------------------------------
(* Stages, and the questions the code asks of them                         *)

\* Mutant: a POST starts a job whatever its stage, even one the journal lacks.
AnyStage == {"none", "accepted", "working", "cleaning", "uploading_evidence", "callback_pending", "cancelled"}
ACTIVE_STAGES == {"accepted", "working", "cleaning", "uploading_evidence", "callback_pending"}
Waiting == {"waiting_images", "images_ready"}
TERMINAL == {"completed", "failed", "cancelled"}
Stages == {"none", "cancelling"} \cup ACTIVE_STAGES \cup Waiting \cup TERMINAL

stopped == control = "stopped"

\* Mutant: the mark of the run itself is forgotten.
RunningService(r) == ~stopped
Running(r) == ~stopped /\ mark[r] = "none"

\* Mutant: a job that could not be cleaned up gives its slot away.
OccupiesUnlessEnded(r) == stage[r] \in ACTIVE_STAGES \ {"callback_pending"}
Occupies(r) ==
  \/ stage[r] \in ACTIVE_STAGES \ {"callback_pending"}
  \/ r \in unreleased

\* Mutant: off by one.
Overbooked(except) == Cardinality({r \in Runs \ {except} : Occupies(r)}) > MaxConcurrency
hasBusyJob(except) == Cardinality({r \in Runs \ {except} : Occupies(r)}) >= MaxConcurrency

Cleanups(r) == IF r \in Sticky THEN BOOLEAN ELSE {TRUE}

Stoppers == {"service", "tool"}

Write(r, s) == stage' = [stage EXCEPT ![r] = s]
Go(r, pc) == task' = [task EXCEPT ![r] = pc]
Set(f, r, flag) == IF flag THEN f \cup {r} ELSE f \ {r}

start(tasks, r) ==
  IF tasks[r] = "idle" /\ Running(r) THEN [tasks EXCEPT ![r] = "begin"] ELSE tasks

-----------------------------------------------------------------------------
Init ==
  /\ stage = [r \in Runs |-> "none"]
  /\ unreleased = {}
  /\ result = [r \in Runs |-> "none"]
  /\ mark = [r \in Runs |-> "none"]
  /\ control = "running"
  /\ containers = {}
  /\ proc = "up"
  /\ task = [r \in Runs |-> "idle"]
  /\ queue = <<>>
  /\ admitting = NoRun
  /\ preparing = [r \in Runs |-> "none"]
  /\ timers = {}
  /\ cancelling = {}
  /\ told = {} /\ notified = {}
  /\ todo = [s \in Stoppers |-> {}]
  /\ seen = [s \in Stoppers |-> NoRun]
  /\ tool = "off"
  /\ faults = 0

-----------------------------------------------------------------------------
(* Admission: POST /api/v1/evaluations                                     *)

\* The checks of a new POST; the awaits that follow leave them behind.
Admit(r) ==
  /\ proc = "up" /\ admitting = NoRun /\ Running(r)
  /\ stage[r] \in {"none"} \cup Waiting
  /\ ~hasBusyJob(r)
  /\ admitting' = r
  /\ UNCHANGED <<diskVars, containers, task, queue, preparing, timers, cancelling, answers, stopVars>>

\* prepareBeforeAdmission: begin to acquire the images, report a failure, or wait.
PrepareImages(r) ==
  /\ admitting = r /\ r \in Pooled
  /\ \/ /\ preparing[r] = "none"
        /\ Cardinality({q \in Runs : preparing[q] # "none"}) <= MaxConcurrency
        /\ Write(r, "waiting_images")
        /\ preparing' = [preparing EXCEPT ![r] = "busy"]
     \/ preparing[r] = "error" /\ preparing' = [preparing EXCEPT ![r] = "none"] /\ UNCHANGED stage
     \/ preparing[r] \in {"none", "busy"} /\ UNCHANGED <<stage, preparing>>
  /\ admitting' = NoRun
  /\ UNCHANGED <<unreleased, result, mark, control, containers, task, queue, timers, cancelling, answers, stopVars>>

Accept(r) ==
  /\ admitting = r
  /\ r \in Pooled => preparing[r] = "ready"
  /\ Write(r, "accepted")
  /\ preparing' = [preparing EXCEPT ![r] = "none"]
  /\ task' = start(task, r)
  /\ admitting' = NoRun
  /\ UNCHANGED <<unreleased, result, mark, control, containers, queue, timers, cancelling, answers, stopVars>>

\* A job the journal knows is answered with its stage, and started once more.
Repost(r) ==
  /\ proc = "up" /\ admitting = NoRun /\ Running(r)
  /\ stage[r] \in ACTIVE_STAGES
  /\ task' = start(task, r)
  /\ UNCHANGED <<diskVars, containers, queue, admitting, preparing, timers, cancelling, answers, stopVars>>

\* The images are acquired, or are not; a run that was stopped meanwhile fails.
ImagesArrive(r) ==
  /\ preparing[r] = "busy"
  /\ \/ /\ Running(r)
        /\ Write(r, "images_ready")
        /\ preparing' = [preparing EXCEPT ![r] = "ready"]
     \/ preparing' = [preparing EXCEPT ![r] = "error"] /\ UNCHANGED stage
  /\ UNCHANGED <<unreleased, result, mark, control, containers, task, queue, admitting, timers, cancelling, answers, stopVars>>

\* prepareImageWindow: the platform's new window leaves a preparing run out.
LeaveWindow(r) ==
  /\ proc = "up" /\ ~stopped /\ admitting = NoRun
  /\ preparing[r] # "none"
  /\ preparing' = [preparing EXCEPT ![r] = "none"]
  /\ UNCHANGED <<diskVars, containers, task, queue, admitting, timers, cancelling, answers, stopVars>>

-----------------------------------------------------------------------------
(* The task of a job: start and execute                                    *)

\* The timer of a callback retry; several timers of one run count as one.  It is
\* set as the task's last act, and runs for longer than the task needs to end.
Retry(r) ==
  /\ r \in timers /\ task[r] # "end"
  /\ timers' = timers \ {r}
  /\ task' = start(task, r)
  /\ UNCHANGED <<diskVars, containers, queue, admitting, preparing, cancelling, answers, stopVars>>

\* Mutant: a recovered job is evaluated again whatever its journal holds.
Resumption(r) == "stale"
existingResult(r) ==
  CASE result[r] = "none" -> "stale"
    [] result[r] = "output" -> "deliver"
    [] result[r] = "completion" -> "complete"

Begin(r) ==
  /\ task[r] = "begin"
  /\ Go(r, IF Running(r) THEN existingResult(r) ELSE "unwind")
  /\ UNCHANGED <<diskVars, containers, queue, admitting, preparing, timers, cancelling, answers, stopVars>>

\* After the try block, whether it succeeded or not: cancelled, or on to cleaning.
Conclude(r) ==
  IF Running(r) THEN Write(r, "cleaning") /\ Go(r, "clean") ELSE Go(r, "unwind") /\ UNCHANGED stage

\* controller.abort(): what was to start a harness throws instead, and the mark that
\* precedes every abort makes it unwind; a harness at work ends at a time of its own.
Aborted(S) == [r \in Runs |-> IF r \in S /\ task[r] = "prepare" THEN "unwind" ELSE task[r]]

\* Whatever a previous task left in Docker goes first; the progress reported next is
\* refused for a run that was marked.
RemoveStale(r) ==
  /\ task[r] = "stale"
  /\ \E clean \in Cleanups(r) :
       /\ containers' = Set(containers, r, ~clean /\ r \in containers)
       /\ IF clean /\ Running(r) THEN Write(r, "working") /\ Go(r, "prepare") ELSE Conclude(r)
  /\ UNCHANGED <<unreleased, result, mark, control, queue, admitting, preparing, timers, cancelling, answers, stopVars>>

\* Artifacts and images are there and no abort was signalled: the harness runs,
\* also for a run that was marked, and not aborted, meanwhile.
RunHarness(r) ==
  /\ task[r] = "prepare"
  /\ \/ Go(r, "harness") /\ containers' = containers \cup {r} /\ UNCHANGED stage
     \/ Conclude(r) /\ UNCHANGED containers
  /\ UNCHANGED <<unreleased, result, mark, control, queue, admitting, preparing, timers, cancelling, answers, stopVars>>

\* It ends, fails, times out or is aborted; its containers may outlive it.
HarnessEnds(r) ==
  /\ task[r] = "harness"
  /\ Conclude(r)
  /\ containers' \in {containers, containers \ {r}}
  /\ UNCHANGED <<unreleased, result, mark, control, queue, admitting, preparing, timers, cancelling, answers, stopVars>>

CleanUp(r) ==
  /\ task[r] = "clean"
  /\ \E clean \in Cleanups(r) :
       /\ containers' = Set(containers, r, ~clean /\ r \in containers)
       /\ unreleased' = Set(unreleased, r, ~clean)
  /\ Go(r, "save")
  /\ UNCHANGED <<stage, result, mark, control, queue, admitting, preparing, timers, cancelling, answers, stopVars>>

SaveResult(r) ==
  /\ task[r] = "save"
  /\ result' = [result EXCEPT ![r] = "output"]
  /\ Go(r, "deliver")
  /\ UNCHANGED <<stage, unreleased, mark, control, containers, queue, admitting, preparing, timers, cancelling, answers, stopVars>>

-----------------------------------------------------------------------------
(* Delivery: deliverResult, handleDeliveryFailure                          *)

\* Mutant: a failure waits for a retry that nobody set.
DeliveryFailsForGood(r, retryable) ==
  Write(r, IF retryable THEN "callback_pending" ELSE "failed") /\ Go(r, "end") /\ UNCHANGED timers

\* A failure worth a retry sets a timer, a refusal ends the job.
DeliveryFails(r, retryable) ==
  /\ Write(r, IF retryable THEN "callback_pending" ELSE "failed")
  /\ timers' = IF retryable THEN timers \cup {r} ELSE timers
  /\ Go(r, "end")

Deliver(r) ==
  /\ task[r] = "deliver"
  /\ \/ Running(r) /\ Write(r, "uploading_evidence") /\ Go(r, "upload") /\ UNCHANGED timers
     \/ ~Running(r) /\ DeliveryFails(r, TRUE)
  /\ UNCHANGED <<unreleased, result, mark, control, containers, queue, admitting, preparing, cancelling, answers, stopVars>>

UploadEvidence(r) ==
  /\ task[r] = "upload"
  /\ \/ /\ Running(r)
        /\ result' = [result EXCEPT ![r] = "completion"]
        /\ Write(r, "callback_pending")
        /\ Go(r, "complete") /\ UNCHANGED timers
     \/ \E retryable \in BOOLEAN : DeliveryFails(r, retryable) /\ UNCHANGED result
  /\ UNCHANGED <<unreleased, mark, control, containers, queue, admitting, preparing, cancelling, answers, stopVars>>

\* The platform acknowledges the completion, or does not, or its answer is lost.
Complete(r) ==
  /\ task[r] = "complete"
  /\ \/ Write(r, "completed") /\ Go(r, "end") /\ UNCHANGED timers
     \/ \E retryable \in BOOLEAN : DeliveryFails(r, retryable)
  /\ UNCHANGED <<unreleased, result, mark, control, containers, queue, admitting, preparing, cancelling, answers, stopVars>>

\* The task leaves the active map, and unless it holds resources the next starts.
End(r) ==
  /\ task[r] = "end"
  /\ IF r \in unreleased \/ queue = <<>>
       THEN Go(r, "idle") /\ UNCHANGED queue
       ELSE /\ queue' = Tail(queue)
            /\ task' = start([task EXCEPT ![r] = "idle"], Head(queue))
  /\ UNCHANGED <<diskVars, containers, admitting, preparing, timers, cancelling, answers, stopVars>>

-----------------------------------------------------------------------------
(* Cancellation                                                            *)

\* cleanupCancelled, by the task that unwinds, by cancel or by recover.
Cancelled(r, clean) ==
  /\ Write(r, IF clean THEN "cancelled" ELSE "cancelling")
  /\ containers' = Set(containers, r, ~clean /\ r \in containers)
  /\ unreleased' = Set(unreleased, r, ~clean)

Unwind(r) ==
  /\ task[r] = "unwind"
  /\ \E clean \in Cleanups(r) : Cancelled(r, clean)
  /\ Go(r, "end")
  /\ UNCHANGED <<result, mark, control, queue, admitting, preparing, timers, cancelling, answers, stopVars>>

\* The mark comes first: a run not heard of yet is refused when it arrives.
Cancel(r) ==
  /\ proc = "up" /\ r \in Cancels \ cancelling
  /\ mark' = [mark EXCEPT ![r] = "cancelled"]
  /\ cancelling' = cancelling \cup {r}
  /\ UNCHANGED <<journalVars, control, containers, task, queue, admitting, preparing, timers, answers, stopVars>>

\* It aborts the task; once no images are acquired for the run, a task that is
\* still active is left to unwind by itself.
CancelEnds(r) ==
  /\ r \in cancelling /\ preparing[r] # "busy"
  /\ preparing' = [preparing EXCEPT ![r] = "none"]
  /\ cancelling' = cancelling \ {r}
  /\ task' = Aborted({r})
  /\ \/ task[r] # "idle" /\ UNCHANGED <<journalVars, containers, told>>
     \/ task[r] = "idle" /\ stage[r] = "none" /\ told' = told \cup {r} /\ UNCHANGED <<journalVars, containers>>
     \/ /\ task[r] = "idle" /\ stage[r] # "none"
        /\ \E clean \in Cleanups(r) : Cancelled(r, clean) /\ told' = Set(told, r, clean \/ r \in told)
        /\ UNCHANGED result
  /\ UNCHANGED <<mark, control, queue, admitting, timers, notified, stopVars>>

-----------------------------------------------------------------------------
(* Stop, crash, recovery                                                   *)

\* The loops of shutdown and of the stop tool read a job's stage, ...
\* Mutant: the stop tool passes over jobs that wait for their images.
ActiveOnly(s) == ACTIVE_STAGES
Concerned(s) == IF s = "service" THEN ACTIVE_STAGES ELSE Stages \ (TERMINAL \cup {"none"})

Look(s, r) ==
  /\ seen[s] = NoRun /\ r \in todo[s]
  /\ todo' = [todo EXCEPT ![s] = @ \ {r}]
  /\ seen' = IF stage[r] \in Concerned(s) THEN [seen EXCEPT ![s] = r] ELSE seen
  /\ UNCHANGED <<diskVars, containers, memoryVars, answers, proc, tool, faults>>

\* ... then mark the run and write the stage, whatever the job did meanwhile.
Stop(s) == LET r == seen[s] IN
  /\ r # NoRun
  /\ mark' = [mark EXCEPT ![r] = "stopped"]
  /\ Write(r, "cancelling")
  /\ seen' = [seen EXCEPT ![s] = NoRun]
  /\ UNCHANGED <<unreleased, result, control, containers, memoryVars, answers, todo, proc, tool, faults>>

Known == {r \in Runs : stage[r] # "none"}

\* SIGTERM: shutdown writes the stop mark, ...
Terminate ==
  /\ proc = "up" /\ (tool = "kill" \/ (tool = "off" /\ faults < MaxFaults))
  /\ proc' = "signalled" /\ control' = "stopped"
  /\ faults' = IF tool = "kill" THEN faults ELSE faults + 1
  /\ UNCHANGED <<journalVars, mark, containers, memoryVars, answers, todo, seen, tool>>

\* ... then aborts every task and begins to visit the journal.
AbortAll ==
  /\ proc = "signalled"
  /\ proc' = "stopping" /\ task' = Aborted(Runs)
  /\ todo' = [todo EXCEPT !["service"] = Known]
  /\ UNCHANGED <<diskVars, containers, queue, admitting, preparing, timers, cancelling, answers, seen, tool, faults>>

\* The process is gone: killed, crashed, or at the end of its shutdown.
Exit ==
  /\ proc \in {"signalled", "stopping"} \/ (proc = "up" /\ faults < MaxFaults)
  /\ proc' = "down"
  /\ faults' = IF proc = "up" THEN faults + 1 ELSE faults
  /\ task' = [r \in Runs |-> "idle"] /\ queue' = <<>> /\ admitting' = NoRun
  /\ preparing' = [r \in Runs |-> "none"] /\ timers' = {}
  /\ cancelling' = {}
  /\ todo' = [todo EXCEPT !["service"] = {}] /\ seen' = [seen EXCEPT !["service"] = NoRun]
  /\ UNCHANGED <<diskVars, containers, answers, tool>>

\* The stop tool: stop mark, first loop, stop the Controller, second loop, clean up.
ToolStops ==
  /\ tool = "off" /\ faults < MaxFaults
  /\ tool' = "mark" /\ faults' = faults + 1
  /\ control' = "stopped" /\ todo' = [todo EXCEPT !["tool"] = Known]
  /\ UNCHANGED <<journalVars, mark, containers, memoryVars, answers, proc, seen>>

ToolLoopDone(next) == todo["tool"] = {} /\ seen["tool"] = NoRun /\ tool' = next

ToolKills ==
  /\ tool = "mark" /\ ToolLoopDone("kill")
  /\ UNCHANGED <<diskVars, containers, memoryVars, answers, proc, todo, seen, faults>>

ToolLooksAgain ==
  /\ tool = "kill" /\ proc = "down"
  /\ tool' = "remark" /\ todo' = [todo EXCEPT !["tool"] = Known]
  /\ UNCHANGED <<diskVars, containers, memoryVars, answers, proc, seen, faults>>

\* Containers it cannot remove leave the service stopped and the jobs cancelling.
ToolRemoves ==
  /\ tool = "remark" /\ ToolLoopDone("off")
  /\ containers' \in SUBSET (containers \cap Sticky)
  /\ LET ended == {r \in Known : containers' = {} /\ mark[r] # "none"} IN
       stage' = [r \in Runs |-> IF r \in ended THEN "cancelled" ELSE stage[r]]
  /\ UNCHANGED <<unreleased, result, mark, control, memoryVars, answers, proc, todo, seen, faults>>

\* manage --start
Resume ==
  /\ proc = "down" /\ tool = "off" /\ stopped
  /\ control' = "running"
  /\ UNCHANGED <<journalVars, mark, containers, memoryVars, answers, stopVars>>

Orders(S) == {q \in [1..Cardinality(S) -> S] : \A i, j \in DOMAIN q : q[i] = q[j] => i = j}

\* Cancelled runs to clean up, and jobs whose containers could not be removed.
halfway == {r \in Known : mark[r] # "none" /\ stage[r] # "cancelled"}
held == {r \in unreleased : mark[r] = "none"}

blocked(clean) == (unreleased \ (clean \cap (held \cup halfway))) \cup (halfway \ clean)
recoverable(clean) ==
  {r \in Runs : mark[r] = "none" /\ stage[r] \in ACTIVE_STAGES /\ (r \in unreleased => r \in clean)}
available(clean) ==
  LET n == Cardinality(blocked(clean)) IN IF n < MaxConcurrency THEN MaxConcurrency - n ELSE 0

\* The first jobs begin, the others queue.
Restart(order, slots) ==
  /\ queue' = SubSeq(order, slots + 1, Len(order))
  /\ task' = [r \in Runs |-> IF \E i \in 1..Len(order) : i <= slots /\ order[i] = r THEN "begin" ELSE "idle"]

\* Start-up, before the server listens; some containers cannot be removed.
Recover ==
  /\ proc = "down" /\ ~stopped
  /\ \E stuck \in SUBSET Sticky : LET clean == Runs \ stuck IN
       /\ stage' = [r \in Runs |-> IF r \notin halfway THEN stage[r]
                                   ELSE IF r \in clean THEN "cancelled" ELSE "cancelling"]
       /\ unreleased' = blocked(clean)
       /\ containers' = containers \ (clean \cap (Pooled \cup halfway \cup held))
       /\ \E order \in Orders(recoverable(clean)) : Restart(order, available(clean))
  /\ proc' = "up"
  /\ UNCHANGED <<result, mark, control, admitting, preparing, timers, cancelling, answers, todo, seen, tool, faults>>

\* Mutant: a notice does not wait for the clean-up.
DueWhileCancelling(r) == mark[r] = "stopped" /\ stage[r] \in {"cancelling", "cancelled"}
Due(r) == mark[r] = "stopped" /\ stage[r] = "cancelled"

\* flushStopNotifications: the platform receives the notice.  Its answer has no
\* normalizedResult, the client refuses that, and cancellationCallbackPending, which
\* every write of "cancelled" sets, is never cleared: the notice is only repeated.
Flush(r) ==
  /\ proc # "down" /\ Due(r)
  /\ notified' = notified \cup {r}
  /\ UNCHANGED <<diskVars, containers, memoryVars, told, stopVars>>

-----------------------------------------------------------------------------
Task(r) ==
  \/ Retry(r) \/ Begin(r) \/ RemoveStale(r) \/ RunHarness(r) \/ HarnessEnds(r)
  \/ CleanUp(r) \/ SaveResult(r) \/ Deliver(r) \/ UploadEvidence(r)
  \/ Complete(r) \/ Unwind(r) \/ End(r)

Request(r) ==
  \/ Admit(r) \/ Repost(r) \/ PrepareImages(r) \/ Accept(r) \/ ImagesArrive(r) \/ LeaveWindow(r)
  \/ Cancel(r) \/ CancelEnds(r)

Stopping ==
  \/ \E s \in Stoppers : Stop(s) \/ \E r \in Runs : Look(s, r)
  \/ Terminate \/ AbortAll \/ Exit \/ Resume \/ Recover
  \/ ToolStops \/ ToolKills \/ ToolLooksAgain \/ ToolRemoves

Next ==
  \/ \E r \in Runs : Task(r) \/ Request(r) \/ Flush(r)
  \/ Stopping

Spec == Init /\ [][Next]_vars

-----------------------------------------------------------------------------
(* Fairness: the event loop runs every task, timer and admission; a crashed *)
(* process is restarted.  A platform that is asked again and again answers. *)

Work(r) == (Task(r) /\ task' # task) \/ Accept(r) \/ PrepareImages(r)

Delivers(r) ==
  \/ UploadEvidence(r) /\ result'[r] = "completion"
  \/ Complete(r) /\ stage'[r] = "completed"

Fairness ==
  /\ \A r \in Runs : WF_vars(Work(r)) /\ SF_vars(Delivers(r))
  /\ WF_vars(Recover)

FairSpec == Spec /\ Fairness

-----------------------------------------------------------------------------
(* Properties                                                              *)

Places ==
  {"idle", "begin", "stale", "prepare", "harness", "clean", "save", "deliver",
   "upload", "complete", "end", "unwind"}

\* The journal and the memory are as the code knows them; a task has its job on disk.
TypeOK ==
  /\ stage \in [Runs -> Stages]
  /\ unreleased \subseteq Runs /\ containers \subseteq Runs /\ told \subseteq Runs /\ notified \subseteq Runs
  /\ result \in [Runs -> {"none", "output", "completion"}]
  /\ mark \in [Runs -> {"none", "cancelled", "stopped"}]
  /\ control \in {"running", "stopped"}
  /\ proc \in {"up", "signalled", "stopping", "down"}
  /\ task \in [Runs -> Places]
  /\ queue \in Seq(Runs)
  /\ admitting \in Runs \cup {NoRun}
  /\ preparing \in [Runs -> {"none", "busy", "ready", "error"}]
  /\ timers \subseteq Runs
  /\ cancelling \subseteq Runs
  /\ todo \in [Stoppers -> SUBSET Runs] /\ seen \in [Stoppers -> Runs \cup {NoRun}]
  /\ tool \in {"off", "mark", "kill", "remark"}
  /\ faults \in 0..MaxFaults
  /\ \A r \in Runs : task[r] # "idle" => stage[r] # "none"

\* The containers in Docker belong to at most MaxConcurrency runs, also when a
\* removal failed, after a crash, and when recovery restarts jobs in a row.
ContainersWithinLimit == Cardinality(containers) <= MaxConcurrency

\* A run whose cancellation was answered "cancelled" has no containers and never
\* gets any, although its POST may be half admitted, queued for recovery or retried.
CancelledStaysDown == told \cap containers = {}

\* A job whose stop the platform was told of has no containers and never gets any
\* again, although marks, aborts, clean-ups and the two stop loops overlap.
StoppedStaysDown == notified \cap containers = {}

\* When the stop tool has passed its second loop, no job it leaves unfinished is
\* without a mark: none is taken up again when the service is started.
StopReachesEveryJob ==
  tool = "remark" /\ todo["tool"] = {} /\ seen["tool"] = NoRun
    => \A r \in Known : stage[r] \in TERMINAL \/ mark[r] # "none"

\* A job whose result is in the journal is delivered again, never evaluated again.
EvaluatedOnce ==
  [][\A r \in Runs : r \in containers' \ containers => result[r] = "none"]_vars

\* The service is the job table that the platform's side takes it for.  A job that was
\* marked, and whose task may still start a harness, is stopping: not yet stopped.
job ==
  [r \in Runs |->
     IF mark[r] # "none" \/ stage[r] \in {"cancelling", "cancelled"}
       THEN IF r \in containers \/ task[r] \in {"stale", "prepare"} THEN "stopping" ELSE "stopped"
     ELSE IF result[r] # "none" THEN "finished"
     ELSE IF stage[r] \in ACTIVE_STAGES THEN "running" ELSE "none"]

Job == INSTANCE EvaluatorJob WITH Capacity <- MaxConcurrency

JobSpec == Job!Spec

\* A job that holds a slot or owes a result ends, also behind the recovery queue,
\* across failed deliveries and crashes, unless it or the service is stopped or
\* containers could not be removed.
JobsEnd ==
  \A r \in Runs : stage[r] \in ACTIVE_STAGES ~> stage[r] \in TERMINAL \/ ~Running(r) \/ unreleased # {}
=============================================================================
