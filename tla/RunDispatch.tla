---------------------------- MODULE RunDispatch ----------------------------
(***************************************************************************)
(* How the platform brings the case runs of one benchmark experiment to    *)
(* the executor of a client, and how a run ends in a submission or fails.  *)
(*                                                                         *)
(* A run is one BenchmarkCaseRun row with its dispatch outbox row, its     *)
(* first evaluation and its official result row.  The experiment's pump    *)
(* picks and prepares pending runs, dispatch calls bring them to the       *)
(* client, the executor reports progress and completion, the watchdog      *)
(* reaps silent runs and the user may delete a case at any time.  The      *)
(* platform may crash between any two transactions.                        *)
(*                                                                         *)
(* A dispatch call sends one RUN_BENCHMARK_CASE command and polls for its  *)
(* receipts until they decide or its window closes.  Time is abstract: a   *)
(* lease, a retry delay or a watchdog deadline may have passed at any      *)
(* moment.  What follows a submission (EvaluationDispatch) appears here    *)
(* as what it does to the run and the result.                              *)
(***************************************************************************)
EXTENDS Naturals, FiniteSets

CONSTANTS
  Runs,
  Calls,          \* dispatchBenchmarkRun calls that may be in flight
  Concurrency,    \* executionConcurrency of the experiment
  Budget,         \* maxPendingEvaluations, per user or of the platform
  Slots,          \* runs the executor executes at once, other users' included
  Reports,        \* the stages its progress reports name
  MaxPreparers,   \* preparations of one run that may be in flight
  MaxCrashes,     \* bound: how often the platform process dies
  NoRun

ASSUME RunsAssumption == NoRun \notin Runs
ASSUME LimitsAssumption == {Concurrency, Budget, Slots, MaxPreparers, MaxCrashes} \subseteq Nat

VARIABLES
  status,      \* BenchmarkCaseRun.status
  stage,       \* the stage in progressJson
  reported,    \* completionDigest is set
  result,      \* status of the official ExperimentEvalResult
  evaluation,  \* the run's first BenchmarkEvaluation
  withdrawn,   \* the case, or its experiment, is deleted
  outbox,      \* BenchmarkDispatchOutbox.status
  attempts,    \* its attemptCount, up to the limit the code tests
  at,          \* where a dispatch call is
  subject,     \* the run it works on
  attempt,     \* the attemptCount it read after its claim
  answer,      \* what the client answered to its command
  timers,      \* runs with a delayed dispatch scheduled
  preparers,   \* preparations of a run that are under way
  closing,     \* runs whose results somebody is about to fail
  answering,   \* runs whose completion the platform is handling
  drafts,      \* evaluations being prepared for a run that was read as submitted
  job,         \* the executor's own record of the run
  late,        \* commands whose sender gave up and that may still arrive
  crashes      \* how often the platform process died

runVars == <<status, stage, reported>>
caseVars == <<result, evaluation, withdrawn>>
outboxVars == <<outbox, attempts>>
callVars == <<at, subject, attempt, answer>>
handlerVars == <<answering, drafts>>
taskVars == <<timers, preparers, closing, handlerVars>>
remoteVars == <<job, late>>
vars == <<runVars, caseVars, outboxVars, callVars, taskVars, remoteVars, crashes>>

-----------------------------------------------------------------------------
(* Statuses                                                                *)

ActiveExecution == {"running_agent", "collecting", "uploading", "cleaning"}
Uncertain == {"dispatching", "dispatch_unknown"}
Active == Uncertain \cup ActiveExecution
Occupying == {"preparing"} \cup Active
Ended ==
  {"evaluated", "blocked", "execution_failed", "evaluation_failed", "dispatch_failed",
   "submission_invalid", "cancelled"}
Statuses == {"pending", "submitted"} \cup Occupying \cup Ended

\* Position in statusRank and in the order of stages.
Rank ==
  [dispatching |-> 1, dispatch_unknown |-> 2, running_agent |-> 3,
   collecting |-> 4, uploading |-> 5, cleaning |-> 6]
Stages == {"preparing", "agent_running", "collecting", "uploading", "cleaning"}
StageRank ==
  [none |-> 0, preparing |-> 1, agent_running |-> 2, collecting |-> 3,
   uploading |-> 4, cleaning |-> 5]

ASSUME ReportsAssumption == Reports \subseteq Stages

AttemptLimit == 2
Outcomes == {"succeeded", "invalid", "failed"}

Init ==
  /\ status = [r \in Runs |-> "pending"]
  /\ stage = [r \in Runs |-> "none"]
  /\ reported = {}
  /\ result = [r \in Runs |-> "pending"]
  /\ evaluation = [r \in Runs |-> "none"]
  /\ withdrawn = {}
  /\ outbox = [r \in Runs |-> "none"]
  /\ attempts = [r \in Runs |-> 0]
  /\ at = [c \in Calls |-> "idle"]
  /\ subject = [c \in Calls |-> NoRun]
  /\ attempt = [c \in Calls |-> 0]
  /\ answer = [c \in Calls |-> "none"]
  /\ timers = {}
  /\ preparers = [r \in Runs |-> 0]
  /\ closing = {}
  /\ answering = {}
  /\ drafts = {}
  /\ job = [r \in Runs |-> "none"]
  /\ late = {}
  /\ crashes = 0

-----------------------------------------------------------------------------
(* The pump: prepareNextBenchmarkCaseRun                                   *)

InExecution == {r \in Runs : status[r] \in Occupying}
Unevaluated == {r \in Runs : status[r] \in Occupying \cup {"submitted"}}

\* One transaction counts the runs under way and claims a pending one.
Pick(r) ==
  /\ status[r] = "pending" /\ r \notin withdrawn
  /\ Cardinality(InExecution) < Concurrency
  /\ Cardinality(Unevaluated) < Budget
  /\ preparers[r] < MaxPreparers
  /\ status' = [status EXCEPT ![r] = "preparing"]
  /\ preparers' = [preparers EXCEPT ![r] = @ + 1]
  /\ UNCHANGED <<stage, reported, caseVars, outboxVars, callVars, timers, closing, handlerVars,
                 remoteVars>>

PreparerLeaves(r) ==
  /\ preparers[r] > 0
  /\ preparers' = [preparers EXCEPT ![r] = @ - 1]

\* The request is frozen and the outbox created; a lost claim changes nothing.
Prepared(r) ==
  /\ PreparerLeaves(r)
  /\ IF status[r] = "preparing"
       THEN /\ status' = [status EXCEPT ![r] = "dispatching"]
            /\ outbox' = [outbox EXCEPT ![r] = "pending"]
       ELSE UNCHANGED <<status, outbox>>
  /\ UNCHANGED <<stage, reported, caseVars, attempts, callVars, timers, closing, handlerVars,
                 remoteVars>>

\* The frozen data does not hold any more.  The pump then fails the results of
\* the run that was blocked last.
PreparationFails(r) ==
  /\ PreparerLeaves(r)
  /\ status' = [status EXCEPT ![r] = IF @ = "preparing" THEN "blocked" ELSE @]
  /\ LET blocked == {x \in Runs : status'[x] = "blocked"} IN
       closing' \in IF status[r] = "preparing" THEN {closing \cup {r}}
                    ELSE IF blocked = {} THEN {closing}
                    ELSE {closing \cup {x} : x \in blocked}
  /\ UNCHANGED <<stage, reported, caseVars, outboxVars, callVars, timers, handlerVars, remoteVars>>

\* A preparation of more than 30 seconds is given up by the pump and the watchdog.
PreparationExpires(r) ==
  /\ status[r] = "preparing"
  /\ status' = [status EXCEPT ![r] = "pending"]
  /\ UNCHANGED <<stage, reported, caseVars, outboxVars, callVars, taskVars, remoteVars>>

-----------------------------------------------------------------------------
(* dispatchBenchmarkRun                                                    *)

\* Mutant: the pump does not wait for the run to be prepared.
StartTooSoon(c, r) ==
  /\ at[c] = "idle"
  /\ status[r] \in {"preparing"} \cup Uncertain
  /\ at' = [at EXCEPT ![c] = "read"]
  /\ subject' = [subject EXCEPT ![c] = r]
  /\ UNCHANGED <<runVars, caseVars, outboxVars, attempt, answer, taskVars, remoteVars>>

\* Mutant: an uncertain run is left to the call that made it uncertain.
StartCertain(c, r) ==
  /\ at[c] = "idle"
  /\ \/ status[r] = "dispatching" /\ UNCHANGED timers
     \/ r \in timers /\ timers' = timers \ {r}
  /\ at' = [at EXCEPT ![c] = "read"]
  /\ subject' = [subject EXCEPT ![c] = r]
  /\ UNCHANGED <<runVars, caseVars, outboxVars, attempt, answer, preparers, closing, handlerVars,
                 remoteVars>>

\* The pump and the watchdog dispatch a run that waits; a busy client's run is
\* dispatched again by its timer.
Start(c, r) ==
  /\ at[c] = "idle"
  /\ \/ status[r] \in Uncertain /\ UNCHANGED timers
     \/ r \in timers /\ timers' = timers \ {r}
  /\ at' = [at EXCEPT ![c] = "read"]
  /\ subject' = [subject EXCEPT ![c] = r]
  /\ UNCHANGED <<runVars, caseVars, outboxVars, attempt, answer, preparers, closing, handlerVars,
                 remoteVars>>

Return(c) ==
  /\ at' = [at EXCEPT ![c] = "idle"]
  /\ subject' = [subject EXCEPT ![c] = NoRun]
  /\ attempt' = [attempt EXCEPT ![c] = 0]
  /\ answer' = [answer EXCEPT ![c] = "none"]

\* A cancelled run and a deleted case are left alone.
Read(c) ==
  LET r == subject[c] IN
  /\ at[c] = "read"
  /\ IF status[r] = "cancelled" \/ r \in withdrawn
       THEN Return(c)
       ELSE at' = [at EXCEPT ![c] = "claim"] /\ UNCHANGED <<subject, attempt, answer>>
  /\ UNCHANGED <<runVars, caseVars, outboxVars, taskVars, remoteVars>>

\* One conditional update takes the outbox; the command then leaves for the client.
Claim(c) ==
  LET r == subject[c]
      n == IF attempts[r] < AttemptLimit THEN attempts[r] + 1 ELSE AttemptLimit IN
  /\ at[c] = "claim" /\ outbox[r] \in {"pending", "unknown"}
  /\ outbox' = [outbox EXCEPT ![r] = "sending"]
  /\ attempts' = [attempts EXCEPT ![r] = n]
  /\ attempt' = [attempt EXCEPT ![c] = n]
  /\ at' = [at EXCEPT ![c] = "sent"]
  /\ UNCHANGED <<runVars, caseVars, subject, answer, taskVars, remoteVars>>

ClaimLost(c) ==
  /\ at[c] = "claim" /\ outbox[subject[c]] \notin {"pending", "unknown"}
  /\ Return(c)
  /\ UNCHANGED <<runVars, caseVars, outboxVars, taskVars, remoteVars>>

\* Mutant: a refused run's results are left to somebody else.
MarkDispatchFailedAlone(r) ==
  /\ outbox' = [outbox EXCEPT ![r] = "failed"]
  /\ status' = [status EXCEPT ![r] = IF @ = "cancelled" THEN @ ELSE "dispatch_failed"]
  /\ UNCHANGED <<stage, reported, caseVars, attempts, taskVars>>

\* markDispatchFailed.  The results are failed by a transaction of their own.
MarkDispatchFailed(r) ==
  /\ outbox' = [outbox EXCEPT ![r] = "failed"]
  /\ status' = [status EXCEPT ![r] = IF @ = "cancelled" THEN @ ELSE "dispatch_failed"]
  /\ closing' = closing \cup {r}
  /\ UNCHANGED <<stage, reported, caseVars, attempts, timers, preparers, handlerVars>>

MarkAccepted(r) ==
  /\ outbox' = [outbox EXCEPT ![r] = "accepted"]
  /\ status' = [status EXCEPT ![r] =
       IF @ \in Uncertain THEN "running_agent" ELSE @]
  /\ UNCHANGED <<stage, reported, caseVars, attempts, taskVars>>

\* The client is busy: the run goes back and is tried again in a second.
MarkBusy(r) ==
  /\ outbox' = [outbox EXCEPT ![r] = "pending"]
  /\ status' = [status EXCEPT ![r] = IF @ = "cancelled" THEN @ ELSE "dispatching"]
  /\ timers' = timers \cup {r}
  /\ UNCHANGED <<stage, reported, caseVars, attempts, preparers, closing, handlerVars>>

\* Mutant: a command that was delivered is taken for accepted.
ReceiveDelivered(c) ==
  /\ at[c] = "sent"
  /\ \/ answer[c] \in {"none", "accepted"} /\ MarkAccepted(subject[c])
     \/ answer[c] = "busy" /\ MarkBusy(subject[c])
     \/ answer[c] = "rejected" /\ MarkDispatchFailed(subject[c])
  /\ Return(c)
  /\ UNCHANGED remoteVars

\* None of these updates asks whether the outbox still carries this attempt.
Receive(c) ==
  /\ at[c] = "sent"
  /\ \/ answer[c] = "accepted" /\ MarkAccepted(subject[c])
     \/ answer[c] = "busy" /\ MarkBusy(subject[c])
     \/ answer[c] = "rejected" /\ MarkDispatchFailed(subject[c])
  /\ Return(c)
  /\ UNCHANGED remoteVars

\* The window closes: once the outcome is noted as unknown, twice is a failure.
NoAnswer(c) ==
  LET r == subject[c] IN
  /\ at[c] = "sent"
  /\ IF attempt[c] < AttemptLimit
       THEN /\ outbox' = [outbox EXCEPT ![r] = "unknown"]
            /\ at' = [at EXCEPT ![c] = "doubt"]
            /\ answer' = [answer EXCEPT ![c] = "none"]
            /\ UNCHANGED <<runVars, caseVars, attempts, subject, attempt, taskVars>>
       ELSE MarkDispatchFailed(r) /\ Return(c)
  /\ late' = IF answer[c] # "none" THEN late ELSE late \cup {r}
  /\ UNCHANGED job

\* A second update tells the run, then the same call dispatches it again.
NoteUnknown(c) ==
  LET r == subject[c] IN
  /\ at[c] = "doubt"
  /\ status' = [status EXCEPT ![r] = IF @ = "cancelled" THEN @ ELSE "dispatch_unknown"]
  /\ at' = [at EXCEPT ![c] = "read"]
  /\ UNCHANGED <<stage, reported, caseVars, outboxVars, subject, attempt, answer, taskVars,
                 remoteVars>>

\* The lease of a claim ran out: its process died, or its window was configured
\* longer than the lease.
LeaseExpires(r) ==
  /\ outbox[r] = "sending"
  /\ outbox' = [outbox EXCEPT ![r] = "unknown"]
  /\ UNCHANGED <<runVars, caseVars, attempts, callVars, taskVars, remoteVars>>

-----------------------------------------------------------------------------
(* The executor of the client, as far as the platform's rows can tell       *)

Executing == {r \in Runs : job[r] = "running"}

\* A known run is acknowledged again; a new one needs a free slot, and other
\* experiments' runs may hold any of them.
Answers(r) ==
  IF job[r] # "none" THEN {"accepted"}
  ELSE {"busy"} \cup (IF Cardinality(Executing) < Slots THEN {"accepted"} ELSE {})

Accept(r) == job' = [job EXCEPT ![r] = IF @ = "none" THEN "running" ELSE @]

Handle(c) ==
  LET r == subject[c] IN
  /\ at[c] = "sent" /\ answer[c] = "none"
  /\ \E a \in Answers(r) :
       /\ answer' = [answer EXCEPT ![c] = a]
       /\ IF a = "accepted" THEN Accept(r) ELSE UNCHANGED job
  /\ UNCHANGED <<runVars, caseVars, outboxVars, at, subject, attempt, taskVars, late>>

\* The runtime is not ready, the request is invalid, or the run was cancelled.
Refuse(c) ==
  /\ at[c] = "sent" /\ answer[c] = "none" /\ job[subject[c]] = "none"
  /\ answer' = [answer EXCEPT ![c] = "rejected"]
  /\ UNCHANGED <<runVars, caseVars, outboxVars, at, subject, attempt, taskVars, remoteVars>>

LateArrive(r) ==
  /\ r \in late
  /\ late' = late \ {r}
  /\ \E a \in Answers(r) : IF a = "accepted" THEN Accept(r) ELSE UNCHANGED job
  /\ UNCHANGED <<runVars, caseVars, outboxVars, callVars, taskVars>>

\* The agent ends and the completion is journalled.  "invalid": the executor
\* reports success but the platform will refuse the submission.
JobEnds(r) ==
  /\ job[r] = "running"
  /\ \E outcome \in Outcomes : job' = [job EXCEPT ![r] = outcome]
  /\ UNCHANGED <<runVars, caseVars, outboxVars, callVars, taskVars, late>>

-----------------------------------------------------------------------------
(* Callbacks of the executor                                               *)

\* recordBenchmarkRunProgress: neither the stage nor the status falls back.
Progress(r) ==
  /\ job[r] = "running" /\ r \notin withdrawn /\ status[r] \in Active
  /\ \E s \in Reports :
       LET next == IF StageRank[s] < StageRank[stage[r]] THEN stage[r] ELSE s
           told == IF next \in ActiveExecution THEN next ELSE "running_agent" IN
       /\ stage' = [stage EXCEPT ![r] = next]
       /\ status' = [status EXCEPT ![r] = IF Rank[told] < Rank[@] THEN @ ELSE told]
  /\ UNCHANGED <<reported, caseVars, outboxVars, callVars, taskVars, remoteVars>>

\* storeBenchmarkArtifact
StoreArtifact(r) ==
  /\ job[r] = "running" /\ r \notin withdrawn
  /\ status[r] \in {"running_agent", "collecting", "uploading"}
  /\ status' = [status EXCEPT ![r] = "uploading"]
  /\ UNCHANGED <<stage, reported, caseVars, outboxVars, callVars, taskVars, remoteVars>>

Deliverable(r) == job[r] \in Outcomes /\ r \notin answering

\* completeBenchmarkRun freezes the completion ...
Complete(r) ==
  /\ Deliverable(r) /\ r \notin withdrawn \cup reported /\ status[r] \in Active
  /\ reported' = reported \cup {r}
  /\ answering' = answering \cup {r}
  /\ IF job[r] = "failed"
       THEN /\ status' = [status EXCEPT ![r] = "execution_failed"]
            /\ closing' = closing \cup {r}
       ELSE /\ status' = [status EXCEPT ![r] = "submitted"]
            /\ UNCHANGED closing
  /\ UNCHANGED <<stage, caseVars, outboxVars, callVars, timers, preparers, drafts, remoteVars>>

\* ... and prepares the evaluation before it answers.  "void": delivered, but
\* there is no submission an evaluation could be made of.
Closed(j) == IF j = "invalid" THEN "void" ELSE "done"

Answered(r) ==
  /\ answering' = answering \ {r}
  /\ job' = [job EXCEPT ![r] = IF r \in answering THEN Closed(@) ELSE @]

\* prepareBenchmarkEvaluation reads the run: an evaluation there is returns at
\* once, and a run that is not "submitted" any more is an error ...
ReadSubmitted(r) ==
  /\ r \in answering /\ job[r] \in {"succeeded", "invalid"}
  /\ <<"completion", r>> \notin drafts
  /\ \/ evaluation[r] # "none" /\ Answered(r) /\ UNCHANGED drafts
     \/ /\ evaluation[r] = "none" /\ status[r] = "submitted"
        /\ drafts' = drafts \cup {<<"completion", r>>}
        /\ UNCHANGED <<answering, job>>
     \/ /\ evaluation[r] = "none" /\ status[r] # "submitted"
        /\ answering' = answering \ {r}
        /\ UNCHANGED <<drafts, job>>
  /\ UNCHANGED <<runVars, caseVars, outboxVars, callVars, timers, preparers, closing, late>>

\* Mutant: a refused submission does not look at the run again.
PrepareBlindly(r) ==
  /\ <<"completion", r>> \in drafts
  /\ drafts' = drafts \ {<<"completion", r>>}
  /\ Answered(r)
  /\ IF job[r] = "succeeded"
       THEN /\ evaluation' = [evaluation EXCEPT ![r] = IF @ = "none" THEN "open" ELSE @]
            /\ UNCHANGED <<status, closing>>
       ELSE /\ status' = [status EXCEPT ![r] = "submission_invalid"]
            /\ closing' = closing \cup {r}
            /\ UNCHANGED evaluation
  /\ UNCHANGED <<stage, reported, result, withdrawn, outboxVars, callVars, timers, preparers, late>>

\* ... and after the files were read creates it, if nobody did, or ends the run
\* with a refused submission.  Neither asks whether the run is still "submitted".
PrepareEvaluation(r) ==
  /\ <<"completion", r>> \in drafts
  /\ drafts' = drafts \ {<<"completion", r>>}
  /\ Answered(r)
  /\ IF job[r] = "succeeded"
       THEN /\ evaluation' = [evaluation EXCEPT ![r] = IF @ = "none" THEN "open" ELSE @]
            /\ UNCHANGED <<status, closing>>
       ELSE /\ status' = [status EXCEPT ![r] = IF @ = "cancelled" THEN @ ELSE "submission_invalid"]
            /\ closing' = closing \cup {r}
            /\ UNCHANGED evaluation
  /\ UNCHANGED <<stage, reported, result, withdrawn, outboxVars, callVars, timers, preparers, late>>

\* The completion is repeated, its answer having been lost or an error.
CompleteAgain(r) ==
  /\ Deliverable(r) /\ r \in reported \ withdrawn
  /\ IF status[r] = "execution_failed"
       THEN closing' = closing \cup {r} /\ answering' = answering \cup {r} /\ UNCHANGED job
       ELSE job' = [job EXCEPT ![r] = Closed(@)] /\ UNCHANGED <<closing, answering>>
  /\ UNCHANGED <<runVars, caseVars, outboxVars, callVars, timers, preparers, drafts, late>>

\* 409: the run, or its case, is no longer there to be completed.
CompleteTooLate(r) ==
  /\ Deliverable(r)
  /\ r \in withdrawn \/ (r \notin reported /\ status[r] \notin Active)
  /\ job' = [job EXCEPT ![r] = Closed(@)]
  /\ UNCHANGED <<runVars, caseVars, outboxVars, callVars, taskVars, late>>

\* failBenchmarkCaseResults, by whoever ended the run.
FailResults(r) ==
  /\ r \in closing
  /\ closing' = closing \ {r}
  /\ result' = [result EXCEPT ![r] =
       IF @ = "pending" /\ status[r] # "cancelled" /\ r \notin withdrawn THEN "failed" ELSE @]
  /\ IF job[r] = "failed" THEN Answered(r) ELSE UNCHANGED <<answering, job>>
  /\ UNCHANGED <<runVars, evaluation, withdrawn, outboxVars, callVars, timers, preparers, drafts,
                 late>>

-----------------------------------------------------------------------------
(* The watchdog, the evaluation, the user, a crash                         *)

\* Mutant: the reaped run's results are left to somebody else.
ReapAlone(r) ==
  /\ status[r] \in ActiveExecution
  /\ status' = [status EXCEPT ![r] = "execution_failed"]
  /\ UNCHANGED <<stage, reported, caseVars, outboxVars, callVars, taskVars, remoteVars>>

\* reapStaleBenchmarkRuns, for one run past its deadline.
Reap(r) ==
  /\ status[r] \in ActiveExecution
  /\ status' = [status EXCEPT ![r] = "execution_failed"]
  /\ closing' = closing \cup {r}
  /\ UNCHANGED <<stage, reported, caseVars, outboxVars, callVars, timers, preparers, handlerVars,
                 remoteVars>>

\* resumeSubmittedBenchmarkEvaluation, by the pump and the watchdog: the same two
\* halves.  A refused submission is only logged here.
ResumeSubmitted(r) ==
  /\ status[r] = "submitted" /\ evaluation[r] = "none" /\ job[r] \notin {"invalid", "void"}
  /\ <<"sweep", r>> \notin drafts
  /\ drafts' = drafts \cup {<<"sweep", r>>}
  /\ UNCHANGED <<runVars, caseVars, outboxVars, callVars, timers, preparers, closing, answering,
                 remoteVars>>

CreateEvaluation(r) ==
  /\ <<"sweep", r>> \in drafts
  /\ drafts' = drafts \ {<<"sweep", r>>}
  /\ evaluation' = [evaluation EXCEPT ![r] = IF @ = "none" THEN "open" ELSE @]
  /\ UNCHANGED <<runVars, result, withdrawn, outboxVars, callVars, timers, preparers, closing,
                 answering, remoteVars>>

\* The evaluation writes its verdict over whatever the run's status is ...  One
\* whose case is deleted is never sent, so it has no verdict and no failure.
Evaluate(r) ==
  /\ evaluation[r] = "open" /\ r \notin withdrawn
  /\ evaluation' = [evaluation EXCEPT ![r] = "closed"]
  /\ \E v \in {<<"evaluated", "done">>, <<"submission_invalid", "done">>,
                <<"evaluation_failed", "failed">>} :
       /\ status' = [status EXCEPT ![r] = v[1]]
       /\ result' = [result EXCEPT ![r] = v[2]]
  /\ UNCHANGED <<stage, reported, withdrawn, outboxVars, callVars, taskVars, remoteVars>>

\* ... and a failed dispatch or the evaluation watchdog only over "submitted".
EvaluationGivesUp(r) ==
  /\ evaluation[r] = "open" /\ r \notin withdrawn
  /\ evaluation' = [evaluation EXCEPT ![r] = "closed"]
  /\ status' = [status EXCEPT ![r] = IF @ = "submitted" THEN "evaluation_failed" ELSE @]
  /\ result' = [result EXCEPT ![r] = IF @ = "pending" THEN "failed" ELSE @]
  /\ UNCHANGED <<stage, reported, withdrawn, outboxVars, callVars, taskVars, remoteVars>>

\* deleteExperimentExecution, for the run and what hangs on it.
Cancel(r) ==
  /\ r \notin withdrawn
  /\ withdrawn' = withdrawn \cup {r}
  /\ status' = [status EXCEPT ![r] = IF @ \in Ended THEN @ ELSE "cancelled"]
  /\ result' = [result EXCEPT ![r] = IF @ = "pending" THEN "cancelled" ELSE @]
  /\ evaluation' = [evaluation EXCEPT ![r] = IF @ = "open" THEN "closed" ELSE @]
  /\ UNCHANGED <<stage, reported, outboxVars, callVars, taskVars, remoteVars>>

\* The platform process dies: every call, timer and handler is gone.
Crash ==
  /\ crashes < MaxCrashes
  /\ crashes' = crashes + 1
  /\ at' = [c \in Calls |-> "idle"]
  /\ subject' = [c \in Calls |-> NoRun]
  /\ attempt' = [c \in Calls |-> 0]
  /\ answer' = [c \in Calls |-> "none"]
  /\ late' = late \cup {subject[c] : c \in {d \in Calls : at[d] = "sent" /\ answer[d] = "none"}}
  /\ timers' = {} /\ closing' = {} /\ answering' = {} /\ drafts' = {}
  /\ preparers' = [r \in Runs |-> 0]
  /\ UNCHANGED <<runVars, caseVars, outboxVars, job>>

-----------------------------------------------------------------------------
Pump(r) == Pick(r) \/ Prepared(r) \/ PreparationFails(r) \/ PreparationExpires(r)

CallStep(c) ==
  Read(c) \/ Claim(c) \/ ClaimLost(c) \/ Receive(c) \/ NoAnswer(c) \/ NoteUnknown(c)

Client(r) == LateArrive(r) \/ JobEnds(r)

Callback(r) ==
  \/ Progress(r) \/ StoreArtifact(r)
  \/ Complete(r) \/ CompleteAgain(r) \/ CompleteTooLate(r)
  \/ ReadSubmitted(r) \/ PrepareEvaluation(r) \/ FailResults(r)

Platform(r) ==
  \/ LeaseExpires(r) \/ Reap(r) \/ ResumeSubmitted(r) \/ CreateEvaluation(r)
  \/ Evaluate(r) \/ EvaluationGivesUp(r) \/ Cancel(r)

Alive == UNCHANGED crashes

Next ==
  \/ /\ \/ \E r \in Runs : Pump(r) \/ Client(r) \/ Callback(r) \/ Platform(r)
        \/ \E c \in Calls : (\E r \in Runs : Start(c, r)) \/ CallStep(c) \/ Handle(c) \/ Refuse(c)
     /\ Alive
  \/ Crash

Spec == Init /\ [][Next]_vars

\* What must happen after the agent of a run ends, and after its submission.
Deliver(r) ==
  JobEnds(r) \/ Complete(r) \/ CompleteAgain(r) \/ ReadSubmitted(r) \/ PrepareEvaluation(r)
Resume(r) == ResumeSubmitted(r) \/ CreateEvaluation(r)

\* Calls and handlers end; the watchdog and the executor's deliveries never give
\* up; the agent has a deadline, and a run whose agent reports nothing any more is
\* reaped.  A client that is busy at one time is free at another, as every agent
\* has its deadline.  Nothing is assumed of the evaluations.
Fairness ==
  /\ \A c \in Calls : /\ WF_vars(CallStep(c) /\ Alive)
                       /\ SF_vars(Handle(c) /\ answer'[c] # "busy" /\ Alive)
  /\ \A r \in Runs : /\ WF_vars((\E c \in Calls : Start(c, r)) /\ Alive)
                      /\ WF_vars(LeaseExpires(r) /\ Alive)
                      /\ WF_vars(Deliver(r) /\ Alive)
                      /\ WF_vars(Resume(r) /\ Alive)
                      /\ WF_vars(job[r] # "running" /\ Reap(r) /\ Alive)
                      /\ WF_vars(FailResults(r) /\ Alive)

FairSpec == Spec /\ Fairness

-----------------------------------------------------------------------------
(* Properties                                                              *)

\* Every row, call and job is in a state the code knows; a call at work has its
\* run, and no call works on an outbox that was never created.
TypeOK ==
  /\ status \in [Runs -> Statuses]
  /\ stage \in [Runs -> Stages \cup {"none"}]
  /\ reported \subseteq Runs
  /\ result \in [Runs -> {"pending", "done", "failed", "cancelled"}]
  /\ evaluation \in [Runs -> {"none", "open", "closed"}]
  /\ withdrawn \subseteq Runs
  /\ outbox \in [Runs -> {"none", "pending", "sending", "unknown", "accepted", "failed"}]
  /\ attempts \in [Runs -> 0 .. AttemptLimit]
  /\ at \in [Calls -> {"idle", "read", "claim", "sent", "doubt"}]
  /\ subject \in [Calls -> Runs \cup {NoRun}]
  /\ attempt \in [Calls -> 0 .. AttemptLimit]
  /\ answer \in [Calls -> {"none", "accepted", "busy", "rejected"}]
  /\ timers \subseteq Runs
  /\ preparers \in [Runs -> 0 .. MaxPreparers]
  /\ closing \subseteq Runs
  /\ answering \subseteq Runs
  /\ drafts \subseteq {"completion", "sweep"} \X Runs
  /\ job \in [Runs -> {"none", "running", "done", "void"} \cup Outcomes]
  /\ late \subseteq Runs
  /\ crashes \in 0 .. MaxCrashes
  /\ \A c \in Calls : at[c] # "idle" => subject[c] \in Runs /\ outbox[subject[c]] # "none"

Failed == {"blocked", "dispatch_failed", "execution_failed", "submission_invalid"}

\* Whoever ends a run without a verdict also fails its pending result: between
\* the two transactions somebody still owes the second one.
NoResultForgotten ==
  \A r \in Runs : status[r] \in Failed /\ result[r] = "pending" => r \in closing

\* A run the user withdrew stays cancelled with its result, whatever answer,
\* callback, sweep or submission that was read before still comes in.  It may gain
\* an evaluation by such a submission, but one that is there changes no more.
CancelledIsFinal ==
  [][\A r \in Runs : status[r] = "cancelled" =>
       /\ status'[r] = "cancelled" /\ result'[r] = result[r]
       /\ evaluation[r] # "none" => evaluation'[r] = evaluation[r]]_vars

\* The platform records an acceptance only of a run the executor has journalled.
AcceptedIsJournalled == \A r \in Runs : outbox[r] = "accepted" => job[r] # "none"

\* A call noted an unclear outcome after another call of the same run had settled
\* the outbox, and the executor has nothing more to report: no dispatch claims the
\* outbox again and no watchdog looks at the run.
Wedged(r) ==
  /\ status[r] \in Uncertain /\ outbox[r] \in {"accepted", "failed"}
  /\ job[r] \notin {"running"} \cup Outcomes

\* Whatever is lost, late or busy and wherever the platform dies, a run that reached
\* its dispatch and whose result is open leaves execution: it ends, or is submitted
\* with its evaluation.  Not so a run its calls wedged, and a platform that died may
\* have left the submission without an evaluation.
DispatchedRunEnds ==
  \A r \in Runs :
    status[r] \in Active ~>
      \/ status[r] \in Ended \/ result[r] # "pending" \/ Wedged(r)
      \/ status[r] = "submitted" /\ (evaluation[r] # "none" \/ crashes > 0)

\* Unless the platform dies between the two transactions, every run that ends
\* leaves a settled result behind.
EndedRunIsTold ==
  \A r \in Runs : status[r] \in Ended ~> result[r] # "pending" \/ crashes > 0
=============================================================================
