------------------------- MODULE EvaluationDispatch -------------------------
(***************************************************************************)
(* How the platform hands a benchmark evaluation to the Evaluator service  *)
(* and how the evaluation is brought to an end.                            *)
(*                                                                         *)
(* One evaluation is one BenchmarkEvaluation row with its dispatch outbox  *)
(* row, its case run and its official result row.  These rows are written  *)
(* by many parties, none of which holds a lock across an await:            *)
(*   - calls of dispatchBenchmarkEvaluation (timers, the watchdog and the  *)
(*     callback handlers start them freely, also two for one evaluation);  *)
(*   - the watchdog: the sweep of expired leases and the reaper;           *)
(*   - the callbacks of the Evaluator: progress, completion, stop notice;  *)
(*   - the user's cancellation and its reconciliation.                     *)
(* Every row change is a database transaction and so one action; a call    *)
(* that awaits the network between two transactions is several actions.    *)
(*                                                                         *)
(* The outbox's attemptCount is the ownership token of a call.  A call     *)
(* compares it for equality only, so the model keeps which call made the   *)
(* latest claim (holder) and needs no counter.  Time is abstract: a lease, *)
(* a retry delay or a watchdog deadline may have passed at any moment.     *)
(***************************************************************************)
EXTENDS Naturals, FiniteSets

CONSTANTS
  Evals,          \* evaluations, all bound to one Evaluator address
  Calls,          \* dispatchBenchmarkEvaluation calls that may be in flight
  Users,
  UserOf,         \* the owner of an evaluation's experiment
  Capacity,       \* maxConcurrency the Evaluator reports on /health
  UserQuota,      \* maxEvaluationConcurrencyPerUser
  DatabaseFaults, \* the transaction that writes a result may fail
  MaxDeliveries,  \* completion calls that may be in flight for one evaluation
  NoCall, NoEval

ASSUME CallsAssumption == NoCall \notin Calls /\ NoEval \notin Evals
ASSUME UsersAssumption == UserOf \in [Evals -> Users]
ASSUME LimitsAssumption ==
  Capacity \in Nat /\ UserQuota \in Nat /\ MaxDeliveries \in Nat \ {0}
ASSUME FaultsAssumption == DatabaseFaults \in BOOLEAN

VARIABLES
  status,       \* BenchmarkEvaluation.status
  digest,       \* completionDigest is set
  reserved,     \* progressJson says dispatch_reserved
  failure,      \* the class of failureCode, as the code tells them apart
  outbox,       \* BenchmarkEvaluationDispatchOutbox.status
  holder,       \* the call whose attempt number the outbox carries
  expired,      \* the sweep found the lease of the current claim expired
  bound,        \* destinationBaseUrl and evaluatorBaseUrl are frozen
  run,          \* BenchmarkCaseRun.status
  result,       \* status of the official ExperimentEvalResult
  deleted,      \* the case, or its experiment, is deleted
  unconfirmed,  \* the cancellation's evaluation target is not confirmed
  at,           \* where a dispatch call is
  subject,      \* the evaluation it works on
  doubt,        \* it read dispatch_unknown before it claimed the outbox
  reply,        \* what the Evaluator answered to its POST
  resuming,     \* repeated completion calls that have read the row, not yet claimed it
  finishing,    \* completion calls between their claim and their last transaction
  job,          \* the Evaluator's own record of the evaluation
  late,         \* POSTs whose sender gave up and that may still arrive
  halted        \* the administrator stopped the Evaluator service

evaluationVars == <<status, digest, reserved, failure>>
outboxVars == <<outbox, holder, expired, bound>>
caseVars == <<run, result>>
cancelVars == <<deleted, unconfirmed>>
rowVars == <<evaluationVars, outboxVars, caseVars, cancelVars>>
callVars == <<at, subject, doubt, reply>>
deliveryVars == <<resuming, finishing>>
remoteVars == <<job, late, halted>>
vars == <<rowVars, callVars, deliveryVars, remoteVars>>

-----------------------------------------------------------------------------
(* Statuses                                                                *)

Active == {"queued", "dispatch_unknown", "running_evaluator"}
Judged == {"completed", "submission_invalid", "failed", "normalization_failed"}
Settled == Judged \cup {"dispatch_failed"}
Statuses == Active \cup {"normalizing"} \cup Settled \cup {"cancelled"}
\* "tolerated": no code, or a wait for resources the reaper forgives.
Failures == {"tolerated", "plain", "unsaved"}
OutboxStatuses == {"pending", "sending", "unknown", "accepted", "failed"}
RunStatuses ==
  {"submitted", "evaluated", "submission_invalid", "evaluation_failed", "cancelled"}
ResultStatuses == {"pending", "done", "failed", "cancelled"}
Places == {"idle", "claim", "freeze", "probe", "admit", "send", "posted"}
Replies == {"none", "accepted", "wait", "not_ready", "rejected"}
Jobs == {"none", "running", "finished", "stopping", "stopped"}

Init ==
  /\ status = [e \in Evals |-> "queued"]
  /\ digest = {}
  /\ reserved = {}
  /\ failure = [e \in Evals |-> "tolerated"]
  /\ outbox = [e \in Evals |-> "pending"]
  /\ holder = [e \in Evals |-> NoCall]
  /\ expired = {}
  /\ bound = {}
  /\ run = [e \in Evals |-> "submitted"]
  /\ result = [e \in Evals |-> "pending"]
  /\ deleted = {}
  /\ unconfirmed = {}
  /\ at = [c \in Calls |-> "idle"]
  /\ subject = [c \in Calls |-> NoEval]
  /\ doubt = {}
  /\ reply = [c \in Calls |-> "none"]
  /\ resuming = [e \in Evals |-> 0]
  /\ finishing = [e \in Evals |-> 0]
  /\ job = [e \in Evals |-> "none"]
  /\ late = {}
  /\ halted = FALSE

-----------------------------------------------------------------------------
(* Row updates shared by several handlers                                  *)

Return(c) ==
  /\ at' = [at EXCEPT ![c] = "idle"]
  /\ subject' = [subject EXCEPT ![c] = NoEval]
  /\ doubt' = doubt \ {c}
  /\ reply' = [reply EXCEPT ![c] = "none"]

\* The outbox still carries the attempt this call claimed.
Owns(c) == outbox[subject[c]] = "sending" /\ holder[subject[c]] = c

\* The evaluation still waits for its dispatch or for its completion.
Open(e) == status[e] \in Active /\ e \notin digest

\* Whatever ends a claim clears its lease.
SetOutbox(e, s) ==
  /\ outbox' = [outbox EXCEPT ![e] = s]
  /\ expired' = expired \ {e}
  /\ UNCHANGED <<holder, bound>>

\* A terminal failure closes the case run and the pending result with it.
FailCase(e) ==
  /\ run' = [run EXCEPT ![e] = IF @ = "submitted" THEN "evaluation_failed" ELSE @]
  /\ result' = [result EXCEPT ![e] = IF @ = "pending" THEN "failed" ELSE @]

\* A transaction that finds its guard false is rolled back.
Rollback == UNCHANGED rowVars

\* Mutant: the evaluation is updated although the outbox update matched no row.
MarkPendingTorn(c, code) ==
  LET e == subject[c] IN
  IF Open(e)
    THEN /\ status' = [status EXCEPT ![e] = "queued"]
         /\ reserved' = reserved \ {e}
         /\ failure' = [failure EXCEPT ![e] = code]
         /\ IF Owns(c) THEN SetOutbox(e, "pending") ELSE UNCHANGED outboxVars
         /\ UNCHANGED <<digest, caseVars, cancelVars>>
    ELSE Rollback

MarkPending(c, code) ==
  LET e == subject[c] IN
  IF Open(e) /\ Owns(c)
    THEN /\ status' = [status EXCEPT ![e] = "queued"]
         /\ reserved' = reserved \ {e}
         /\ failure' = [failure EXCEPT ![e] = code]
         /\ SetOutbox(e, "pending")
         /\ UNCHANGED <<digest, caseVars, cancelVars>>
    ELSE Rollback

\* Mutant: the failure is written without closing the case.
MarkFailedAlone(c) ==
  LET e == subject[c] IN
  IF Open(e) /\ Owns(c)
    THEN /\ status' = [status EXCEPT ![e] = "dispatch_failed"]
         /\ failure' = [failure EXCEPT ![e] = "plain"]
         /\ SetOutbox(e, "failed")
         /\ UNCHANGED <<digest, reserved, caseVars, cancelVars>>
    ELSE Rollback

MarkFailed(c) ==
  LET e == subject[c] IN
  IF Open(e) /\ Owns(c)
    THEN /\ status' = [status EXCEPT ![e] = "dispatch_failed"]
         /\ failure' = [failure EXCEPT ![e] = "plain"]
         /\ SetOutbox(e, "failed")
         /\ FailCase(e)
         /\ UNCHANGED <<digest, reserved, cancelVars>>
    ELSE Rollback

\* The completion may have come first: then only the outbox is closed.
MarkAccepted(c) ==
  LET e == subject[c] IN
  IF Owns(c) /\ (e \in digest \/ Open(e))
    THEN /\ SetOutbox(e, "accepted")
         /\ IF e \in digest
              THEN UNCHANGED <<status, failure>>
              ELSE /\ status' = [status EXCEPT ![e] = "running_evaluator"]
                   /\ failure' = [failure EXCEPT ![e] = "tolerated"]
         /\ UNCHANGED <<digest, reserved, caseVars, cancelVars>>
    ELSE Rollback

\* Mutant: the evaluation receives the outbox's word for it.
MarkUnknownConfused(c) ==
  LET e == subject[c] IN
  IF Owns(c) /\ (e \in digest \/ Open(e))
    THEN /\ SetOutbox(e, "unknown")
         /\ status' = [status EXCEPT ![e] = "unknown"]
         /\ UNCHANGED <<digest, reserved, failure, caseVars, cancelVars>>
    ELSE Rollback

MarkUnknown(c) ==
  LET e == subject[c] IN
  IF Owns(c) /\ (e \in digest \/ Open(e))
    THEN /\ SetOutbox(e, IF e \in digest THEN "accepted" ELSE "unknown")
         /\ IF e \in digest
              THEN UNCHANGED <<status, failure>>
              ELSE /\ status' = [status EXCEPT ![e] = "dispatch_unknown"]
                   /\ failure' = [failure EXCEPT ![e] = "plain"]
         /\ UNCHANGED <<digest, reserved, caseVars, cancelVars>>
    ELSE Rollback

-----------------------------------------------------------------------------
(* dispatchBenchmarkEvaluation                                             *)

\* The row is read first; the status seen here steers the error paths below.
Begin(c, e) ==
  /\ at[c] = "idle" /\ e \notin deleted
  /\ outbox[e] \notin {"accepted", "failed"}
  /\ at' = [at EXCEPT ![c] = "claim"]
  /\ subject' = [subject EXCEPT ![c] = e]
  /\ doubt' = IF status[e] = "dispatch_unknown" THEN doubt \cup {c} ELSE doubt
  /\ UNCHANGED <<rowVars, reply, deliveryVars, remoteVars>>

\* One conditional update takes the outbox and gives the call its attempt number.
Claim(c) ==
  LET e == subject[c] IN
  /\ at[c] = "claim" /\ status[e] # "cancelled"
  /\ outbox[e] \in {"pending", "unknown"}
  /\ outbox' = [outbox EXCEPT ![e] = "sending"]
  /\ holder' = [holder EXCEPT ![e] = c]
  /\ at' = [at EXCEPT ![c] = "freeze"]
  /\ UNCHANGED <<evaluationVars, expired, bound, caseVars, cancelVars, subject, doubt, reply,
                 deliveryVars, remoteVars>>

ClaimLost(c) ==
  /\ at[c] = "claim"
  /\ status[subject[c]] = "cancelled" \/ outbox[subject[c]] \notin {"pending", "unknown"}
  /\ Return(c)
  /\ UNCHANGED <<rowVars, deliveryVars, remoteVars>>

\* freezeTarget: the target's address is written once and kept.
Freeze(c) ==
  /\ at[c] = "freeze"
  /\ bound' = bound \cup {subject[c]}
  /\ at' = [at EXCEPT ![c] = "probe"]
  /\ UNCHANGED <<evaluationVars, outbox, holder, expired, caseVars, cancelVars,
                 subject, doubt, reply, deliveryVars, remoteVars>>

\* The target is misconfigured, or is no longer the one that was frozen.
FreezeFails(c) ==
  /\ at[c] = "freeze"
  /\ IF c \in doubt THEN MarkUnknown(c) ELSE MarkFailed(c)
  /\ Return(c)
  /\ UNCHANGED <<deliveryVars, remoteVars>>

\* ensureHealthy succeeds, or its last result is still cached.
ProbeHealthy(c) ==
  /\ at[c] = "probe"
  /\ at' = [at EXCEPT ![c] = "admit"]
  /\ UNCHANGED <<rowVars, subject, doubt, reply, deliveryVars, remoteVars>>

\* The Evaluator is unreachable, busy or not ready, or lacks its assets for good.
ProbeFails(c) ==
  /\ at[c] = "probe"
  /\ \/ c \in doubt /\ MarkUnknown(c)
     \/ c \notin doubt /\ MarkFailed(c)
     \/ c \notin doubt /\ \E code \in {"tolerated", "plain"} : MarkPending(c, code)
  /\ Return(c)
  /\ UNCHANGED <<deliveryVars, remoteVars>>

\* Evaluations that hold, or may hold, a slot at the address.
Occupied ==
  {e \in bound : \/ status[e] \in {"running_evaluator", "dispatch_unknown"}
                 \/ status[e] = "queued" /\ e \in reserved
                 \/ status[e] = "cancelled" /\ e \in unconfirmed}

\* Mutant: only the evaluations known to run are counted.
HasSlotAmongRunning(e) ==
  LET others == {o \in Evals \ {e} : status[o] = "running_evaluator"} IN
  /\ Cardinality(others) < Capacity
  /\ Cardinality({o \in others : UserOf[o] = UserOf[e]}) < UserQuota

HasSlot(e) ==
  LET others == Occupied \ {e} IN
  /\ Cardinality(others) < Capacity
  /\ Cardinality({o \in others : UserOf[o] = UserOf[e]}) < UserQuota

\* Queued evaluations the per-user, per-experiment order may put first.
Rivals(e) ==
  LET others == Occupied \ {e} IN
  {o \in Evals \ {e} :
     /\ status[o] = "queued" /\ o \notin reserved
     /\ Cardinality({x \in others : UserOf[x] = UserOf[o]}) < UserQuota}

\* The admission transaction keeps a slot for a queued evaluation.
AdmitQueued(c) ==
  LET e == subject[c] IN
  /\ at[c] = "admit" /\ Owns(c)
  /\ status[e] = "queued" /\ HasSlot(e)
  /\ reserved' = reserved \cup {e}
  /\ at' = [at EXCEPT ![c] = "send"]
  /\ UNCHANGED <<status, digest, failure, outboxVars, caseVars, cancelVars,
                 subject, doubt, reply, deliveryVars, remoteVars>>

\* One whose acceptance is unknown, or that already runs, needs no slot.
AdmitAgain(c) ==
  LET e == subject[c] IN
  /\ at[c] = "admit" /\ Owns(c)
  /\ status[e] \in Active \ {"queued"}
  /\ at' = [at EXCEPT ![c] = "send"]
  /\ UNCHANGED <<rowVars, subject, doubt, reply, deliveryVars, remoteVars>>

Defer(c) ==
  LET e == subject[c] IN
  /\ at[c] = "admit"
  /\ \/ ~Owns(c) \/ status[e] \notin Active
     \/ status[e] = "queued" /\ (~HasSlot(e) \/ Rivals(e) # {})
  /\ MarkPending(c, "tolerated")
  /\ Return(c)
  /\ UNCHANGED <<deliveryVars, remoteVars>>

\* assertExperimentActive, then the POST leaves the platform.
Send(c) ==
  /\ at[c] = "send" /\ subject[c] \notin deleted
  /\ at' = [at EXCEPT ![c] = "posted"]
  /\ UNCHANGED <<rowVars, subject, doubt, reply, deliveryVars, remoteVars>>

SendRefused(c) ==
  /\ at[c] = "send" /\ subject[c] \in deleted
  /\ IF c \in doubt THEN MarkUnknown(c) ELSE MarkPending(c, "plain")
  /\ Return(c)
  /\ UNCHANGED <<deliveryVars, remoteVars>>

\* The answer is read: 202, a retryable refusal, or a final refusal.
Receive(c) ==
  /\ at[c] = "posted"
  /\ \/ reply[c] = "accepted" /\ MarkAccepted(c)
     \/ reply[c] = "wait" /\ MarkPending(c, "tolerated")
     \/ reply[c] = "not_ready" /\ MarkPending(c, "plain")
     \/ reply[c] = "rejected" /\ MarkFailed(c)
  /\ Return(c)
  /\ UNCHANGED <<deliveryVars, remoteVars>>

\* A POST nobody waits for any more may still reach the Evaluator.
LeaveBehind(c) ==
  late' = IF at[c] = "posted" /\ reply[c] = "none" THEN late \cup {subject[c]} ELSE late

\* The answer does not come in time, or the connection breaks.
NoAnswer(c) ==
  /\ at[c] = "posted"
  /\ MarkUnknown(c)
  /\ LeaveBehind(c)
  /\ Return(c)
  /\ UNCHANGED <<deliveryVars, job, halted>>

\* The process dies, or a database error ends the call before it writes.
Abandon(c) ==
  /\ at[c] # "idle"
  /\ LeaveBehind(c)
  /\ Return(c)
  /\ UNCHANGED <<rowVars, deliveryVars, job, halted>>

-----------------------------------------------------------------------------
(* The Evaluator service, as far as the platform's rows can tell            *)

Running == {e \in Evals : job[e] \in {"running", "stopping"}}
CanAccept(e) == job[e] = "none" /\ ~halted /\ Cardinality(Running) < Capacity

\* A known job is acknowledged again; a tombstone or a stopped service refuses.
Answer(e) ==
  IF halted \/ job[e] \in {"stopping", "stopped"} THEN "rejected"
  ELSE IF job[e] # "none" \/ CanAccept(e) THEN "accepted"
  ELSE "wait"

Accept(e) == job' = [job EXCEPT ![e] = IF CanAccept(e) THEN "running" ELSE @]

Handle(c) ==
  LET e == subject[c] IN
  /\ at[c] = "posted" /\ reply[c] = "none"
  /\ reply' = [reply EXCEPT ![c] = Answer(e)]
  /\ Accept(e)
  /\ UNCHANGED <<rowVars, at, subject, doubt, deliveryVars, late, halted>>

\* The job's inputs are refused, or its images or assets are not there yet.
Refuse(c) ==
  /\ at[c] = "posted" /\ reply[c] = "none" /\ CanAccept(subject[c])
  /\ \E answer \in {"wait", "not_ready", "rejected"} :
       reply' = [reply EXCEPT ![c] = answer]
  /\ UNCHANGED <<rowVars, at, subject, doubt, deliveryVars, remoteVars>>

LateArrive(e) ==
  /\ e \in late
  /\ late' = late \ {e}
  /\ Accept(e)
  /\ UNCHANGED <<rowVars, callVars, deliveryVars, halted>>

\* The harness ends, with a verdict or at its timeout; the result is journalled.
JobEnds(e) ==
  /\ job[e] = "running"
  /\ job' = [job EXCEPT ![e] = "finished"]
  /\ UNCHANGED <<rowVars, callVars, deliveryVars, late, halted>>

\* shutdown: every job not yet delivered is cancelled and unwinds.
ShutDown ==
  /\ ~halted
  /\ halted' = TRUE
  /\ job' = [e \in Evals |-> IF job[e] \in {"running", "finished"} THEN "stopping" ELSE job[e]]
  /\ UNCHANGED <<rowVars, callVars, deliveryVars, late>>

Unwind(e) ==
  /\ job[e] = "stopping"
  /\ job' = [job EXCEPT ![e] = "stopped"]
  /\ UNCHANGED <<rowVars, callVars, deliveryVars, late, halted>>

Restart ==
  /\ halted
  /\ halted' = FALSE
  /\ UNCHANGED <<rowVars, callVars, deliveryVars, job, late>>

-----------------------------------------------------------------------------
(* Callbacks of the Evaluator                                              *)

\* recordBenchmarkEvaluationProgress
Progress(e) ==
  /\ job[e] = "running" /\ Open(e)
  /\ status' = [status EXCEPT ![e] = "running_evaluator"]
  /\ reserved' = reserved \ {e}
  /\ UNCHANGED <<digest, failure, outboxVars, caseVars, cancelVars,
                 callVars, deliveryVars, remoteVars>>

\* completeBenchmarkEvaluation freezes the raw result ...
Complete(e) ==
  /\ job[e] = "finished" /\ Open(e)
  /\ status' = [status EXCEPT ![e] = "normalizing"]
  /\ digest' = digest \cup {e}
  /\ failure' = [failure EXCEPT ![e] = "plain"]
  /\ finishing' = [finishing EXCEPT ![e] = 1]
  /\ UNCHANGED <<reserved, outboxVars, caseVars, cancelVars, callVars, resuming, remoteVars>>

\* Mutant: a completion whose verdict was not saved is not taken up again.
ReadUnfailed(e) ==
  /\ job[e] = "finished" /\ e \in digest /\ e \notin deleted
  /\ resuming[e] + finishing[e] < MaxDeliveries
  /\ status[e] = "normalizing"
  /\ resuming' = [resuming EXCEPT ![e] = @ + 1]
  /\ UNCHANGED <<rowVars, callVars, finishing, remoteVars>>

\* ... a repeated completion reads the row first, and goes on when the first did
\* not reach its end ...
ReadAgain(e) ==
  /\ job[e] = "finished" /\ e \in digest /\ e \notin deleted
  /\ resuming[e] + finishing[e] < MaxDeliveries
  /\ \/ status[e] = "normalizing"
     \/ status[e] = "normalization_failed" /\ failure[e] = "unsaved"
  /\ resuming' = [resuming EXCEPT ![e] = @ + 1]
  /\ UNCHANGED <<rowVars, callVars, finishing, remoteVars>>

\* ... then claims it by the status alone, whatever it read; a deletion is noticed
\* only after the claim ...
Resume(e) ==
  /\ resuming[e] > 0 /\ status[e] \in {"normalizing", "normalization_failed"}
  /\ status' = [status EXCEPT ![e] = "normalizing"]
  /\ resuming' = [resuming EXCEPT ![e] = @ - 1]
  /\ finishing' = [finishing EXCEPT ![e] = IF e \in deleted THEN @ ELSE @ + 1]
  /\ UNCHANGED <<digest, reserved, failure, outboxVars, caseVars, cancelVars,
                 callVars, remoteVars>>

\* ... or reads once more, the evaluation having ended meanwhile; or the process dies.
ResumeLost(e) ==
  /\ resuming[e] > 0
  /\ resuming' = [resuming EXCEPT ![e] = @ - 1]
  /\ UNCHANGED <<rowVars, callVars, finishing, remoteVars>>

\* The evaluation's final status, with the case's and the result's.
Verdicts ==
  {<<"completed", "evaluated", "done">>,
   <<"submission_invalid", "submission_invalid", "done">>,
   <<"failed", "evaluation_failed", "failed">>,
   <<"normalization_failed", "evaluation_failed", "failed">>}

\* Mutant: the last transaction does not test the evaluation's status.
FinalizeBlindly(e) ==
  /\ finishing[e] > 0
  /\ finishing' = [finishing EXCEPT ![e] = @ - 1]
  /\ \E v \in Verdicts :
       /\ status' = [status EXCEPT ![e] = v[1]]
       /\ run' = [run EXCEPT ![e] = v[2]]
       /\ result' = [result EXCEPT ![e] = v[3]]
  /\ failure' = [failure EXCEPT ![e] = "plain"]
  /\ UNCHANGED <<digest, reserved, outboxVars, cancelVars, callVars, resuming, remoteVars>>

\* ... and the last transaction writes the verdict to all three rows.
Finalize(e) ==
  /\ finishing[e] > 0 /\ status[e] = "normalizing"
  /\ finishing' = [finishing EXCEPT ![e] = @ - 1]
  /\ \E v \in Verdicts :
       /\ status' = [status EXCEPT ![e] = v[1]]
       /\ run' = [run EXCEPT ![e] = v[2]]
       /\ result' = [result EXCEPT ![e] = v[3]]
  /\ failure' = [failure EXCEPT ![e] = "plain"]
  /\ UNCHANGED <<digest, reserved, outboxVars, cancelVars, callVars, resuming, remoteVars>>

\* The evaluation was ended meanwhile, or the process dies before the write.
FinalizeLost(e) ==
  /\ finishing[e] > 0
  /\ finishing' = [finishing EXCEPT ![e] = @ - 1]
  /\ UNCHANGED <<rowVars, callVars, resuming, remoteVars>>

\* recordPersistenceFailure: the last transaction failed in the database.
PersistenceFails(e) ==
  /\ DatabaseFaults
  /\ finishing[e] > 0 /\ status[e] # "cancelled"
  /\ finishing' = [finishing EXCEPT ![e] = @ - 1]
  /\ status' = [status EXCEPT ![e] = "normalization_failed"]
  /\ failure' = [failure EXCEPT ![e] = "unsaved"]
  /\ UNCHANGED <<digest, reserved, outboxVars, caseVars, cancelVars, callVars, resuming, remoteVars>>

\* SERVICE_STOPPED: the notice of a stopped job.
StopNotice(e) ==
  /\ job[e] = "stopped" /\ status[e] \in Active
  /\ status' = [status EXCEPT ![e] = "failed"]
  /\ failure' = [failure EXCEPT ![e] = "plain"]
  /\ run' = [run EXCEPT ![e] = IF @ = "cancelled" THEN @ ELSE "evaluation_failed"]
  /\ result' = [result EXCEPT ![e] = IF @ = "pending" THEN "failed" ELSE @]
  /\ UNCHANGED <<digest, reserved, outboxVars, cancelVars, callVars, deliveryVars, remoteVars>>

-----------------------------------------------------------------------------
(* The watchdog                                                            *)

\* Sweep of expired leases: two updates, each for every row that matches.
SweepMark(e) ==
  /\ outbox[e] = "sending" /\ e \notin expired
  /\ expired' = expired \cup {e}
  /\ status' = [status EXCEPT ![e] = IF @ = "queued" THEN "dispatch_unknown" ELSE @]
  /\ UNCHANGED <<digest, reserved, failure, outbox, holder, bound, caseVars, cancelVars,
                 callVars, deliveryVars, remoteVars>>

SweepRelease(e) ==
  /\ outbox[e] = "sending" /\ e \in expired
  /\ SetOutbox(e, "unknown")
  /\ UNCHANGED <<evaluationVars, caseVars, cancelVars,
                 callVars, deliveryVars, remoteVars>>

Reapable(e) ==
  \/ status[e] \in {"running_evaluator", "normalizing"}
  \/ status[e] = "queued" /\ failure[e] # "tolerated"

\* Mutant: the reaper ends the evaluation and leaves its case open.
ReapAlone(e) ==
  /\ Reapable(e)
  /\ status' = [status EXCEPT ![e] = "failed"]
  /\ failure' = [failure EXCEPT ![e] = "plain"]
  /\ SetOutbox(e, "failed")
  /\ UNCHANGED <<digest, reserved, caseVars, cancelVars,
                 callVars, deliveryVars, remoteVars>>

\* reapStaleBenchmarkEvaluations, for one evaluation past its deadline.
Reap(e) ==
  /\ Reapable(e)
  /\ status' = [status EXCEPT ![e] = "failed"]
  /\ failure' = [failure EXCEPT ![e] = "plain"]
  /\ SetOutbox(e, "failed")
  /\ FailCase(e)
  /\ UNCHANGED <<digest, reserved, cancelVars,
                 callVars, deliveryVars, remoteVars>>

-----------------------------------------------------------------------------
(* Cancellation                                                            *)

\* deleteExperimentExecution.  Its terminal list has no dispatch_failed.
Cancel(e) ==
  LET withdrawn == status[e] \notin Judged IN
  /\ e \notin deleted
  /\ deleted' = deleted \cup {e}
  /\ unconfirmed' = IF withdrawn THEN unconfirmed \cup {e} ELSE unconfirmed
  /\ status' = [status EXCEPT ![e] = IF withdrawn THEN "cancelled" ELSE @]
  /\ run' = [run EXCEPT ![e] = IF @ = "submitted" THEN "cancelled" ELSE @]
  /\ result' = [result EXCEPT ![e] = IF @ = "pending" THEN "cancelled" ELSE @]
  /\ UNCHANGED <<digest, reserved, failure, outboxVars, callVars, deliveryVars, remoteVars>>

\* Mutant: a job the Evaluator does not know gets no tombstone.
CancelKnownJob(e) ==
  /\ ~halted /\ e \in unconfirmed \cap bound /\ job[e] # "none"
  /\ job' = [job EXCEPT ![e] = IF @ \in {"running", "stopping"} THEN "stopping" ELSE "stopped"]
  /\ UNCHANGED <<rowVars, callVars, deliveryVars, late, halted>>

\* reconcileCancellation reaches the Evaluator, which keeps a tombstone ...
CancelJob(e) ==
  /\ ~halted /\ e \in unconfirmed \cap bound
  /\ job' = [job EXCEPT ![e] = IF @ \in {"running", "stopping"} THEN "stopping" ELSE "stopped"]
  /\ UNCHANGED <<rowVars, callVars, deliveryVars, late, halted>>

\* Mutant: the answer "cancelling" is taken for a confirmation.
ConfirmEarly(e) ==
  /\ e \in unconfirmed
  /\ \/ holder[e] = NoCall
     \/ ~halted /\ e \in bound /\ job[e] \in {"stopping", "stopped"}
  /\ unconfirmed' = unconfirmed \ {e}
  /\ UNCHANGED <<evaluationVars, outboxVars, caseVars, deleted, callVars, deliveryVars, remoteVars>>

\* ... and confirms once the Evaluator answers that nothing runs; a never claimed
\* outbox needs no contact.  One that was claimed and never bound can only wait for a
\* dispatch to bind it.
ConfirmCancel(e) ==
  /\ e \in unconfirmed
  /\ \/ holder[e] = NoCall
     \/ ~halted /\ e \in bound /\ job[e] = "stopped"
  /\ unconfirmed' = unconfirmed \ {e}
  /\ UNCHANGED <<evaluationVars, outboxVars, caseVars, deleted, callVars, deliveryVars, remoteVars>>

-----------------------------------------------------------------------------
CallStep(c) ==
  \/ Claim(c) \/ ClaimLost(c) \/ Freeze(c) \/ FreezeFails(c)
  \/ ProbeHealthy(c) \/ ProbeFails(c)
  \/ AdmitQueued(c) \/ AdmitAgain(c) \/ Defer(c)
  \/ Send(c) \/ SendRefused(c)
  \/ Receive(c) \/ NoAnswer(c)

Callback(e) ==
  \/ Progress(e) \/ Complete(e) \/ ReadAgain(e) \/ Resume(e) \/ ResumeLost(e)
  \/ Finalize(e) \/ FinalizeLost(e) \/ PersistenceFails(e) \/ StopNotice(e)

Watchdog(e) == SweepMark(e) \/ SweepRelease(e) \/ Reap(e)

Cancellation(e) == Cancel(e) \/ CancelJob(e) \/ ConfirmCancel(e)

Remote(e) == LateArrive(e) \/ JobEnds(e) \/ Unwind(e)

Next ==
  \/ \E c \in Calls : (\E e \in Evals : Begin(c, e)) \/ CallStep(c) \/ Abandon(c)
  \/ \E c \in Calls : Handle(c) \/ Refuse(c)
  \/ \E e \in Evals : Callback(e) \/ Watchdog(e) \/ Cancellation(e) \/ Remote(e)
  \/ ShutDown \/ Restart

Spec == Init /\ [][Next]_vars

\* Every call ends, its awaits have deadlines; the watchdog and the retries of
\* the Evaluator's deliveries and of the reconciliation never give up; and a
\* repeated delivery is not cut off at the same point for ever, by the process or by
\* the database.
Fairness ==
  /\ \A c \in Calls : WF_vars(CallStep(c))
  /\ \A e \in Evals : /\ WF_vars(SweepMark(e)) /\ WF_vars(SweepRelease(e))
                      /\ WF_vars(Reap(e))
                      /\ WF_vars(Complete(e)) /\ WF_vars(ReadAgain(e))
                      /\ SF_vars(Resume(e)) /\ SF_vars(Finalize(e))
                      /\ WF_vars(CancelJob(e)) /\ WF_vars(Unwind(e))
                      /\ WF_vars(ConfirmCancel(e))

FairSpec == Spec /\ Fairness

-----------------------------------------------------------------------------
(* Properties                                                              *)

\* Every row and every call is in a state the code knows, a call at work has its
\* evaluation, and a delivery under way its frozen completion.
TypeOK ==
  /\ status \in [Evals -> Statuses]
  /\ digest \subseteq Evals
  /\ reserved \subseteq Evals
  /\ failure \in [Evals -> Failures]
  /\ outbox \in [Evals -> OutboxStatuses]
  /\ holder \in [Evals -> Calls \cup {NoCall}]
  /\ expired \subseteq Evals
  /\ bound \subseteq Evals
  /\ run \in [Evals -> RunStatuses]
  /\ result \in [Evals -> ResultStatuses]
  /\ deleted \subseteq Evals
  /\ unconfirmed \subseteq Evals
  /\ at \in [Calls -> Places]
  /\ subject \in [Calls -> Evals \cup {NoEval}]
  /\ doubt \subseteq Calls
  /\ reply \in [Calls -> Replies]
  /\ resuming \in [Evals -> 0 .. MaxDeliveries]
  /\ finishing \in [Evals -> 0 .. MaxDeliveries]
  /\ \A e \in Evals : /\ resuming[e] + finishing[e] <= MaxDeliveries
                      /\ e \notin digest => resuming[e] + finishing[e] = 0
  /\ job \in [Evals -> Jobs]
  /\ late \subseteq Evals
  /\ halted \in BOOLEAN
  /\ \A c \in Calls : at[c] # "idle" => subject[c] \in Evals

\* The status an evaluation ends with, its case run and its official result
\* tell the same story: no party that ends it may leave the other rows behind.
\* A result the database refused is an exception until it is retried, and a case
\* that was deleted in that time stays cancelled.
Told(e) ==
  CASE status[e] = "completed" -> run[e] = "evaluated" /\ result[e] = "done"
    [] status[e] = "submission_invalid" -> run[e] = "submission_invalid" /\ result[e] = "done"
    [] OTHER -> run[e] = "evaluation_failed" /\ result[e] = "failed"

CaseWithdrawn(e) == e \in deleted /\ run[e] = "cancelled" /\ result[e] = "cancelled"

SettledClosesCase ==
  \A e \in Evals :
    status[e] \in Settled /\ failure[e] # "unsaved" => Told(e) \/ CaseWithdrawn(e)

\* Once the Evaluator's acknowledgement is recorded, no late answer, stale
\* call or sweep makes the evaluation wait for its dispatch again.
AcceptedIsNotQueued ==
  \A e \in Evals : outbox[e] = "accepted" => status[e] \notin {"queued", "dispatch_unknown"}

\* However many calls compete, the slots kept for evaluations on their way to
\* the Evaluator exceed neither its capacity nor the quota of a user.
Reservations == {e \in Evals : status[e] = "queued" /\ e \in reserved}

ReservationsWithinLimits ==
  /\ Cardinality(Reservations) <= Capacity
  /\ \A u \in Users : Cardinality({e \in Reservations : UserOf[e] = u}) <= UserQuota

\* A cancellation is confirmed only when the Evaluator runs nothing for it and
\* no POST still under way can make it run again.
ConfirmedCancelIsQuiet ==
  \A e \in Evals :
    status[e] = "cancelled" /\ e \notin unconfirmed =>
      /\ job[e] \in {"none", "stopped"}
      /\ job[e] = "none" => e \notin late /\ \A c \in Calls : at[c] \in {"send", "posted"} => subject[c] # e

\* The winner of the race writes the terminal status, and neither a late answer, a
\* stale call, the watchdog nor a repeated completion rewrites it, nor the case's
\* verdict with it.  A failed dispatch may still be cancelled.  A failed normalization
\* may be taken up again, but only by a delivery that had read the row before it
\* failed: when none is left, it is final too.
SettledIsFinal ==
  [][\A e \in Evals :
       /\ status[e] \in {"completed", "submission_invalid", "failed", "cancelled"} =>
            status'[e] = status[e]
       /\ run[e] \in {"evaluated", "submission_invalid"} =>
            run'[e] = run[e] /\ result'[e] = result[e]
       /\ status[e] = "dispatch_failed" => status'[e] \in {"dispatch_failed", "cancelled"}
       /\ status[e] = "normalization_failed" =>
            /\ status'[e] \in {"normalization_failed", "normalizing"}
            /\ resuming'[e] <= resuming[e]
            /\ resuming[e] = 0 => status'[e] = status[e]]_vars

\* A call that lost the outbox to a later claim, to the sweep or to the reaper
\* ends without a trace in the rows.
StaleCallWritesNothing ==
  [][\A c \in Calls :
       at[c] \notin {"idle", "claim"} /\ at'[c] = "idle" /\ ~Owns(c) => UNCHANGED rowVars]_vars

\* The platform's promise, read off the rows: the phase from the evaluation, the
\* verdict from the case run and the result together.
PhaseOf == [s \in Statuses |->
  CASE s \in Active -> "open"
    [] s = "normalizing" -> "judging"
    [] s = "normalization_failed" -> "unread"
    [] s = "cancelled" -> "withdrawn"
    [] OTHER -> "settled"]

phaseOf == [e \in Evals |-> PhaseOf[status[e]]]

VerdictOf(r, o) ==
  CASE r = "submitted" /\ o = "pending" -> "none"
    [] r = "evaluated" /\ o = "done" -> "evaluated"
    [] r = "submission_invalid" /\ o = "done" -> "invalid"
    [] r = "evaluation_failed" /\ o = "failed" -> "failed"
    [] r = "cancelled" /\ o = "cancelled" -> "cancelled"
    [] OTHER -> "torn"

verdictOf == [e \in Evals |-> VerdictOf(run[e], result[e])]

Promise == INSTANCE SettleOnce WITH phase <- phaseOf, verdict <- verdictOf

\* While the database accepts its writes, every step of every party is a step
\* of SettleOnce or changes nothing it can see.
SettlesOnce == Promise!Spec

\* A result that the Evaluator has finished is settled with its case, however often
\* the process dies between claim and verdict or the database refuses it, unless the
\* case is deleted or the service is shut down before it is delivered.  (One delivery at
\* a time: a second one may note its refusal over a verdict already acknowledged.)
Saved(e) == status[e] \in Settled /\ failure[e] # "unsaved"

FinishedJobSettles ==
  \A e \in Evals :
    job[e] = "finished" ~> Saved(e) \/ e \in deleted \/ job[e] # "finished"

\* A cancellation is confirmed, where the Evaluator's address is known or no dispatch
\* ever began, as long as the Evaluator is there to answer.
CancellationConfirms ==
  \A e \in Evals :
    e \in unconfirmed /\ (e \in bound \/ holder[e] = NoCall) ~> e \notin unconfirmed \/ halted

\* What the design documents say of the watchdog: no callback writes over the failure
\* it has written.
ReapedStaysFailed ==
  [][\A e \in Evals : status[e] = "failed" => status'[e] = "failed"]_vars
=============================================================================
