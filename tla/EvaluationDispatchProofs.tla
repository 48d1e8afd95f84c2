---------------------- MODULE EvaluationDispatchProofs ----------------------
(***************************************************************************)
(* Theorems about EvaluationDispatch, for every set of evaluations, calls  *)
(* and users, every capacity and quota.                                    *)
(***************************************************************************)
EXTENDS EvaluationDispatch, FiniteSetTheorems, TLAPS

-----------------------------------------------------------------------------
(* Type correctness.  The transactions a call may end with come first,     *)
(* since several actions share them.                                       *)

RowsOK ==
  /\ status \in [Evals -> Statuses]
  /\ digest \subseteq Evals
  /\ reserved \subseteq Evals
  /\ failure \in [Evals -> Failures]
  /\ outbox \in [Evals -> OutboxStatuses]
  /\ holder \in [Evals -> Calls \cup {NoCall}]
  /\ expired \subseteq Evals
  /\ bound \subseteq Evals
  /\ run \in [Evals -> RunStatuses]
  /\ result \in [Evals -> ResultStatuses]
  /\ deleted \subseteq Evals
  /\ unconfirmed \subseteq Evals

CallsOK ==
  /\ at \in [Calls -> Places]
  /\ subject \in [Calls -> Evals \cup {NoEval}]
  /\ doubt \subseteq Calls
  /\ reply \in [Calls -> Replies]
  /\ \A c \in Calls : at[c] # "idle" => subject[c] \in Evals

DeliveriesOK ==
  /\ resuming \in [Evals -> 0 .. MaxDeliveries]
  /\ finishing \in [Evals -> 0 .. MaxDeliveries]
  /\ \A e \in Evals : /\ resuming[e] + finishing[e] <= MaxDeliveries
                      /\ e \notin digest => resuming[e] + finishing[e] = 0

RemoteOK ==
  /\ job \in [Evals -> Jobs]
  /\ late \subseteq Evals
  /\ halted \in BOOLEAN

\* Every way a call leaves the rows when it ends.
Ending(c) ==
  \/ \E code \in {"tolerated", "plain"} : MarkPending(c, code)
  \/ MarkFailed(c) \/ MarkAccepted(c) \/ MarkUnknown(c)
  \/ Rollback

\* The transactions a call ends with keep the rows well typed.
LEMMA EndingTypes ==
  ASSUME RowsOK, NEW c \in Calls, subject[c] \in Evals, Ending(c)
  PROVE  RowsOK'
PROOF
  <1> DEFINE e == subject[c]
  <1>1. CASE \E code \in {"tolerated", "plain"} : MarkPending(c, code)
    BY <1>1 DEF RowsOK, MarkPending, SetOutbox, Rollback, rowVars, evaluationVars,
       outboxVars, caseVars, cancelVars, Statuses, Active, Failures, OutboxStatuses
  <1>2. CASE MarkFailed(c)
    BY <1>2 DEF RowsOK, MarkFailed, FailCase, SetOutbox, Rollback, rowVars,
       evaluationVars, outboxVars, caseVars, cancelVars, Statuses, Settled, Failures,
       OutboxStatuses, RunStatuses, ResultStatuses
  <1>3. CASE MarkAccepted(c)
    BY <1>3 DEF RowsOK, MarkAccepted, SetOutbox, Rollback, rowVars,
       evaluationVars, outboxVars, caseVars, cancelVars, Statuses, Active, Failures,
       OutboxStatuses
  <1>4. CASE MarkUnknown(c)
    BY <1>4 DEF RowsOK, MarkUnknown, SetOutbox, Rollback, rowVars,
       evaluationVars, outboxVars, caseVars, cancelVars, Statuses, Active, Failures,
       OutboxStatuses
  <1>5. CASE Rollback
    BY <1>5 DEF RowsOK, Rollback, rowVars, evaluationVars, outboxVars, caseVars, cancelVars
  <1> QED
    BY <1>1, <1>2, <1>3, <1>4, <1>5 DEF Ending

\* Return and the other moves of a call keep the calls well typed.
LEMMA ReturnTypes ==
  ASSUME CallsOK, NEW c \in Calls, Return(c)
  PROVE  CallsOK'
PROOF BY DEF CallsOK, Return, Places, Replies

\* Every step of a dispatch call keeps the state well typed.
LEMMA CallTypes ==
  ASSUME TypeOK, NEW c \in Calls, CallStep(c) \/ Abandon(c)
  PROVE  TypeOK'
PROOF
  <1>1. RowsOK /\ CallsOK /\ RemoteOK /\ DeliveriesOK
    BY DEF TypeOK, RowsOK, CallsOK, RemoteOK, DeliveriesOK
  <1>2. at[c] # "idle" /\ subject[c] \in Evals
    BY <1>1 DEF CallStep, Abandon, CallsOK, Claim, ClaimLost, Freeze, FreezeFails, ProbeHealthy, ProbeFails,
       AdmitQueued, AdmitAgain, Defer, Send, SendRefused, Receive, NoAnswer
  <1>3. RowsOK'
    <2>1. CASE Claim(c)
      BY <1>1, <1>2, <2>1 DEF RowsOK, Claim, evaluationVars, caseVars, cancelVars, OutboxStatuses
    <2>2. CASE AdmitQueued(c)
      BY <1>1, <1>2, <2>2 DEF RowsOK, AdmitQueued, outboxVars, caseVars, cancelVars
    <2>3. CASE Freeze(c)
      BY <1>1, <1>2, <2>3 DEF RowsOK, Freeze, evaluationVars, caseVars, cancelVars
    <2>4. CASE ~Claim(c) /\ ~AdmitQueued(c) /\ ~Freeze(c)
      <3>1. Ending(c)
        BY <2>4 DEF CallStep, Abandon, ClaimLost, FreezeFails, ProbeHealthy, ProbeFails, AdmitAgain, Defer,
           Send, SendRefused, Receive, NoAnswer, Ending, Rollback
      <3> QED BY <1>1, <1>2, <3>1, EndingTypes
    <2> QED BY <2>1, <2>2, <2>3, <2>4
  <1>4. CallsOK'
    <2>1. CASE Return(c)
      BY <1>1, <2>1, ReturnTypes
    <2>2. CASE ~Return(c)
      BY <1>1, <1>2, <2>2 DEF CallStep, Abandon, CallsOK, Claim, ClaimLost, Freeze, FreezeFails, ProbeHealthy,
         ProbeFails, AdmitQueued, AdmitAgain, Defer, Send, SendRefused, Receive, NoAnswer, Places
    <2> QED BY <2>1, <2>2
  <1>5. RemoteOK' /\ UNCHANGED deliveryVars
    BY <1>1, <1>2 DEF CallStep, Abandon, RemoteOK, remoteVars, LeaveBehind, Claim, ClaimLost, Freeze, FreezeFails,
       ProbeHealthy, ProbeFails, AdmitQueued, AdmitAgain, Defer, Send, SendRefused, Receive, NoAnswer
  <1>6. digest' = digest
    BY DEF CallStep, Abandon, Claim, ClaimLost, Freeze, FreezeFails, ProbeHealthy, ProbeFails, AdmitQueued,
       AdmitAgain, Defer, Send, SendRefused, Receive, NoAnswer, MarkPending, MarkFailed, MarkAccepted,
       MarkUnknown, Rollback, rowVars, evaluationVars
  <1> QED
    BY <1>1, <1>3, <1>4, <1>5, <1>6 DEF TypeOK, RowsOK, CallsOK, RemoteOK, DeliveriesOK, deliveryVars

\* No callback takes up more deliveries of a completion than may be in flight.
LEMMA DeliveryTypes ==
  ASSUME TypeOK, NEW e \in Evals, Callback(e)
  PROVE  DeliveriesOK'
PROOF
  <1> USE LimitsAssumption DEF TypeOK, DeliveriesOK, rowVars, evaluationVars
  <1>1. CASE Complete(e)
    <2>1. resuming[e] = 0 /\ finishing[e] = 0
      BY <1>1 DEF Complete, Open
    <2> QED BY <1>1, <2>1 DEF Complete
  <1>2. CASE ReadAgain(e)
    BY <1>2 DEF ReadAgain
  <1>3. CASE Resume(e)
    BY <1>3 DEF Resume
  <1>4. CASE ResumeLost(e)
    BY <1>4 DEF ResumeLost
  <1>5. CASE Finalize(e) \/ FinalizeLost(e) \/ PersistenceFails(e)
    BY <1>5 DEF Finalize, FinalizeLost, PersistenceFails
  <1>6. CASE Progress(e) \/ StopNotice(e)
    BY <1>6 DEF Progress, StopNotice, deliveryVars
  <1> QED BY <1>1, <1>2, <1>3, <1>4, <1>5, <1>6 DEF Callback

\* So does every step of a callback, the watchdog, a deletion and the Evaluator.
LEMMA EvaluationTypes ==
  ASSUME TypeOK, NEW e \in Evals,
         Callback(e) \/ Watchdog(e) \/ Cancellation(e) \/ Remote(e)
  PROVE  TypeOK'
PROOF
  <1> USE DEF evaluationVars, outboxVars, caseVars, cancelVars, rowVars, callVars, deliveryVars,
          remoteVars, SetOutbox
  <1>1. CASE Callback(e)
    <2> USE <1>1 DEF TypeOK, Statuses, Settled, Judged, Active, Failures, RunStatuses, ResultStatuses
    <2>1. CASE Progress(e)
      BY <2>1 DEF Progress
    <2>2. DeliveriesOK'
      BY <1>1, DeliveryTypes DEF DeliveriesOK
    <2>3. CASE Complete(e)
      BY <2>2, <2>3 DEF Complete, DeliveriesOK
    <2>4. CASE Finalize(e)
      <3>1. PICK v \in Verdicts : /\ status' = [status EXCEPT ![e] = v[1]]
                                  /\ run' = [run EXCEPT ![e] = v[2]]
                                  /\ result' = [result EXCEPT ![e] = v[3]]
        BY <2>4 DEF Finalize
      <3>2. v[1] \in Statuses /\ v[2] \in RunStatuses /\ v[3] \in ResultStatuses
        BY DEF Verdicts
      <3> QED BY <2>2, <2>4, <3>1, <3>2 DEF Finalize, DeliveriesOK
    <2>5. CASE ReadAgain(e) \/ ResumeLost(e) \/ FinalizeLost(e)
      BY <2>2, <2>5 DEF ReadAgain, ResumeLost, FinalizeLost, DeliveriesOK
    <2>6. CASE Resume(e)
      BY <2>2, <2>6 DEF Resume, DeliveriesOK
    <2>7. CASE PersistenceFails(e)
      BY <2>2, <2>7 DEF PersistenceFails, DeliveriesOK
    <2>8. CASE StopNotice(e)
      BY <2>8 DEF StopNotice
    <2> QED BY <2>1, <2>3, <2>4, <2>5, <2>6, <2>7, <2>8 DEF Callback
  <1>2. CASE Watchdog(e)
    <2> USE DEF TypeOK, Statuses, Settled, Judged, Active, OutboxStatuses
    <2>1. CASE SweepMark(e)
      BY <2>1 DEF SweepMark
    <2>2. CASE SweepRelease(e)
      BY <2>2 DEF SweepRelease
    <2>3. CASE Reap(e)
      BY <2>3 DEF Reap, FailCase, Failures, RunStatuses, ResultStatuses
    <2> QED BY <1>2, <2>1, <2>2, <2>3 DEF Watchdog
  <1>3. CASE Cancellation(e)
    BY <1>3 DEF Cancellation, Cancel, CancelJob, ConfirmCancel, TypeOK, Statuses, Jobs,
       RunStatuses, ResultStatuses
  <1>4. CASE Remote(e)
    BY <1>4 DEF Remote, LateArrive, Accept, JobEnds, Unwind, TypeOK, Jobs
  <1> QED BY <1>1, <1>2, <1>3, <1>4

\* Every row and every call is always in a state the code knows, and a call at work
\* has its evaluation.
THEOREM TypeCorrect == Spec => []TypeOK
PROOF
  <1>1. Init => TypeOK
    <2> SUFFICES ASSUME Init PROVE TypeOK
      OBVIOUS
    <2>1. RowsOK
      BY DEF Init, RowsOK, Statuses, Active, Failures, OutboxStatuses, RunStatuses, ResultStatuses
    <2>2. CallsOK /\ RemoteOK
      BY DEF Init, CallsOK, RemoteOK, Places, Replies, Jobs
    <2>3. DeliveriesOK
      BY LimitsAssumption DEF Init, DeliveriesOK
    <2> QED BY <2>1, <2>2, <2>3 DEF TypeOK, RowsOK, CallsOK, RemoteOK, DeliveriesOK
  <1>2. TypeOK /\ [Next]_vars => TypeOK'
    <2> SUFFICES ASSUME TypeOK, [Next]_vars
                 PROVE  TypeOK'
      OBVIOUS
    <2>1. ASSUME NEW c \in Calls, NEW e \in Evals, Begin(c, e)
          PROVE  TypeOK'
      BY <2>1 DEF Begin, TypeOK, rowVars, evaluationVars, outboxVars, caseVars, cancelVars,
         deliveryVars, remoteVars, Places
    <2>2. ASSUME NEW c \in Calls, CallStep(c) \/ Abandon(c)
          PROVE  TypeOK'
      BY <2>2, CallTypes
    <2>3. ASSUME NEW c \in Calls, Handle(c) \/ Refuse(c)
          PROVE  TypeOK'
      BY <2>3 DEF Handle, Answer, Accept, Refuse, TypeOK, rowVars, evaluationVars, outboxVars,
         caseVars, cancelVars, deliveryVars, remoteVars, Replies, Jobs
    <2>4. ASSUME NEW e \in Evals,
                 Callback(e) \/ Watchdog(e) \/ Cancellation(e) \/ Remote(e)
          PROVE  TypeOK'
      BY <2>4, EvaluationTypes
    <2>5. CASE ShutDown \/ Restart
      BY <2>5 DEF ShutDown, Restart, TypeOK, rowVars, evaluationVars, outboxVars, caseVars,
         cancelVars, callVars, deliveryVars, Jobs
    <2>6. CASE UNCHANGED vars
      BY <2>6 DEF vars, TypeOK, rowVars, evaluationVars, outboxVars, caseVars, cancelVars,
         callVars, deliveryVars, remoteVars
    <2> QED
      BY <2>1, <2>2, <2>3, <2>4, <2>5, <2>6 DEF Next
  <1> QED
    BY <1>1, <1>2, PTL DEF Spec

-----------------------------------------------------------------------------
(* The rows of one evaluation agree.  An evaluation still to be dispatched *)
(* has an untouched case; one that is normalized has an untouched or, when *)
(* a failed normalization is taken up again, a failed case, and may be     *)
(* deleted; a frozen result is the only way to a verdict;                  *)
(* and while the database accepts every write, the terminal status comes   *)
(* with the case run and the result that tell the same.                    *)

\* What a case may look like while its verdict is still to be written: untouched, or
\* failed, where a failed normalization is taken up again.
Untold(e) == \/ run[e] = "submitted" /\ result[e] = "pending"
             \/ run[e] = "evaluation_failed" /\ result[e] = "failed"

Outcome(e) ==
  /\ status[e] = "normalizing" => Untold(e)
  /\ status[e] \in Settled => Told(e)
  /\ status[e] = "cancelled" => \/ run[e] = "cancelled" /\ result[e] = "cancelled"
                                \/ run[e] = "evaluation_failed" /\ result[e] = "failed"

RowsAgree(e) ==
  /\ status[e] \in Active => run[e] = "submitted" /\ result[e] = "pending" /\ e \notin digest
  /\ status[e] = "dispatch_failed" => e \notin digest
  /\ failure[e] = "unsaved" => DatabaseFaults
  /\ outbox[e] = "accepted" => status[e] \notin {"queued", "dispatch_unknown"}
  /\ e \in deleted => status[e] \in Judged \cup {"normalizing", "cancelled"}
  /\ status[e] = "cancelled" => e \in deleted
  /\ ~DatabaseFaults => Outcome(e)

Agreement == \A e \in Evals : RowsAgree(e)

\* The transactions a call ends with write the rows they guard together.
LEMMA EndingAgrees ==
  ASSUME TypeOK, Agreement, NEW c \in Calls, subject[c] \in Evals, Ending(c),
         UNCHANGED deliveryVars
  PROVE  Agreement'
PROOF
  <1> SUFFICES ASSUME NEW x \in Evals
               PROVE  RowsAgree(x)'
    BY DEF Agreement
  <1> USE DEF TypeOK, Agreement, RowsAgree, Outcome, Untold, Told, Open, Owns, SetOutbox, Rollback,
          rowVars, evaluationVars, outboxVars, caseVars, cancelVars, Active, Settled, Judged
  <1>1. CASE \E code \in {"tolerated", "plain"} : MarkPending(c, code)
    BY <1>1 DEF MarkPending
  <1>2. CASE MarkFailed(c)
    BY <1>2 DEF MarkFailed, FailCase
  <1>3. CASE MarkAccepted(c)
    BY <1>3 DEF MarkAccepted
  <1>4. CASE MarkUnknown(c)
    BY <1>4 DEF MarkUnknown
  <1>5. CASE Rollback
    BY <1>5
  <1> QED
    BY <1>1, <1>2, <1>3, <1>4, <1>5 DEF Ending

\* Every step of a dispatch call keeps the rows in agreement.
LEMMA CallAgrees ==
  ASSUME TypeOK, Agreement, NEW c \in Calls, CallStep(c) \/ Abandon(c)
  PROVE  Agreement'
PROOF
  <1>1. subject[c] \in Evals /\ UNCHANGED deliveryVars
    BY DEF CallStep, Abandon, TypeOK, Claim, ClaimLost, Freeze, FreezeFails, ProbeHealthy, ProbeFails,
       AdmitQueued, AdmitAgain, Defer, Send, SendRefused, Receive, NoAnswer
  <1>2. CASE Claim(c)
    BY <1>1, <1>2 DEF Claim, TypeOK, Agreement, RowsAgree, Outcome, Untold, Told, evaluationVars,
       caseVars, cancelVars
  <1>3. CASE AdmitQueued(c)
    BY <1>1, <1>3 DEF AdmitQueued, TypeOK, Agreement, RowsAgree, Outcome, Untold, Told, outboxVars,
       caseVars, cancelVars
  <1>4. CASE Freeze(c)
    BY <1>1, <1>4 DEF Freeze, TypeOK, Agreement, RowsAgree, Outcome, Untold, Told, evaluationVars,
       caseVars, cancelVars
  <1>5. CASE ~Claim(c) /\ ~AdmitQueued(c) /\ ~Freeze(c)
    <2>1. Ending(c)
      BY <1>5 DEF CallStep, Abandon, ClaimLost, FreezeFails, ProbeHealthy, ProbeFails, AdmitAgain, Defer,
         Send, SendRefused, Receive, NoAnswer, Ending, Rollback
    <2> QED BY <1>1, <2>1, EndingAgrees
  <1> QED BY <1>2, <1>3, <1>4, <1>5

\* So does every step of a callback, the watchdog, a deletion and the Evaluator.
LEMMA EvaluationAgrees ==
  ASSUME TypeOK, Agreement, NEW e \in Evals,
         Callback(e) \/ Watchdog(e) \/ Cancellation(e) \/ Remote(e)
  PROVE  Agreement'
PROOF
  <1> SUFFICES ASSUME NEW x \in Evals
               PROVE  RowsAgree(x)'
    BY DEF Agreement
  <1> USE DEF TypeOK, Agreement, RowsAgree, Outcome, Untold, Told, Open, SetOutbox,
          rowVars, evaluationVars, outboxVars, caseVars, cancelVars, Active, Settled, Judged
  <1>1. CASE Progress(e)
    BY <1>1 DEF Progress
  <1>2. CASE Complete(e)
    BY <1>2 DEF Complete
  <1>3. CASE Resume(e)
    BY <1>3 DEF Resume
  <1>4. CASE Finalize(e)
    BY <1>4 DEF Finalize, Verdicts
  <1>5. CASE ReadAgain(e) \/ ResumeLost(e) \/ FinalizeLost(e)
    BY <1>5 DEF ReadAgain, ResumeLost, FinalizeLost
  <1>6. CASE PersistenceFails(e)
    BY <1>6 DEF PersistenceFails
  <1>7. CASE StopNotice(e)
    BY <1>7 DEF StopNotice
  <1>8. CASE SweepMark(e)
    BY <1>8 DEF SweepMark
  <1>9. CASE SweepRelease(e)
    BY <1>9 DEF SweepRelease
  <1>10. CASE Reap(e)
    BY <1>10 DEF Reap, Reapable, FailCase
  <1>11. CASE Cancel(e)
    <2>1. CASE x # e
      BY <1>11, <2>1 DEF Cancel
    <2>2. CASE x = e /\ status[e] \in Judged
      BY <1>11, <2>2 DEF Cancel
    <2>3. CASE x = e /\ status[e] \notin Judged
      <3>1. status'[e] = "cancelled" /\ e \in deleted' /\ failure' = failure
            /\ digest' = digest
        BY <1>11, <2>3 DEF Cancel
      <3>2. ASSUME ~DatabaseFaults
            PROVE  \/ run'[e] = "cancelled" /\ result'[e] = "cancelled"
                   \/ run'[e] = "evaluation_failed" /\ result'[e] = "failed"
        <4>1. status[e] \in Active \cup {"normalizing", "dispatch_failed"}
          BY <1>11, <2>3 DEF Cancel, Statuses
        <4>2. Untold(e)
          BY <3>2, <4>1
        <4> QED BY <1>11, <4>2 DEF Cancel
      <3>3. outbox' = outbox
        BY <1>11 DEF Cancel
      <3>4. ~DatabaseFaults => Outcome(e)'
        BY <3>1, <3>2
      <3>5. status'[e] \notin Active \cup Settled \cup {"normalizing"}
        BY <3>1
      <3> HIDE DEF Told, Outcome
      <3> QED BY <2>3, <3>1, <3>3, <3>4, <3>5
    <2> QED BY <2>1, <2>2, <2>3
  <1>12. CASE CancelJob(e) \/ ConfirmCancel(e)
    BY <1>12 DEF CancelJob, ConfirmCancel
  <1>13. CASE Remote(e)
    BY <1>13 DEF Remote, LateArrive, JobEnds, Unwind
  <1> QED
    BY <1>1, <1>2, <1>3, <1>4, <1>5, <1>6, <1>7, <1>8, <1>9, <1>10, <1>11, <1>12, <1>13
       DEF Callback, Watchdog, Cancellation

\* The agreement of the rows is inductive.
LEMMA StepAgrees == TypeOK /\ Agreement /\ [Next]_vars => Agreement'
PROOF
  <1> SUFFICES ASSUME TypeOK, Agreement, [Next]_vars
               PROVE  Agreement'
    OBVIOUS
  <1>1. ASSUME NEW c \in Calls, CallStep(c) \/ Abandon(c)
        PROVE  Agreement'
    BY <1>1, CallAgrees
  <1>2. ASSUME NEW e \in Evals,
               Callback(e) \/ Watchdog(e) \/ Cancellation(e) \/ Remote(e)
        PROVE  Agreement'
    BY <1>2, EvaluationAgrees
  <1>3. ASSUME UNCHANGED <<rowVars, deliveryVars>>
        PROVE  Agreement'
    BY <1>3 DEF Agreement, RowsAgree, Outcome, Untold, Told, rowVars, evaluationVars, outboxVars,
       caseVars, cancelVars
  <1>4. ASSUME NEW c \in Calls, (\E e \in Evals : Begin(c, e)) \/ Handle(c) \/ Refuse(c)
        PROVE  UNCHANGED <<rowVars, deliveryVars>>
    BY <1>4 DEF Begin, Handle, Refuse
  <1>5. ASSUME ShutDown \/ Restart \/ UNCHANGED vars
        PROVE  UNCHANGED <<rowVars, deliveryVars>>
    BY <1>5 DEF ShutDown, Restart, vars
  <1> QED
    BY <1>1, <1>2, <1>3, <1>4, <1>5 DEF Next

\* The inductive invariant the results below rest on: in every reachable state
\* the rows of each evaluation agree.
THEOREM RowsAlwaysAgree == Spec => [](TypeOK /\ Agreement)
PROOF
  <1>1. Init => Agreement
    BY DEF Init, Agreement, RowsAgree, Outcome, Active, Settled, Judged
  <1>2. TypeOK /\ Agreement /\ [Next]_vars => Agreement'
    BY StepAgrees
  <1> QED
    BY <1>1, <1>2, TypeCorrect, PTL DEF Spec

\* While the database accepts every write, an evaluation never ends with a
\* status that its case run or its official result contradicts.
THEOREM SettlingClosesCase ==
  ASSUME ~DatabaseFaults
  PROVE  Spec => []SettledClosesCase
PROOF
  <1>1. TypeOK /\ Agreement => SettledClosesCase
    BY DEF Agreement, RowsAgree, Outcome, SettledClosesCase
  <1> QED
    BY <1>1, RowsAlwaysAgree, PTL

-----------------------------------------------------------------------------
(* The same while the database may refuse a verdict, and the completions   *)
(* of an evaluation are handled one at a time.                             *)

Unwritten(e) == \/ finishing[e] > 0
                \/ status[e] = "normalizing"
                \/ status[e] = "normalization_failed" /\ failure[e] = "unsaved"

\* A verdict that is still to be written overwrites none but a failure, or meets a case
\* that was deleted while it was unsaved.
RetryFits(e) ==
  /\ status[e] \in Settled /\ failure[e] # "unsaved" => Told(e) \/ CaseWithdrawn(e)
  /\ finishing[e] = 0 \/ resuming[e] = 0
  /\ finishing[e] > 0 => status[e] \in {"normalizing", "failed", "cancelled"}
  /\ resuming[e] > 0 /\ status[e] = "normalization_failed" => failure[e] = "unsaved"
  /\ Unwritten(e) => Untold(e) \/ CaseWithdrawn(e)
RetriesFit == \A e \in Evals : RetryFits(e)

\* A call changes no evaluation whose completion has begun.
LEMMA EndingRetries ==
  ASSUME TypeOK, Agreement, RetriesFit, NEW c \in Calls, subject[c] \in Evals, Ending(c), UNCHANGED deliveryVars
  PROVE  RetriesFit'
PROOF
  <1> SUFFICES ASSUME NEW x \in Evals
               PROVE  RetryFits(x)'
    BY DEF RetriesFit
  <1>0. RetryFits(x) /\ RowsAgree(x) /\ RowsAgree(subject[c])
    BY DEF RetriesFit, Agreement
  <1> USE <1>0 DEF TypeOK, RowsAgree, RetryFits, Unwritten, Untold, CaseWithdrawn, Told, deliveryVars, Open, SetOutbox, Rollback,
          rowVars, evaluationVars, outboxVars, caseVars, cancelVars, Active, Settled, Judged
  <1>1. CASE \E code \in {"tolerated", "plain"} : MarkPending(c, code)
    BY <1>1 DEF MarkPending
  <1>2. CASE MarkFailed(c)
    <2>1. CASE x # subject[c] \/ ~(Open(subject[c]) /\ Owns(c))
      BY <1>2, <2>1 DEF MarkFailed, FailCase
    <2>2. CASE x = subject[c] /\ Open(x) /\ Owns(c)
      <3>1. run'[x] = "evaluation_failed" /\ result'[x] = "failed" /\ status'[x] = "dispatch_failed"
        BY <1>2, <2>2 DEF MarkFailed, FailCase
      <3>2. resuming[x] = 0 /\ finishing[x] = 0 /\ UNCHANGED <<resuming, finishing, deleted>>
        BY <1>2, <2>2 DEF MarkFailed
      <3> QED BY <3>1, <3>2
    <2> QED BY <2>1, <2>2
  <1>3. CASE MarkAccepted(c)
    BY <1>3 DEF MarkAccepted
  <1>4. CASE MarkUnknown(c)
    BY <1>4 DEF MarkUnknown
  <1>5. CASE Rollback
    BY <1>5
  <1> QED BY <1>1, <1>2, <1>3, <1>4, <1>5 DEF Ending

\* Every other step of a call ends it, or leaves status, case and completion alone.
LEMMA CallRetries ==
  ASSUME TypeOK, Agreement, RetriesFit, NEW c \in Calls, CallStep(c) \/ Abandon(c)
  PROVE  RetriesFit'
PROOF
  <1>1. subject[c] \in Evals /\ UNCHANGED deliveryVars
    BY DEF CallStep, Abandon, TypeOK, Claim, ClaimLost, Freeze, FreezeFails, ProbeHealthy, ProbeFails,
       AdmitQueued, AdmitAgain, Defer, Send, SendRefused, Receive, NoAnswer
  <1>2. CASE Claim(c) \/ AdmitQueued(c) \/ Freeze(c)
    <2>1. UNCHANGED <<status, run, result, failure, deleted>>
      BY <1>2 DEF Claim, AdmitQueued, Freeze, evaluationVars, caseVars, cancelVars
    <2> QED BY <1>1, <2>1 DEF RetriesFit, RetryFits, Unwritten, Untold, CaseWithdrawn, Told, deliveryVars
  <1>3. CASE ~Claim(c) /\ ~AdmitQueued(c) /\ ~Freeze(c)
    <2>1. Ending(c)
      BY <1>3 DEF CallStep, Abandon, ClaimLost, FreezeFails, ProbeHealthy, ProbeFails, AdmitAgain, Defer,
         Send, SendRefused, Receive, NoAnswer, Ending, Rollback
    <2> QED BY <1>1, <2>1, EndingRetries
  <1> QED BY <1>2, <1>3

\* Callbacks, watchdog, deletion and Evaluator: whoever is about to write a verdict finds
\* the case as it was, or failed by the reaper.
LEMMA EvaluationRetries ==
  ASSUME MaxDeliveries = 1, TypeOK, Agreement, RetriesFit, NEW e \in Evals,
         Callback(e) \/ Watchdog(e) \/ Cancellation(e) \/ Remote(e)
  PROVE  RetriesFit'
PROOF
  <1> SUFFICES ASSUME NEW x \in Evals
               PROVE  RetryFits(x)'
    BY DEF RetriesFit
  <1>0. RetryFits(x) /\ RowsAgree(x) /\ finishing[x] \in 0..1 /\ resuming[x] \in 0..1
    BY DEF RetriesFit, Agreement, TypeOK
  <1> USE <1>0 DEF TypeOK, RowsAgree, RetryFits, Unwritten, Untold, CaseWithdrawn, Told, deliveryVars, Open, SetOutbox,
          rowVars, evaluationVars, outboxVars, caseVars, cancelVars, Active, Settled, Judged
  <1>1. CASE Progress(e)
    BY <1>1 DEF Progress
  <1>2. CASE Complete(e)
    BY <1>2 DEF Complete
  <1>3. CASE Resume(e)
    BY <1>3 DEF Resume
  <1>4. CASE Finalize(e)
    BY <1>4 DEF Finalize, Verdicts
  <1>5. CASE ReadAgain(e) \/ ResumeLost(e) \/ FinalizeLost(e)
    BY <1>5 DEF ReadAgain, ResumeLost, FinalizeLost
  <1>6. CASE PersistenceFails(e)
    BY <1>6 DEF PersistenceFails
  <1>7. CASE StopNotice(e)
    BY <1>7 DEF StopNotice
  <1>8. CASE SweepMark(e) \/ SweepRelease(e)
    BY <1>8 DEF SweepMark, SweepRelease
  <1>9. CASE Reap(e)
    BY <1>9 DEF Reap, Reapable, FailCase
  <1>10. CASE Cancel(e)
    BY <1>10 DEF Cancel
  <1>11. CASE CancelJob(e) \/ ConfirmCancel(e)
    BY <1>11 DEF CancelJob, ConfirmCancel
  <1>12. CASE Remote(e)
    BY <1>12 DEF Remote, LateArrive, JobEnds, Unwind
  <1> QED
    BY <1>1, <1>2, <1>3, <1>4, <1>5, <1>6, <1>7, <1>8, <1>9, <1>10, <1>11, <1>12
       DEF Callback, Watchdog, Cancellation

\* The database may refuse any verdict: an evaluation whose completions are handled one
\* at a time never ends with a status that its case or its result contradicts, unless the
\* refusal is recorded on it or the case was deleted before the verdict was repeated.
THEOREM SettlingClosesCaseAfterFaults ==
  ASSUME MaxDeliveries = 1
  PROVE  Spec => []SettledClosesCase
PROOF
  <1>1. Init => RetriesFit
    BY DEF Init, RetriesFit, RetryFits, Unwritten, Settled, Judged
  <1>2. ASSUME TypeOK, Agreement, RetriesFit, [Next]_vars
        PROVE  RetriesFit'
    <2>1. ASSUME NEW c \in Calls, CallStep(c) \/ Abandon(c)
          PROVE  RetriesFit'
      BY <1>2, <2>1, CallRetries
    <2>2. ASSUME NEW e \in Evals, Callback(e) \/ Watchdog(e) \/ Cancellation(e) \/ Remote(e)
          PROVE  RetriesFit'
      BY <1>2, <2>2, EvaluationRetries
    <2>3. ASSUME UNCHANGED <<rowVars, deliveryVars>>
          PROVE  RetriesFit'
      BY <1>2, <2>3 DEF RetriesFit, RetryFits, Unwritten, Untold, CaseWithdrawn, Told, rowVars, evaluationVars, caseVars,
         cancelVars, deliveryVars
    <2>4. ASSUME NEW c \in Calls, (\E e \in Evals : Begin(c, e)) \/ Handle(c) \/ Refuse(c)
          PROVE  UNCHANGED <<rowVars, deliveryVars>>
      BY <2>4 DEF Begin, Handle, Refuse
    <2>5. ASSUME ShutDown \/ Restart \/ UNCHANGED vars
          PROVE  UNCHANGED <<rowVars, deliveryVars>>
      BY <2>5 DEF ShutDown, Restart, vars
    <2> QED BY <1>2, <2>1, <2>2, <2>3, <2>4, <2>5 DEF Next
  <1>3. RetriesFit => SettledClosesCase
    BY DEF RetriesFit, RetryFits, SettledClosesCase
  <1> QED BY <1>1, <1>2, <1>3, RowsAlwaysAgree, PTL DEF Spec

\* A recorded acknowledgement is never followed by a second wait for dispatch.
THEOREM AcceptedStays == Spec => []AcceptedIsNotQueued
PROOF
  <1>1. TypeOK /\ Agreement => AcceptedIsNotQueued
    BY DEF Agreement, RowsAgree, AcceptedIsNotQueued
  <1> QED
    BY <1>1, RowsAlwaysAgree, PTL

-----------------------------------------------------------------------------
(* What a step may do to one evaluation, its case run and its result.      *)

Kept(e) == status'[e] = status[e] /\ run'[e] = run[e] /\ result'[e] = result[e]

Reopened(e) ==
  /\ status[e] \in Active /\ status'[e] \in Active
  /\ run'[e] = run[e] /\ result'[e] = result[e]

Frozen(e) ==
  /\ status[e] \in Active /\ status'[e] = "normalizing"
  /\ run'[e] = run[e] /\ result'[e] = result[e]

\* A delivery takes up a failed normalization once more.
Retaken(e) ==
  /\ status[e] = "normalization_failed" /\ status'[e] = "normalizing" /\ resuming[e] > 0
  /\ run'[e] = run[e] /\ result'[e] = result[e]

Pronounced(e) ==
  /\ status[e] = "normalizing"
  /\ <<status'[e], run'[e], result'[e]>> \in Verdicts

GivenUp(e) ==
  /\ status[e] \in Active \cup {"normalizing"}
  /\ status'[e] \in {"failed", "dispatch_failed"}
  /\ run'[e] = "evaluation_failed" /\ result'[e] = "failed"

Withdrawn(e) ==
  /\ status[e] \in Active \cup {"normalizing"} /\ status'[e] = "cancelled"
  /\ run[e] = "submitted" /\ result[e] = "pending"
  /\ run'[e] = "cancelled" /\ result'[e] = "cancelled"

FailureWithdrawn(e) ==
  /\ status[e] \in {"normalizing", "dispatch_failed"} /\ status'[e] = "cancelled"
  /\ run[e] = "evaluation_failed" /\ result[e] = "failed"
  /\ run'[e] = run[e] /\ result'[e] = result[e]

RowMoves(e) ==
  \/ Kept(e) \/ Reopened(e) \/ Frozen(e) \/ Retaken(e) \/ Pronounced(e)
  \/ GivenUp(e) \/ Withdrawn(e) \/ FailureWithdrawn(e)

OneRowMoves(e) == RowMoves(e) /\ \A x \in Evals \ {e} : Kept(x)

\* The end of a call moves one evaluation by a legal move, or none.
LEMMA EndingMoves ==
  ASSUME TypeOK, Agreement, ~DatabaseFaults, NEW c \in Calls, subject[c] \in Evals, Ending(c)
  PROVE  OneRowMoves(subject[c])
PROOF
  <1> USE DEF TypeOK, Agreement, RowsAgree, OneRowMoves, RowMoves, Kept, Open, Rollback,
          rowVars, evaluationVars, caseVars, Active
  <1>1. CASE \E code \in {"tolerated", "plain"} : MarkPending(c, code)
    BY <1>1 DEF MarkPending, Reopened
  <1>2. CASE MarkFailed(c)
    BY <1>2 DEF MarkFailed, FailCase, GivenUp
  <1>3. CASE MarkAccepted(c)
    BY <1>3 DEF MarkAccepted, Reopened
  <1>4. CASE MarkUnknown(c)
    BY <1>4 DEF MarkUnknown, Reopened
  <1>5. CASE Rollback
    BY <1>5
  <1> QED
    BY <1>1, <1>2, <1>3, <1>4, <1>5 DEF Ending

\* Every step of a dispatch call moves at most one evaluation.
LEMMA CallMoves ==
  ASSUME TypeOK, Agreement, ~DatabaseFaults, NEW c \in Calls, CallStep(c) \/ Abandon(c)
  PROVE  \E e \in Evals : OneRowMoves(e)
PROOF
  <1>1. subject[c] \in Evals
    BY DEF CallStep, Abandon, TypeOK, Claim, ClaimLost, Freeze, FreezeFails, ProbeHealthy, ProbeFails,
       AdmitQueued, AdmitAgain, Defer, Send, SendRefused, Receive, NoAnswer
  <1>2. CASE Claim(c)
    BY <1>1, <1>2 DEF Claim, OneRowMoves, RowMoves, Kept, evaluationVars, caseVars
  <1>3. CASE AdmitQueued(c)
    BY <1>1, <1>3 DEF AdmitQueued, OneRowMoves, RowMoves, Kept, caseVars
  <1>4. CASE Freeze(c)
    BY <1>1, <1>4 DEF Freeze, OneRowMoves, RowMoves, Kept, evaluationVars, caseVars
  <1>5. CASE ~Claim(c) /\ ~AdmitQueued(c) /\ ~Freeze(c)
    <2>1. Ending(c)
      BY <1>5 DEF CallStep, Abandon, ClaimLost, FreezeFails, ProbeHealthy, ProbeFails, AdmitAgain, Defer,
         Send, SendRefused, Receive, NoAnswer, Ending, Rollback
    <2> QED BY <1>1, <2>1, EndingMoves
  <1> QED BY <1>2, <1>3, <1>4, <1>5

\* So does every other step about an evaluation.
LEMMA EvaluationMoves ==
  ASSUME TypeOK, Agreement, ~DatabaseFaults, NEW e \in Evals,
         Callback(e) \/ Watchdog(e) \/ Cancellation(e) \/ Remote(e)
  PROVE  OneRowMoves(e)
PROOF
  <1> USE DEF TypeOK, Agreement, RowsAgree, OneRowMoves, RowMoves, Kept, Open,
          rowVars, evaluationVars, caseVars, Active
  <1>1. CASE Progress(e)
    BY <1>1 DEF Progress, Reopened
  <1>2. CASE Complete(e)
    BY <1>2 DEF Complete, Frozen
  <1>3. CASE Resume(e)
    BY <1>3 DEF Resume, Retaken
  <1>4. CASE Finalize(e)
    BY <1>4 DEF Finalize, Verdicts, Pronounced
  <1>5. CASE ReadAgain(e) \/ ResumeLost(e) \/ FinalizeLost(e)
    BY <1>5 DEF ReadAgain, ResumeLost, FinalizeLost
  <1>6. CASE PersistenceFails(e)
    BY <1>6 DEF PersistenceFails
  <1>7. CASE StopNotice(e)
    BY <1>7 DEF StopNotice, GivenUp
  <1>8. CASE SweepMark(e)
    BY <1>8 DEF SweepMark, Reopened
  <1>9. CASE SweepRelease(e)
    BY <1>9 DEF SweepRelease
  <1>10. CASE Reap(e)
    BY <1>10 DEF Reap, Reapable, FailCase, GivenUp, Outcome, Untold
  <1>11. CASE Cancel(e)
    <2>1. \A x \in Evals \ {e} : Kept(x)
      BY <1>11 DEF Cancel
    <2>2. CASE status[e] \in Active
      <3>1. run[e] = "submitted" /\ result[e] = "pending"
        BY <2>2
      <3> QED BY <1>11, <2>1, <2>2, <3>1 DEF Cancel, Withdrawn, Judged
    <2>3. CASE status[e] \in {"normalizing", "dispatch_failed"}
      <3>1. Untold(e) /\ (status[e] = "dispatch_failed" => run[e] = "evaluation_failed" /\ result[e] = "failed")
        BY <2>3 DEF Outcome, Untold, Told, Settled
      <3> QED BY <1>11, <2>1, <2>3, <3>1 DEF Cancel, Untold, Withdrawn, FailureWithdrawn, Judged
    <2>4. CASE status[e] \in Judged
      <3>1. run[e] # "submitted" /\ result[e] # "pending"
        BY <2>4 DEF Outcome, Told, Settled
      <3> QED BY <1>11, <2>1, <2>4, <3>1 DEF Cancel
    <2>5. status[e] # "cancelled"
      BY <1>11 DEF Cancel
    <2> QED BY <2>2, <2>3, <2>4, <2>5 DEF Statuses, Settled
  <1>12. CASE CancelJob(e) \/ ConfirmCancel(e)
    BY <1>12 DEF CancelJob, ConfirmCancel
  <1>13. CASE Remote(e)
    BY <1>13 DEF Remote, LateArrive, JobEnds, Unwind
  <1> QED
    BY <1>1, <1>2, <1>3, <1>4, <1>5, <1>6, <1>7, <1>8, <1>9, <1>10, <1>11, <1>12, <1>13
       DEF Callback, Watchdog, Cancellation

\* Hence every step of the system does.
LEMMA StepMoves ==
  ASSUME TypeOK, Agreement, ~DatabaseFaults, [Next]_vars
  PROVE  (\E e \in Evals : OneRowMoves(e)) \/ UNCHANGED <<status, run, result>>
PROOF
  <1>1. ASSUME NEW c \in Calls, (\E e \in Evals : Begin(c, e)) \/ Handle(c) \/ Refuse(c)
        PROVE  UNCHANGED <<status, run, result>>
    BY <1>1 DEF Begin, Handle, Refuse, rowVars, evaluationVars, caseVars
  <1>2. ASSUME ShutDown \/ Restart \/ UNCHANGED vars
        PROVE  UNCHANGED <<status, run, result>>
    BY <1>2 DEF ShutDown, Restart, vars, rowVars, evaluationVars, caseVars
  <1> QED
    BY <1>1, <1>2, CallMoves, EvaluationMoves DEF Next

\* While the database accepts every write, no delivery takes up a failed normalization
\* that it reads as failed.
LEMMA UnreadIsAbandoned ==
  ASSUME TypeOK, Agreement, ~DatabaseFaults, [Next]_vars, NEW x \in Evals,
         status[x] = "normalization_failed"
  PROVE  resuming'[x] <= resuming[x]
PROOF
  <1>1. resuming[x] \in Nat /\ failure[x] # "unsaved"
    BY LimitsAssumption DEF TypeOK, Agreement, RowsAgree
  <1>2. ASSUME NEW e \in Evals, Callback(e)
        PROVE  resuming'[x] <= resuming[x]
    <2>1. CASE ReadAgain(e)
      BY <1>1, <2>1 DEF ReadAgain, TypeOK
    <2>2. CASE Resume(e) \/ ResumeLost(e)
      BY <1>1, <2>2 DEF Resume, ResumeLost, TypeOK
    <2>3. CASE ~ReadAgain(e) /\ ~Resume(e) /\ ~ResumeLost(e)
      BY <1>1, <1>2, <2>3 DEF Callback, Progress, Complete, Finalize, FinalizeLost, PersistenceFails,
         StopNotice, deliveryVars
    <2> QED BY <2>1, <2>2, <2>3
  <1>3. ASSUME NEW e \in Evals, Watchdog(e) \/ Cancellation(e) \/ Remote(e)
        PROVE  UNCHANGED resuming
    BY <1>3 DEF Watchdog, Cancellation, Remote, SweepMark, SweepRelease, Reap, Cancel, CancelJob,
       ConfirmCancel, LateArrive, JobEnds, Unwind, deliveryVars
  <1>4. ASSUME NEW c \in Calls, CallStep(c) \/ Abandon(c)
        PROVE  UNCHANGED resuming
    BY <1>4 DEF CallStep, Abandon, Claim, ClaimLost, Freeze, FreezeFails, ProbeHealthy, ProbeFails,
       AdmitQueued, AdmitAgain, Defer, Send, SendRefused, Receive, NoAnswer, deliveryVars
  <1>5. ASSUME NEW c \in Calls, (\E e \in Evals : Begin(c, e)) \/ Handle(c) \/ Refuse(c)
        PROVE  UNCHANGED resuming
    BY <1>5 DEF Begin, Handle, Refuse, deliveryVars
  <1>6. ASSUME ShutDown \/ Restart \/ UNCHANGED vars
        PROVE  UNCHANGED resuming
    BY <1>6 DEF ShutDown, Restart, vars, deliveryVars
  <1> QED
    BY <1>1, <1>2, <1>3, <1>4, <1>5, <1>6 DEF Next

\* While the database accepts every write, a terminal status and the verdict of its case
\* are final: no late answer, stale call, watchdog or repeated completion rewrites them.
\* A failed dispatch may still be cancelled; a failed normalization may be taken up again
\* by the deliveries that read the row before it failed, whose number only falls.
THEOREM SettlingIsFinal ==
  ASSUME ~DatabaseFaults
  PROVE  Spec => SettledIsFinal
PROOF
  <1> DEFINE Final(e) ==
               /\ status[e] \in {"completed", "submission_invalid", "failed", "cancelled"} =>
                    status'[e] = status[e]
               /\ run[e] \in {"evaluated", "submission_invalid"} =>
                    run'[e] = run[e] /\ result'[e] = result[e]
               /\ status[e] = "dispatch_failed" => status'[e] \in {"dispatch_failed", "cancelled"}
               /\ status[e] = "normalization_failed" =>
                    /\ status'[e] \in {"normalization_failed", "normalizing"}
                    /\ resuming'[e] <= resuming[e]
                    /\ resuming[e] = 0 => status'[e] = status[e]
  <1>1. TypeOK /\ Agreement /\ [Next]_vars => [\A e \in Evals : Final(e)]_vars
    <2> SUFFICES ASSUME TypeOK, Agreement, [Next]_vars, NEW e \in Evals PROVE Final(e)
      OBVIOUS
    <2>1. RowMoves(e)
      <3>1. ASSUME UNCHANGED <<status, run, result>> PROVE Kept(e)
        BY <3>1 DEF Kept
      <3> QED BY <3>1, StepMoves DEF OneRowMoves, RowMoves
    <2>2. status[e] = "normalization_failed" => resuming'[e] <= resuming[e]
      BY UnreadIsAbandoned
    <2>3. run[e] \in {"evaluated", "submission_invalid"} =>
            status[e] \notin Active \cup {"normalizing", "dispatch_failed"}
      BY DEF Agreement, RowsAgree, Outcome, Untold, Told, Settled
    <2>4. resuming[e] \in Nat
      BY LimitsAssumption DEF TypeOK
    <2> QED
      BY <2>1, <2>2, <2>3, <2>4 DEF RowMoves, Kept, Reopened, Frozen, Retaken, Pronounced, GivenUp,
         Withdrawn, FailureWithdrawn, Active
  <1> QED
    BY <1>1, RowsAlwaysAgree, PTL DEF Spec, SettledIsFinal

-----------------------------------------------------------------------------
(* The rows implement SettleOnce.                                          *)

\* A step that keeps all other rows changes the mapped state of one evaluation only.
LEMMA PhaseMoves ==
  ASSUME NEW e \in Evals, \A x \in Evals \ {e} : Kept(x)
  PROVE  /\ phaseOf' = [phaseOf EXCEPT ![e] = phaseOf'[e]]
         /\ verdictOf' = [verdictOf EXCEPT ![e] = verdictOf'[e]]
PROOF
  <1>1. \A x \in Evals \ {e} : phaseOf'[x] = phaseOf[x]
    BY DEF Kept, phaseOf
  <1>2. phaseOf' = [phaseOf EXCEPT ![e] = phaseOf'[e]]
    BY <1>1 DEF phaseOf
  <1>3. \A x \in Evals \ {e} : VerdictOf(run[x], result[x])' = VerdictOf(run[x], result[x])
    BY DEF Kept, VerdictOf
  <1>4. \A x \in Evals \ {e} : verdictOf'[x] = verdictOf[x]
    BY <1>3 DEF verdictOf
  <1>5. verdictOf' = [verdictOf EXCEPT ![e] = verdictOf'[e]]
    BY <1>4 DEF verdictOf
  <1> QED BY <1>2, <1>5

\* A legal move of the rows is a step of SettleOnce or changes nothing it can see.
LEMMA MovesImplement ==
  ASSUME TypeOK, NEW e \in Evals, OneRowMoves(e)
  PROVE  (phaseOf'[e] # phaseOf[e] /\ Promise!Step(e)) \/ UNCHANGED Promise!outcome
PROOF
  <1>0. /\ [phaseOf EXCEPT ![e] = phaseOf[e]] = phaseOf
        /\ [verdictOf EXCEPT ![e] = verdictOf[e]] = verdictOf
    BY DEF phaseOf, verdictOf
  <1> USE DEF Promise!outcome
  <1>1. /\ phaseOf' = [phaseOf EXCEPT ![e] = phaseOf'[e]]
        /\ verdictOf' = [verdictOf EXCEPT ![e] = verdictOf'[e]]
    BY PhaseMoves DEF OneRowMoves
  <1>2. status[e] \in Statuses /\ phaseOf[e] = PhaseOf[status[e]]
        /\ verdictOf[e] = VerdictOf(run[e], result[e])
        /\ verdictOf'[e] = VerdictOf(run'[e], result'[e])
    BY DEF TypeOK, phaseOf, verdictOf
  <1>3. status'[e] \in Statuses => phaseOf'[e] = PhaseOf[status'[e]]
    BY DEF phaseOf
  <1> USE <1>1, <1>2, <1>3 DEF PhaseOf, Statuses, Active, Settled, Judged
  <1>4. CASE Kept(e) \/ Reopened(e)
    <2>1. phaseOf'[e] = phaseOf[e] /\ verdictOf'[e] = verdictOf[e]
      BY <1>4 DEF Kept, Reopened
    <2>2. phaseOf' = phaseOf /\ verdictOf' = verdictOf
      BY <1>0, <1>1, <2>1, Zenon
    <2> QED BY <2>2
  <1>5. CASE Frozen(e) \/ Retaken(e)
    <2>1. phaseOf[e] \in {"open", "unread"} /\ phaseOf'[e] = "judging" /\ verdictOf'[e] = verdictOf[e]
      BY <1>5 DEF Frozen, Retaken
    <2>2. verdictOf' = verdictOf
      BY <1>0, <1>1, <2>1, Zenon
    <2> QED BY <2>1, <2>2 DEF Promise!Step, Promise!Judge, Promise!JudgeAgain
  <1>6. CASE Pronounced(e)
    <2>1. phaseOf[e] = "judging"
      BY <1>6 DEF Pronounced
    <2>2. \/ phaseOf'[e] = "settled" /\ verdictOf'[e] \in {"evaluated", "invalid", "failed"}
          \/ phaseOf'[e] = "unread" /\ verdictOf'[e] = "failed"
      BY <1>6 DEF Pronounced, Verdicts, VerdictOf
    <2> QED BY <2>1, <2>2 DEF Promise!Step, Promise!Pronounce, Promise!FailToRead
  <1>7. CASE GivenUp(e)
    <2>1. phaseOf[e] \in {"open", "judging"} /\ phaseOf'[e] = "settled"
      BY <1>7 DEF GivenUp
    <2>2. verdictOf'[e] = "failed"
      BY <1>7 DEF GivenUp, VerdictOf
    <2> QED BY <2>1, <2>2 DEF Promise!Step, Promise!GiveUp
  <1>8. CASE Withdrawn(e)
    <2>1. phaseOf[e] \in {"open", "judging"} /\ phaseOf'[e] = "withdrawn"
      BY <1>8 DEF Withdrawn
    <2>2. verdictOf[e] = "none" /\ verdictOf'[e] = "cancelled"
      BY <1>8 DEF Withdrawn, VerdictOf
    <2> QED BY <2>1, <2>2 DEF Promise!Step, Promise!Withdraw
  <1>9. CASE FailureWithdrawn(e)
    <2>1. phaseOf[e] \in {"judging", "settled"} /\ phaseOf'[e] = "withdrawn"
      BY <1>9 DEF FailureWithdrawn
    <2>2. verdictOf[e] = "failed" /\ verdictOf'[e] = verdictOf[e]
      BY <1>9 DEF FailureWithdrawn, VerdictOf
    <2>3. verdictOf' = verdictOf
      BY <1>0, <1>1, <2>2, Zenon
    <2> QED BY <2>1, <2>2, <2>3 DEF Promise!Step, Promise!WithdrawFailed
  <1> QED
    BY <1>4, <1>5, <1>6, <1>7, <1>8, <1>9 DEF OneRowMoves, RowMoves

\* While the database accepts every write, what all parties together do to an
\* evaluation is to open it, freeze its raw result, and settle or withdraw it
\* once, with its verdict in the same step; only a result that could not be read
\* is judged again.
THEOREM EvaluationSettlesOnce ==
  ASSUME ~DatabaseFaults
  PROVE  Spec => SettlesOnce
PROOF
  <1>1. Init => Promise!Init
    BY DEF Init, Promise!Init, phaseOf, PhaseOf, verdictOf, VerdictOf, Statuses, Active
  <1>2. TypeOK /\ Agreement /\ [Next]_vars => [Promise!Next]_(Promise!outcome)
    <2> SUFFICES ASSUME TypeOK, Agreement, [Next]_vars
                 PROVE  [Promise!Next]_(Promise!outcome)
      OBVIOUS
    <2>1. ASSUME NEW e \in Evals, OneRowMoves(e)
          PROVE  Promise!Next \/ UNCHANGED Promise!outcome
      BY <2>1, MovesImplement DEF Promise!Next
    <2>2. ASSUME UNCHANGED <<status, run, result>>
          PROVE  UNCHANGED Promise!outcome
      BY <2>2 DEF Promise!outcome, phaseOf, verdictOf, VerdictOf
    <2> QED BY <2>1, <2>2, StepMoves
  <1> QED
    BY <1>1, <1>2, RowsAlwaysAgree, PTL DEF Spec, SettlesOnce, Promise!Spec

-----------------------------------------------------------------------------
(* The outbox's attempt number.                                            *)

\* A call that no longer owns the outbox ends without writing anything, however
\* it ends.
THEOREM StaleCallsAreSilent == Spec => StaleCallWritesNothing
PROOF
  <1> DEFINE Silent == \A c \in Calls :
               at[c] \notin {"idle", "claim"} /\ at'[c] = "idle" /\ ~Owns(c) => UNCHANGED rowVars
  <1>1. TypeOK /\ [Next]_vars => [Silent]_vars
    <2> SUFFICES ASSUME TypeOK, [Next]_vars, NEW c \in Calls,
                        at[c] \notin {"idle", "claim"}, at'[c] = "idle", ~Owns(c)
                 PROVE  UNCHANGED rowVars
      OBVIOUS
    <2>1. ASSUME NEW d \in Calls, \E e \in Evals : Begin(d, e)
          PROVE  FALSE
      BY <2>1 DEF Begin, TypeOK
    <2>2. ASSUME NEW d \in Calls, CallStep(d) \/ Abandon(d)
          PROVE  UNCHANGED rowVars
      <3>1. d = c
        BY <2>2 DEF CallStep, Abandon, Return, TypeOK, Claim, ClaimLost, Freeze, FreezeFails, ProbeHealthy,
           ProbeFails, AdmitQueued, AdmitAgain, Defer, Send, SendRefused, Receive, NoAnswer
      <3> QED
        BY <2>2, <3>1 DEF CallStep, Abandon, TypeOK, Claim, ClaimLost, Freeze, FreezeFails, ProbeHealthy,
           ProbeFails, AdmitQueued, AdmitAgain, Defer, Send, SendRefused, Receive, NoAnswer,
           MarkPending, MarkFailed, MarkAccepted, MarkUnknown, Rollback
    <2>3. ASSUME NEW d \in Calls, Handle(d) \/ Refuse(d)
          PROVE  FALSE
      BY <2>3 DEF Handle, Refuse
    <2>4. ASSUME NEW e \in Evals,
                 Callback(e) \/ Watchdog(e) \/ Cancellation(e) \/ Remote(e)
          PROVE  FALSE
      BY <2>4 DEF Callback, Watchdog, Cancellation, Remote, callVars, Progress, Complete, ReadAgain, Resume, ResumeLost,
         Finalize, FinalizeLost, PersistenceFails, StopNotice, SweepMark, SweepRelease, Reap,
         Cancel, CancelJob, ConfirmCancel, LateArrive, JobEnds, Unwind
    <2>5. ASSUME ShutDown \/ Restart \/ UNCHANGED vars
          PROVE  FALSE
      BY <2>5 DEF ShutDown, Restart, vars, callVars
    <2> QED BY <2>1, <2>2, <2>3, <2>4, <2>5 DEF Next
  <1> QED
    BY <1>1, TypeCorrect, PTL DEF Spec, StaleCallWritesNothing

-----------------------------------------------------------------------------
(* Confirmed cancellations.                                                *)

\* An outbox that was never claimed has sent nothing.
Unclaimed(e) ==
  holder[e] = NoCall =>
    /\ job[e] = "none" /\ e \notin late /\ e \notin bound
    /\ \A c \in Calls : subject[c] = e => at[c] = "claim"

\* A confirmed cancellation is of an outbox nobody can claim any more, or the
\* Evaluator holds its tombstone.
Confirmed(e) ==
  status[e] = "cancelled" /\ e \notin unconfirmed => holder[e] = NoCall \/ job[e] = "stopped"

Quiet == \A e \in Evals : Unclaimed(e) /\ Confirmed(e)

\* A call that ends leaves no POST behind for an evaluation confirmed as cancelled.
LEMMA EndingQuiet ==
  ASSUME TypeOK, Quiet, NEW c \in Calls, at[c] \notin {"idle", "claim"}, Ending(c),
         LeaveBehind(c) \/ late' = late, Return(c), UNCHANGED <<job, halted>>
  PROVE  Quiet'
PROOF
  <1> DEFINE e == subject[c]
  <1>1. e \in Evals /\ holder[e] # NoCall
    BY DEF TypeOK, Quiet, Unclaimed
  <1>2. UNCHANGED <<holder, unconfirmed, bound>>
    BY DEF Ending, MarkPending, MarkFailed, MarkAccepted, MarkUnknown, SetOutbox, Rollback,
       rowVars, outboxVars, cancelVars
  <1>3. \A x \in Evals : status'[x] = "cancelled" => status[x] = "cancelled"
    BY <1>1 DEF TypeOK, Ending, MarkPending, MarkFailed, MarkAccepted, MarkUnknown, Rollback,
       rowVars, evaluationVars
  <1>4. late' \subseteq late \cup {e}
    BY DEF LeaveBehind
  <1>5. \A d \in Calls : d # c => subject'[d] = subject[d] /\ at'[d] = at[d]
    BY DEF Return, TypeOK
  <1>6. subject'[c] \notin Evals
    BY CallsAssumption DEF Return, TypeOK
  <1> QED
    BY <1>1, <1>2, <1>3, <1>4, <1>5, <1>6 DEF Quiet, Unclaimed, Confirmed

\* Every step of a dispatch call keeps confirmed cancellations quiet.
LEMMA CallQuiet ==
  ASSUME TypeOK, Quiet, NEW c \in Calls, CallStep(c) \/ Abandon(c)
  PROVE  Quiet'
PROOF
  <1>1. CASE Claim(c)
    BY <1>1, CallsAssumption DEF Claim, TypeOK, Quiet, Unclaimed, Confirmed, evaluationVars,
       cancelVars, remoteVars
  <1>2. CASE at[c] = "claim" /\ ~Claim(c)
    BY <1>2, CallsAssumption DEF CallStep, Abandon, ClaimLost, Return, LeaveBehind, TypeOK, Quiet,
       Unclaimed, Confirmed, rowVars, evaluationVars, outboxVars, cancelVars, remoteVars,
       Freeze, FreezeFails, ProbeHealthy, ProbeFails, AdmitQueued, AdmitAgain, Defer, Send,
       SendRefused, Receive, NoAnswer
  <1>3. CASE at[c] # "claim" /\ Return(c)
    <2>1. at[c] # "idle" /\ UNCHANGED <<job, halted>> /\ (LeaveBehind(c) \/ late' = late)
      BY <1>3 DEF CallStep, Abandon, Claim, ClaimLost, Freeze, FreezeFails, ProbeHealthy, ProbeFails, AdmitQueued,
         AdmitAgain, Defer, Send, SendRefused, Receive, NoAnswer, remoteVars
    <2>2. Ending(c)
      BY <1>3 DEF CallStep, Abandon, Claim, ClaimLost, Freeze, FreezeFails, ProbeHealthy, ProbeFails, AdmitQueued,
         AdmitAgain, Defer, Send, SendRefused, Receive, NoAnswer, Ending, Rollback, Return, TypeOK
    <2> QED BY <1>3, <2>1, <2>2, EndingQuiet
  <1>4. CASE at[c] # "claim" /\ ~Return(c)
    <2>1. /\ UNCHANGED <<status, holder, unconfirmed, subject, job, late>>
          /\ bound' \subseteq bound \cup {subject[c]}
          /\ at[c] # "idle"
          /\ \A d \in Calls : d # c => at'[d] = at[d]
      BY <1>4 DEF CallStep, Abandon, Claim, ClaimLost, Freeze, FreezeFails, ProbeHealthy, ProbeFails, AdmitQueued,
         AdmitAgain, Defer, Send, SendRefused, Receive, NoAnswer, rowVars, evaluationVars,
         outboxVars, cancelVars, remoteVars, TypeOK
    <2> QED BY <1>4, <2>1 DEF Quiet, Unclaimed, Confirmed, TypeOK
  <1> QED BY <1>1, <1>2, <1>3, <1>4

\* So does every step of a callback, the watchdog, a deletion and the Evaluator.
LEMMA EvaluationQuiet ==
  ASSUME TypeOK, Agreement, Quiet, NEW e \in Evals,
         Callback(e) \/ Watchdog(e) \/ Cancellation(e) \/ Remote(e)
  PROVE  Quiet'
PROOF
  <1> USE DEF TypeOK, Quiet, Unclaimed, Confirmed, rowVars, evaluationVars, outboxVars,
          cancelVars, callVars, remoteVars
  <1>1. CASE Callback(e)
    <2>1. UNCHANGED <<holder, unconfirmed, bound, subject, at, job, late>>
      BY <1>1 DEF Callback, Progress, Complete, ReadAgain, Resume, ResumeLost, Finalize, FinalizeLost, PersistenceFails,
         StopNotice
    <2>2. \A x \in Evals : status'[x] = "cancelled" => status[x] = "cancelled"
      BY <1>1 DEF Callback, Progress, Complete, ReadAgain, Resume, ResumeLost, Finalize, Verdicts, FinalizeLost,
         PersistenceFails, StopNotice
    <2> QED BY <2>1, <2>2
  <1>2. CASE Watchdog(e)
    <2>1. UNCHANGED <<holder, unconfirmed, bound, subject, at, job, late>>
      BY <1>2 DEF Watchdog, SweepMark, SweepRelease, Reap, SetOutbox
    <2>2. \A x \in Evals : status'[x] = "cancelled" => status[x] = "cancelled"
      BY <1>2 DEF Watchdog, SweepMark, SweepRelease, Reap, SetOutbox
    <2> QED BY <2>1, <2>2
  <1>3. CASE Cancel(e)
    <2>1. status[e] # "cancelled"
      BY <1>3 DEF Cancel, Agreement, RowsAgree
    <2> QED BY <1>3, <2>1 DEF Cancel
  <1>4. CASE CancelJob(e)
    BY <1>4 DEF CancelJob
  <1>5. CASE ConfirmCancel(e)
    BY <1>5 DEF ConfirmCancel
  <1>6. CASE LateArrive(e)
    BY <1>6 DEF LateArrive, Accept, CanAccept
  <1>7. CASE JobEnds(e) \/ Unwind(e)
    BY <1>7 DEF JobEnds, Unwind
  <1> QED
    BY <1>1, <1>2, <1>3, <1>4, <1>5, <1>6, <1>7 DEF Cancellation, Remote

\* That confirmed cancellations are quiet is inductive.
LEMMA StepQuiet == TypeOK /\ Agreement /\ Quiet /\ [Next]_vars => Quiet'
PROOF
  <1> SUFFICES ASSUME TypeOK, Agreement, Quiet, [Next]_vars
               PROVE  Quiet'
    OBVIOUS
  <1> USE DEF TypeOK, Quiet, Unclaimed, Confirmed, rowVars, evaluationVars, outboxVars,
          cancelVars, callVars, remoteVars
  <1>1. ASSUME NEW c \in Calls, NEW e \in Evals, Begin(c, e)
        PROVE  Quiet'
    BY <1>1 DEF Begin
  <1>2. ASSUME NEW c \in Calls, CallStep(c) \/ Abandon(c)
        PROVE  Quiet'
    BY <1>2, CallQuiet
  <1>3. ASSUME NEW c \in Calls, Handle(c) \/ Refuse(c)
        PROVE  Quiet'
    <2>1. subject[c] \in Evals /\ holder[subject[c]] # NoCall
      BY <1>3 DEF Handle, Refuse
    <2> QED BY <1>3, <2>1 DEF Handle, Refuse, Accept, CanAccept
  <1>4. ASSUME NEW e \in Evals,
               Callback(e) \/ Watchdog(e) \/ Cancellation(e) \/ Remote(e)
        PROVE  Quiet'
    BY <1>4, EvaluationQuiet
  <1>5. CASE ShutDown \/ Restart
    BY <1>5 DEF ShutDown, Restart
  <1>6. CASE UNCHANGED vars
    BY <1>6 DEF vars
  <1> QED
    BY <1>1, <1>2, <1>3, <1>4, <1>5, <1>6 DEF Next

\* When a cancellation is confirmed, the Evaluator runs nothing for it, and no
\* request still under way can make it run again.
THEOREM ConfirmationMeansQuiet == Spec => []ConfirmedCancelIsQuiet
PROOF
  <1>1. Init => Quiet
    BY CallsAssumption DEF Init, Quiet, Unclaimed, Confirmed
  <1>2. TypeOK /\ Agreement /\ Quiet /\ [Next]_vars => Quiet'
    BY StepQuiet
  <1>3. TypeOK /\ Quiet => ConfirmedCancelIsQuiet
    BY DEF TypeOK, Quiet, Unclaimed, Confirmed, ConfirmedCancelIsQuiet
  <1> QED
    BY <1>1, <1>2, <1>3, RowsAlwaysAgree, PTL DEF Spec

-----------------------------------------------------------------------------
(* The slots kept for evaluations on their way.                            *)

\* A slot is kept only at an address that is frozen, and a call has frozen it before it
\* asks for one.
SlotsFit ==
  /\ IsFiniteSet(bound) /\ reserved \subseteq bound
  /\ \A c \in Calls : at[c] \in {"probe", "admit", "send", "posted"} => subject[c] \in bound

\* A set that grows by one element of a set below a limit stays within the limit.
LEMMA OneMore ==
  ASSUME NEW S, IsFiniteSet(S), NEW e, NEW T, T \subseteq S \cup {e}, NEW k \in Nat, Cardinality(S) < k
  PROVE  Cardinality(T) <= k
PROOF
  <1>1. IsFiniteSet(S \cup {e})
    BY FS_Singleton, FS_Union
  <1>2. Cardinality(S) \in Nat /\ Cardinality(S \cup {e}) \in Nat
    BY <1>1, FS_CardinalityType
  <1>3. Cardinality(S \cup {e}) <= Cardinality(S) + 1
    <2>1. ASSUME e \in S PROVE S \cup {e} = S
      BY <2>1
    <2>2. ASSUME e \notin S PROVE Cardinality(S \cup {e}) = Cardinality(S) + 1
      BY <2>2, FS_AddElement
    <2> QED BY <2>1, <2>2, <1>2
  <1>4. Cardinality(T) \in Nat /\ Cardinality(T) <= Cardinality(S \cup {e})
    BY <1>1, FS_Subset, FS_CardinalityType
  <1> QED BY <1>2, <1>3, <1>4

\* The end of a call keeps no slot for a queued evaluation that had none.
LEMMA EndingSlots ==
  ASSUME TypeOK, NEW c \in Calls, subject[c] \in Evals, Ending(c)
  PROVE  /\ bound' = bound /\ reserved' \subseteq reserved
         /\ \A e \in Evals : status'[e] = "queued" /\ e \in reserved' => status[e] = "queued"
PROOF
  <1> USE DEF TypeOK, SetOutbox, Rollback, rowVars, evaluationVars, outboxVars
  <1>1. CASE \E code \in {"tolerated", "plain"} : MarkPending(c, code)
    BY <1>1 DEF MarkPending
  <1>2. CASE MarkFailed(c)
    BY <1>2 DEF MarkFailed
  <1>3. CASE MarkAccepted(c)
    BY <1>3 DEF MarkAccepted
  <1>4. CASE MarkUnknown(c)
    BY <1>4 DEF MarkUnknown
  <1>5. CASE Rollback
    BY <1>5
  <1> QED BY <1>1, <1>2, <1>3, <1>4, <1>5 DEF Ending

\* Only an admission keeps another slot; addresses, once frozen, stay.
LEMMA StepSlots ==
  ASSUME TypeOK, SlotsFit, [Next]_vars
  PROVE  /\ SlotsFit'
         /\ bound \subseteq bound'
         /\ Reservations' \subseteq Reservations \/ \E c \in Calls : AdmitQueued(c)
PROOF
  <1> DEFINE Fits == /\ IsFiniteSet(bound') /\ reserved' \subseteq bound' /\ bound \subseteq bound'
                     /\ \A c \in Calls : at'[c] \in {"probe", "admit", "send", "posted"} => subject'[c] \in bound'
             Keeps == Reservations' \subseteq Reservations
  <1>1. ASSUME UNCHANGED bound, reserved' \subseteq reserved,
               \A c \in Calls : at'[c] \in {"probe", "admit", "send", "posted"} =>
                 at[c] \in {"probe", "admit", "send", "posted"} /\ subject'[c] = subject[c],
               \A e \in Evals : status'[e] = "queued" /\ e \in reserved' => status[e] = "queued"
        PROVE  Fits /\ Keeps
    BY <1>1 DEF SlotsFit, Reservations
  <1>2. ASSUME NEW c \in Calls, CallStep(c) \/ Abandon(c)
        PROVE  Fits /\ (Keeps \/ AdmitQueued(c))
    <2>1. at[c] # "idle" /\ subject[c] \in Evals
      BY <1>2 DEF TypeOK, CallStep, Abandon, Claim, ClaimLost, Freeze, FreezeFails, ProbeHealthy, ProbeFails,
         AdmitQueued, AdmitAgain, Defer, Send, SendRefused, Receive, NoAnswer
    <2> USE DEF TypeOK, SlotsFit, Reservations
    <2>2. CASE Claim(c)
      BY <1>1, <2>1, <2>2 DEF Claim, evaluationVars
    <2>3. CASE Freeze(c)
      <3>1. IsFiniteSet(bound')
        BY <2>3, FS_AddElement DEF Freeze
      <3> QED BY <2>1, <2>3, <3>1 DEF Freeze, evaluationVars
    <2>4. CASE AdmitQueued(c)
      BY <2>1, <2>4 DEF AdmitQueued, outboxVars
    <2>5. CASE ProbeHealthy(c) \/ AdmitAgain(c) \/ Send(c)
      BY <1>1, <2>5 DEF ProbeHealthy, AdmitAgain, Send, rowVars, evaluationVars, outboxVars
    <2>6. CASE Ending(c) /\ Return(c)
      <3>1. \A d \in Calls : at'[d] # "idle" => at[d] = at'[d] /\ subject'[d] = subject[d]
        BY <2>6 DEF Return
      <3> QED BY <1>1, <2>1, <2>6, <3>1, EndingSlots
    <2>7. (ClaimLost(c) \/ FreezeFails(c) \/ ProbeFails(c) \/ Defer(c) \/ SendRefused(c)
            \/ Receive(c) \/ NoAnswer(c) \/ Abandon(c)) => Ending(c) /\ Return(c)
      BY DEF ClaimLost, FreezeFails, ProbeFails, Defer, SendRefused, Receive, NoAnswer, Abandon, Ending, Rollback
    <2> QED BY <1>2, <2>2, <2>3, <2>4, <2>5, <2>6, <2>7 DEF CallStep
  <1>3. ASSUME NEW c \in Calls, NEW e \in Evals, Begin(c, e)
        PROVE  Fits /\ Keeps
    BY <1>1, <1>3 DEF Begin, rowVars, evaluationVars, outboxVars, TypeOK
  <1>4. ASSUME NEW c \in Calls, Handle(c) \/ Refuse(c)
        PROVE  Fits /\ Keeps
    BY <1>1, <1>4 DEF Handle, Refuse, rowVars, evaluationVars, outboxVars
  <1>5. ASSUME NEW e \in Evals, Callback(e)
        PROVE  Fits /\ Keeps
    BY <1>1, <1>5 DEF Callback, Progress, Complete, ReadAgain, Resume, ResumeLost, Finalize, FinalizeLost, PersistenceFails, StopNotice,
       Verdicts, TypeOK, rowVars, evaluationVars, outboxVars, callVars
  <1>6. ASSUME NEW e \in Evals, Watchdog(e)
        PROVE  Fits /\ Keeps
    BY <1>1, <1>6 DEF Watchdog, SweepMark, SweepRelease, Reap, SetOutbox, TypeOK, evaluationVars, callVars
  <1>7. ASSUME NEW e \in Evals, Cancellation(e)
        PROVE  Fits /\ Keeps
    BY <1>1, <1>7 DEF Cancellation, Cancel, CancelJob, ConfirmCancel, TypeOK, rowVars, evaluationVars, outboxVars, callVars
  <1>8. ASSUME NEW e \in Evals, Remote(e)
        PROVE  Fits /\ Keeps
    BY <1>1, <1>8 DEF Remote, LateArrive, JobEnds, Unwind, rowVars, evaluationVars, outboxVars, callVars
  <1>9. ASSUME ShutDown \/ Restart \/ UNCHANGED vars
        PROVE  Fits /\ Keeps
    BY <1>1, <1>9 DEF ShutDown, Restart, vars, rowVars, evaluationVars, outboxVars, callVars
  <1> HIDE DEF Fits, Keeps
  <1>10. Fits /\ (Keeps \/ \E c \in Calls : AdmitQueued(c))
    <2>1. CASE \E c \in Calls : (\E e \in Evals : Begin(c, e)) \/ CallStep(c) \/ Abandon(c)
      BY <1>2, <1>3, <2>1
    <2>2. CASE \E e \in Evals : Callback(e) \/ Watchdog(e) \/ Cancellation(e) \/ Remote(e)
      BY <1>5, <1>6, <1>7, <1>8, <2>2
    <2> QED BY <1>4, <1>9, <2>1, <2>2 DEF Next
  <1> QED BY <1>10 DEF Fits, Keeps, SlotsFit

\* An admission keeps its slot within the limits: what is reserved counts as occupied.
LEMMA AdmissionCounts ==
  ASSUME TypeOK, SlotsFit, ReservationsWithinLimits, NEW c \in Calls, AdmitQueued(c)
  PROVE  ReservationsWithinLimits'
PROOF
  <1> DEFINE e == subject[c]
             others == Occupied \ {e}
             own == {o \in others : UserOf[o] = UserOf[e]}
  <1>1. e \in Evals /\ status[e] = "queued" /\ HasSlot(e)
    BY DEF AdmitQueued, TypeOK
  <1>2. Reservations \subseteq Occupied /\ Reservations' \subseteq others \cup {e}
    BY <1>1 DEF AdmitQueued, Reservations, Occupied, SlotsFit
  <1>3. IsFiniteSet(others) /\ IsFiniteSet(own)
    <2>1. others \subseteq bound /\ own \subseteq bound
      BY DEF Occupied
    <2> QED BY <2>1, FS_Subset DEF SlotsFit
  <1>4. Cardinality(others) < Capacity /\ Cardinality(own) < UserQuota
    BY <1>1 DEF HasSlot
  <1>5. Cardinality(Reservations') <= Capacity
    BY <1>2, <1>3, <1>4, OneMore, LimitsAssumption
  <1>6. ASSUME NEW u \in Users PROVE Cardinality({o \in Reservations' : UserOf[o] = u}) <= UserQuota
    <2>1. CASE u = UserOf[e]
      <3>1. {o \in Reservations' : UserOf[o] = u} \subseteq own \cup {e}
        BY <1>2, <2>1
      <3> QED BY <1>3, <1>4, <3>1, OneMore, LimitsAssumption
    <2>2. CASE u # UserOf[e]
      <3>1. {o \in Reservations' : UserOf[o] = u} \subseteq {o \in Reservations : UserOf[o] = u}
        BY <2>2 DEF AdmitQueued, Reservations
      <3>2. IsFiniteSet({o \in Reservations : UserOf[o] = u})
        BY FS_Subset DEF SlotsFit, Reservations
      <3>3. /\ Cardinality({o \in Reservations' : UserOf[o] = u}) <= Cardinality({o \in Reservations : UserOf[o] = u})
            /\ Cardinality({o \in Reservations' : UserOf[o] = u}) \in Nat
            /\ Cardinality({o \in Reservations : UserOf[o] = u}) \in Nat
        BY <3>1, <3>2, FS_Subset, FS_CardinalityType
      <3> QED BY <3>3, LimitsAssumption DEF ReservationsWithinLimits
    <2> QED BY <2>1, <2>2
  <1> QED BY <1>5, <1>6 DEF ReservationsWithinLimits

\* However many calls compete, the slots they hold between admission and acknowledgement
\* exceed neither the Evaluator's capacity nor a user's quota.
THEOREM ReservationsFit == Spec => []ReservationsWithinLimits
PROOF
  <1> DEFINE RInv == SlotsFit /\ ReservationsWithinLimits
  <1>1. Init => RInv
    <2> SUFFICES ASSUME Init PROVE RInv
      OBVIOUS
    <2>1. SlotsFit
      BY FS_EmptySet DEF Init, SlotsFit
    <2>2. Reservations = {} /\ \A u \in Users : {e \in Reservations : UserOf[e] = u} = {}
      BY DEF Init, Reservations
    <2>3. Cardinality({}) = 0
      BY FS_EmptySet
    <2>4. 0 <= Capacity /\ 0 <= UserQuota
      BY LimitsAssumption
    <2> QED BY <2>1, <2>2, <2>3, <2>4 DEF ReservationsWithinLimits
  <1>2. TypeOK /\ RInv /\ [Next]_vars => RInv'
    <2> SUFFICES ASSUME TypeOK, SlotsFit, ReservationsWithinLimits, [Next]_vars PROVE RInv'
      OBVIOUS
    <2>1. CASE \E c \in Calls : AdmitQueued(c)
      BY <2>1, StepSlots, AdmissionCounts
    <2>2. CASE Reservations' \subseteq Reservations
      <3>1. ASSUME NEW S, NEW T, S \subseteq T, T \subseteq Reservations, NEW k \in Nat, Cardinality(T) <= k
            PROVE  Cardinality(S) <= k
        <4>1. IsFiniteSet(T)
          BY <3>1, FS_Subset DEF SlotsFit, Reservations
        <4> QED BY <3>1, <4>1, FS_Subset, FS_CardinalityType
      <3>2. Cardinality(Reservations') <= Capacity
        BY <2>2, <3>1, LimitsAssumption DEF ReservationsWithinLimits
      <3>3. ASSUME NEW u \in Users PROVE Cardinality({o \in Reservations' : UserOf[o] = u}) <= UserQuota
        <4>1. /\ {o \in Reservations' : UserOf[o] = u} \subseteq {o \in Reservations : UserOf[o] = u}
              /\ {o \in Reservations : UserOf[o] = u} \subseteq Reservations
          BY <2>2
        <4>2. Cardinality({o \in Reservations : UserOf[o] = u}) <= UserQuota
          BY DEF ReservationsWithinLimits
        <4> QED BY <3>1, <4>1, <4>2, LimitsAssumption
      <3> QED BY <3>2, <3>3, StepSlots DEF ReservationsWithinLimits
    <2> QED BY <2>1, <2>2, StepSlots
  <1> QED BY <1>1, <1>2, TypeCorrect, PTL DEF Spec
=============================================================================
