------------------------- MODULE RunDispatchProofs -------------------------
(***************************************************************************)
(* Theorems about RunDispatch, for every set of runs and of dispatch       *)
(* calls, every concurrency, budget and number of executor slots, and      *)
(* however many receipts are lost or late.                                 *)
(***************************************************************************)
EXTENDS RunDispatch, TLAPS

-----------------------------------------------------------------------------
(* The inductive invariant: besides the types, which rows a run has, and   *)
(* what the deletion of its case leaves behind.                            *)

HasOutbox(r) ==
  \/ status[r] \notin {"pending", "preparing", "blocked", "cancelled"}
  \/ evaluation[r] # "none"
  \/ r \in timers
  \/ \E w \in {"completion", "sweep"} : <<w, r>> \in drafts
  => outbox[r] # "none"

Withdrawal(r) ==
  /\ status[r] = "cancelled" => r \in withdrawn
  /\ r \in withdrawn => /\ status[r] # "submitted"
                        /\ result[r] # "pending"

RowsFit == \A r \in Runs : HasOutbox(r) /\ Withdrawal(r)

IInv == TypeOK /\ RowsFit

\* The invariant holds of new rows.
LEMMA InitFits == Init => IInv
PROOF
  <1> SUFFICES ASSUME Init PROVE IInv
    OBVIOUS
  <1>1. TypeOK
    BY LimitsAssumption DEF Init, TypeOK, Statuses, Occupying, Active, Stages, AttemptLimit
  <1>2. RowsFit
    BY DEF Init, RowsFit, HasOutbox, Withdrawal
  <1> QED BY <1>1, <1>2 DEF IInv

\* Picking and preparing a run preserve it.
LEMMA PumpFits ==
  ASSUME IInv, NEW r \in Runs, Pump(r), Alive
  PROVE  IInv'
PROOF
  <1> USE DEF IInv, TypeOK, RowsFit, HasOutbox, Withdrawal, Statuses, Occupying, Ended, Alive,
          runVars, caseVars, outboxVars, callVars, remoteVars, taskVars, handlerVars
  <1>1. CASE Pick(r)
    BY <1>1, LimitsAssumption DEF Pick
  <1>2. CASE Prepared(r)
    BY <1>2, LimitsAssumption DEF Prepared, PreparerLeaves, Active, Uncertain
  <1>3. CASE PreparationFails(r)
    <2>1. closing' \subseteq Runs
      BY <1>3 DEF PreparationFails
    <2>2. preparers' \in [Runs -> 0 .. MaxPreparers]
      BY <1>3, LimitsAssumption DEF PreparationFails, PreparerLeaves
    <2> QED BY <1>3, <2>1, <2>2 DEF PreparationFails
  <1>4. CASE PreparationExpires(r)
    BY <1>4 DEF PreparationExpires
  <1> QED BY <1>1, <1>2, <1>3, <1>4 DEF Pump

\* A call at work has its run, and the run its outbox.
LEMMA CallHasRun ==
  ASSUME TypeOK, NEW c \in Calls, CallStep(c) \/ Handle(c) \/ Refuse(c)
  PROVE  at[c] # "idle" /\ subject[c] \in Runs /\ outbox[subject[c]] # "none"
PROOF
  BY DEF CallStep, TypeOK, Read, Claim, ClaimLost, Receive, NoAnswer, NoteUnknown, Handle, Refuse

\* A call that returns keeps the calls well typed and puts no call to work.
LEMMA ReturnTypes ==
  ASSUME TypeOK, NEW c \in Calls, Return(c)
  PROVE  /\ at' \in [Calls -> {"idle", "read", "claim", "sent", "doubt"}]
         /\ subject' \in [Calls -> Runs \cup {NoRun}]
         /\ attempt' \in [Calls -> 0 .. AttemptLimit]
         /\ answer' \in [Calls -> {"none", "accepted", "busy", "rejected"}]
         /\ \A d \in Calls : at'[d] # "idle" => at[d] # "idle" /\ subject'[d] = subject[d]
PROOF BY DEF TypeOK, Return, AttemptLimit

\* The three transactions a call's answer ends with, and the update that
\* follows an unclear one.
LEMMA EndingFits ==
  ASSUME IInv, NEW r \in Runs, outbox[r] # "none",
         MarkAccepted(r) \/ MarkBusy(r) \/ MarkDispatchFailed(r)
  PROVE  /\ RowsFit'
         /\ status' \in [Runs -> Statuses]
         /\ outbox' \in [Runs -> {"none", "pending", "sending", "unknown", "accepted", "failed"}]
         /\ \A x \in Runs : outbox[x] # "none" => outbox'[x] # "none"
         /\ timers' \subseteq Runs /\ closing' \subseteq Runs
         /\ UNCHANGED <<stage, reported, caseVars, attempts, preparers, handlerVars>>
PROOF
  <1> USE DEF IInv, TypeOK, RowsFit, HasOutbox, Withdrawal, Statuses, Occupying, Ended, Active,
          ActiveExecution, Uncertain, caseVars, taskVars, handlerVars
  <1>1. CASE MarkAccepted(r)
    BY <1>1 DEF MarkAccepted
  <1>2. CASE MarkBusy(r)
    BY <1>2 DEF MarkBusy
  <1>3. CASE MarkDispatchFailed(r)
    BY <1>3 DEF MarkDispatchFailed
  <1> QED BY <1>1, <1>2, <1>3

\* Every step of a dispatch call preserves it.
LEMMA CallFits ==
  ASSUME IInv, NEW c \in Calls, CallStep(c) \/ Handle(c) \/ Refuse(c), Alive
  PROVE  IInv'
PROOF
  <1>1. at[c] # "idle" /\ subject[c] \in Runs /\ outbox[subject[c]] # "none"
    BY CallHasRun DEF IInv
  <1>2. CASE Read(c)
    <2>1. CASE Return(c)
      BY <1>2, <2>1, ReturnTypes DEF Read, IInv, TypeOK, RowsFit, HasOutbox, Withdrawal, Alive,
         runVars, caseVars, outboxVars, remoteVars, taskVars, handlerVars
    <2>2. CASE ~Return(c)
      BY <1>1, <1>2, <2>2 DEF Read, IInv, TypeOK, RowsFit, HasOutbox, Withdrawal, Alive,
         runVars, caseVars, outboxVars, remoteVars, taskVars, handlerVars
    <2> QED BY <2>1, <2>2
  <1>3. CASE Claim(c)
    BY <1>1, <1>3 DEF Claim, IInv, TypeOK, RowsFit, HasOutbox, Withdrawal, Alive, AttemptLimit,
       runVars, caseVars, outboxVars, remoteVars, taskVars, handlerVars
  <1>4. CASE ClaimLost(c)
    BY <1>4, ReturnTypes DEF ClaimLost, IInv, TypeOK, RowsFit, HasOutbox, Withdrawal, Alive,
       runVars, caseVars, outboxVars, remoteVars, taskVars, handlerVars
  <1>5. ASSUME Return(c), UNCHANGED job, late' \subseteq Runs,
               \/ MarkAccepted(subject[c]) \/ MarkBusy(subject[c])
               \/ MarkDispatchFailed(subject[c])
        PROVE  IInv'
    <2>1. RowsFit' /\ \A x \in Runs : outbox[x] # "none" => outbox'[x] # "none"
      BY <1>1, <1>5, EndingFits
    <2>2. \A d \in Calls : at'[d] # "idle" => subject'[d] \in Runs /\ outbox'[subject'[d]] # "none"
      BY <1>5, <2>1, ReturnTypes DEF IInv, TypeOK
    <2>3. TypeOK'
      BY <1>1, <1>5, <2>2, EndingFits, ReturnTypes DEF IInv, TypeOK, Alive, caseVars, handlerVars
    <2> QED BY <2>1, <2>3 DEF IInv
  <1>6. CASE Receive(c)
    BY <1>1, <1>5, <1>6 DEF Receive, remoteVars, IInv, TypeOK
  <1>7. CASE NoAnswer(c)
    <2>1. late' \subseteq Runs /\ job' = job
      BY <1>1, <1>7 DEF NoAnswer, IInv, TypeOK
    <2>2. CASE attempt[c] < AttemptLimit
      BY <1>1, <1>7, <2>1, <2>2 DEF NoAnswer, IInv, TypeOK, RowsFit, HasOutbox, Withdrawal, Alive,
         runVars, caseVars, taskVars, handlerVars
    <2>3. CASE ~(attempt[c] < AttemptLimit)
      BY <1>5, <1>7, <2>1, <2>3 DEF NoAnswer
    <2> QED BY <2>2, <2>3
  <1>8. CASE NoteUnknown(c)
    BY <1>1, <1>8 DEF NoteUnknown, IInv, TypeOK, RowsFit, HasOutbox, Withdrawal, Alive, Statuses,
       Occupying, Ended, Active, Uncertain, caseVars, outboxVars, taskVars, handlerVars, remoteVars
  <1>9. CASE Handle(c) \/ Refuse(c)
    BY <1>1, <1>9 DEF Handle, Refuse, Answers, Accept, IInv, TypeOK, RowsFit, HasOutbox, Withdrawal,
       Alive, runVars, caseVars, outboxVars, taskVars, handlerVars, remoteVars
  <1> QED BY <1>2, <1>3, <1>4, <1>6, <1>7, <1>8, <1>9 DEF CallStep

\* So does the start of a call.
LEMMA StartFits ==
  ASSUME IInv, NEW c \in Calls, NEW r \in Runs, Start(c, r), Alive
  PROVE  IInv'
PROOF
  <1>1. outbox[r] # "none"
    BY DEF Start, IInv, RowsFit, HasOutbox, Uncertain
  <1>2. timers' \subseteq timers
    BY DEF Start
  <1> QED
    BY <1>1, <1>2 DEF Start, IInv, TypeOK, RowsFit, HasOutbox, Withdrawal, Alive, runVars, caseVars,
       outboxVars, taskVars, handlerVars, remoteVars

\* So does what the executor does by itself.
LEMMA ClientFits ==
  ASSUME IInv, NEW r \in Runs, Client(r), Alive
  PROVE  IInv'
PROOF
  BY DEF Client, LateArrive, JobEnds, Accept, Answers, Outcomes, IInv, TypeOK, RowsFit, HasOutbox,
     Withdrawal, Alive, runVars, caseVars, outboxVars, callVars, taskVars, handlerVars

\* So do the callbacks of the executor.
LEMMA CallbackFits ==
  ASSUME IInv, NEW r \in Runs, Callback(r), Alive
  PROVE  IInv'
PROOF
  <1> USE DEF IInv, TypeOK, RowsFit, HasOutbox, Withdrawal, Statuses, Occupying, Ended, Active,
          Uncertain, ActiveExecution, Alive, runVars, caseVars, outboxVars, callVars, taskVars,
          handlerVars, remoteVars
  <1>1. CASE Progress(r)
    BY <1>1, ReportsAssumption DEF Progress, Stages
  <1>2. CASE StoreArtifact(r)
    BY <1>2 DEF StoreArtifact
  <1>3. CASE Complete(r)
    BY <1>3 DEF Complete, Deliverable
  <1>4. CASE CompleteAgain(r)
    BY <1>4 DEF CompleteAgain, Deliverable, Closed
  <1>5. CASE CompleteTooLate(r)
    BY <1>5 DEF CompleteTooLate, Deliverable, Closed
  <1>6. CASE ReadSubmitted(r)
    BY <1>6 DEF ReadSubmitted, Answered, Closed
  <1>7. CASE PrepareEvaluation(r)
    BY <1>7 DEF PrepareEvaluation, Answered, Closed
  <1>8. CASE FailResults(r)
    BY <1>8 DEF FailResults, Answered, Closed
  <1> QED BY <1>1, <1>2, <1>3, <1>4, <1>5, <1>6, <1>7, <1>8 DEF Callback

\* So do the watchdog, the evaluation and the user.
LEMMA PlatformFits ==
  ASSUME IInv, NEW r \in Runs, Platform(r), Alive
  PROVE  IInv'
PROOF
  <1> USE DEF IInv, TypeOK, RowsFit, HasOutbox, Withdrawal, Statuses, Occupying, Ended, Active,
          Alive, runVars, caseVars, outboxVars, callVars, taskVars, handlerVars, remoteVars
  <1>1. CASE LeaseExpires(r)
    BY <1>1 DEF LeaseExpires
  <1>2. CASE Reap(r)
    BY <1>2 DEF Reap, ActiveExecution
  <1>3. CASE ResumeSubmitted(r)
    BY <1>3 DEF ResumeSubmitted
  <1>4. CASE CreateEvaluation(r)
    BY <1>4 DEF CreateEvaluation
  <1>5. CASE Evaluate(r)
    BY <1>5 DEF Evaluate
  <1>6. CASE EvaluationGivesUp(r)
    BY <1>6 DEF EvaluationGivesUp
  <1>7. CASE Cancel(r)
    BY <1>7 DEF Cancel
  <1> QED BY <1>1, <1>2, <1>3, <1>4, <1>5, <1>6, <1>7 DEF Platform

\* So does the death of the platform process.
LEMMA CrashFits ==
  ASSUME IInv, Crash
  PROVE  IInv'
PROOF
  <1>1. crashes' \in 0 .. MaxCrashes
    BY LimitsAssumption DEF Crash, IInv, TypeOK
  <1>2. late' \subseteq Runs
    BY DEF Crash, IInv, TypeOK
  <1>3. preparers' \in [Runs -> 0 .. MaxPreparers] /\ attempt' \in [Calls -> 0 .. AttemptLimit]
    BY LimitsAssumption DEF Crash, AttemptLimit
  <1> QED
    BY <1>1, <1>2, <1>3 DEF Crash, IInv, TypeOK, RowsFit, HasOutbox, Withdrawal, runVars, caseVars,
       outboxVars

\* The invariant is inductive.
LEMMA StepFits == IInv /\ [Next]_vars => IInv'
PROOF
  <1> SUFFICES ASSUME IInv, [Next]_vars PROVE IInv'
    OBVIOUS
  <1>1. CASE Crash
    BY <1>1, CrashFits
  <1>2. CASE Alive /\ \E r \in Runs : Pump(r) \/ Client(r) \/ Callback(r) \/ Platform(r)
    BY <1>2, PumpFits, ClientFits, CallbackFits, PlatformFits
  <1>3. CASE Alive /\ \E c \in Calls : \/ \E r \in Runs : Start(c, r)
                                       \/ CallStep(c) \/ Handle(c) \/ Refuse(c)
    BY <1>3, StartFits, CallFits
  <1>4. CASE UNCHANGED vars
    BY <1>4 DEF vars, runVars, caseVars, outboxVars, callVars, taskVars, handlerVars, remoteVars,
       IInv, TypeOK, RowsFit, HasOutbox, Withdrawal
  <1> QED BY <1>1, <1>2, <1>3, <1>4 DEF Next

\* The invariant holds in every reachable state.
LEMMA AlwaysFits == Spec => []IInv
PROOF
  <1> QED BY InitFits, StepFits, PTL DEF Spec

\* Every row, call and job stays in a state the code knows, and no call works on
\* an outbox row that was never created, whatever is lost, late or crashes.
THEOREM TypeCorrect == Spec => []TypeOK
PROOF
  <1>1. IInv => TypeOK
    BY DEF IInv
  <1> QED BY <1>1, AlwaysFits, PTL

-----------------------------------------------------------------------------
(* The result of a run that failed                                         *)

Owed(r) == status[r] \in Failed /\ result[r] = "pending" => r \in closing

\* No step ends a run without owing, or writing, the failure of its result.
LEMMA StepOwes ==
  ASSUME IInv, MaxCrashes = 0, NEW r \in Runs, Owed(r), [Next]_vars
  PROVE  Owed(r)'
PROOF
  <1> USE DEF Owed, Failed, IInv, TypeOK, RowsFit, Withdrawal
  <1> USE DEF vars, runVars, caseVars, outboxVars, callVars, taskVars, handlerVars, remoteVars
  <1>1. ~Crash
    BY LimitsAssumption DEF Crash
  <1>2. ASSUME NEW x \in Runs, Pump(x) PROVE Owed(r)'
    BY <1>2 DEF Pump, Pick, Prepared, PreparationFails, PreparationExpires
  <1>3. ASSUME NEW x \in Runs, Client(x) PROVE Owed(r)'
    BY <1>3 DEF Client, LateArrive, JobEnds
  <1>4. ASSUME NEW x \in Runs, Callback(x) PROVE Owed(r)'
    <2>1. CASE Progress(x) \/ StoreArtifact(x)
      BY <2>1 DEF Progress, StoreArtifact, ActiveExecution
    <2>2. CASE Complete(x) \/ CompleteAgain(x) \/ CompleteTooLate(x)
      BY <2>2 DEF Complete, CompleteAgain, CompleteTooLate
    <2>3. CASE ReadSubmitted(x) \/ PrepareEvaluation(x)
      BY <2>3 DEF ReadSubmitted, PrepareEvaluation
    <2>4. CASE FailResults(x)
      BY <2>4 DEF FailResults
    <2> QED BY <1>4, <2>1, <2>2, <2>3, <2>4 DEF Callback
  <1>5. ASSUME NEW x \in Runs, Platform(x) PROVE Owed(r)'
    <2>1. CASE LeaseExpires(x) \/ Reap(x) \/ ResumeSubmitted(x) \/ CreateEvaluation(x)
      BY <2>1 DEF LeaseExpires, Reap, ResumeSubmitted, CreateEvaluation
    <2>2. CASE Evaluate(x)
      BY <2>2 DEF Evaluate
    <2>3. CASE EvaluationGivesUp(x)
      BY <2>3 DEF EvaluationGivesUp
    <2>4. CASE Cancel(x)
      BY <2>4 DEF Cancel
    <2> QED BY <1>5, <2>1, <2>2, <2>3, <2>4 DEF Platform
  <1>6. ASSUME NEW c \in Calls, NEW x \in Runs, Start(c, x) PROVE Owed(r)'
    BY <1>6 DEF Start
  <1>7. ASSUME NEW c \in Calls, CallStep(c) \/ Handle(c) \/ Refuse(c) PROVE Owed(r)'
    <2>1. CASE Read(c) \/ Claim(c) \/ ClaimLost(c)
      BY <2>1 DEF Read, Claim, ClaimLost
    <2>2. CASE Receive(c)
      BY <2>2 DEF Receive, MarkAccepted, MarkBusy, MarkDispatchFailed
    <2>3. CASE NoAnswer(c)
      BY <2>3 DEF NoAnswer, MarkDispatchFailed
    <2>4. CASE NoteUnknown(c)
      BY <2>4 DEF NoteUnknown
    <2>5. CASE Handle(c) \/ Refuse(c)
      BY <2>5 DEF Handle, Refuse
    <2> QED BY <1>7, <2>1, <2>2, <2>3, <2>4, <2>5 DEF CallStep
  <1>8. CASE UNCHANGED vars
    BY <1>8
  <1> QED BY <1>1, <1>2, <1>3, <1>4, <1>5, <1>6, <1>7, <1>8 DEF Next

\* As long as the platform does not die between the two transactions, a run that
\* failed has its official result failed, or somebody is about to fail it.
THEOREM FailuresAreTold == MaxCrashes = 0 => (Spec => []NoResultForgotten)
PROOF
  <1> SUFFICES ASSUME MaxCrashes = 0 PROVE Spec => []NoResultForgotten
    OBVIOUS
  <1>1. Init => NoResultForgotten
    BY DEF Init, NoResultForgotten, Failed
  <1>2. IInv /\ NoResultForgotten /\ [Next]_vars => NoResultForgotten'
    BY StepOwes DEF NoResultForgotten, Owed
  <1> QED BY <1>1, <1>2, AlwaysFits, PTL DEF Spec

-----------------------------------------------------------------------------
(* A run the user withdrew                                                 *)

Stays(r) ==
  status[r] = "cancelled" =>
    /\ status'[r] = "cancelled" /\ result'[r] = result[r]
    /\ evaluation[r] # "none" => evaluation'[r] = evaluation[r]

\* No step changes a cancelled run, its result or an evaluation it has.
LEMMA StepKeepsCancelled ==
  ASSUME IInv, NEW r \in Runs, [Next]_vars
  PROVE  Stays(r)
PROOF
  <1> USE DEF Stays, IInv, TypeOK, RowsFit, Withdrawal, Active, Uncertain, ActiveExecution, Ended
  <1> USE DEF vars, runVars, caseVars, outboxVars, callVars, taskVars, handlerVars, remoteVars
  <1>1. CASE Crash
    BY <1>1 DEF Crash
  <1>2. ASSUME NEW x \in Runs, Pump(x) PROVE Stays(r)
    BY <1>2 DEF Pump, Pick, Prepared, PreparationFails, PreparationExpires
  <1>3. ASSUME NEW x \in Runs, Client(x) PROVE Stays(r)
    BY <1>3 DEF Client, LateArrive, JobEnds
  <1>4. ASSUME NEW x \in Runs, Callback(x) PROVE Stays(r)
    <2>1. CASE Progress(x) \/ StoreArtifact(x)
      BY <2>1 DEF Progress, StoreArtifact
    <2>2. CASE Complete(x) \/ CompleteAgain(x) \/ CompleteTooLate(x)
      BY <2>2 DEF Complete, CompleteAgain, CompleteTooLate
    <2>3. CASE ReadSubmitted(x) \/ PrepareEvaluation(x)
      BY <2>3 DEF ReadSubmitted, PrepareEvaluation
    <2>4. CASE FailResults(x)
      BY <2>4 DEF FailResults
    <2> QED BY <1>4, <2>1, <2>2, <2>3, <2>4 DEF Callback
  <1>5. ASSUME NEW x \in Runs, Platform(x) PROVE Stays(r)
    <2>1. CASE LeaseExpires(x) \/ Reap(x) \/ ResumeSubmitted(x) \/ CreateEvaluation(x)
      BY <2>1 DEF LeaseExpires, Reap, ResumeSubmitted, CreateEvaluation
    <2>2. CASE Evaluate(x) \/ EvaluationGivesUp(x)
      BY <2>2 DEF Evaluate, EvaluationGivesUp
    <2>3. CASE Cancel(x)
      BY <2>3 DEF Cancel
    <2> QED BY <1>5, <2>1, <2>2, <2>3 DEF Platform
  <1>6. ASSUME NEW c \in Calls, NEW x \in Runs, Start(c, x) PROVE Stays(r)
    BY <1>6 DEF Start
  <1>7. ASSUME NEW c \in Calls, CallStep(c) \/ Handle(c) \/ Refuse(c) PROVE Stays(r)
    <2>1. CASE Read(c) \/ Claim(c) \/ ClaimLost(c)
      BY <2>1 DEF Read, Claim, ClaimLost
    <2>2. CASE Receive(c)
      BY <2>2 DEF Receive, MarkAccepted, MarkBusy, MarkDispatchFailed
    <2>3. CASE NoAnswer(c)
      BY <2>3 DEF NoAnswer, MarkDispatchFailed
    <2>4. CASE NoteUnknown(c)
      BY <2>4 DEF NoteUnknown
    <2>5. CASE Handle(c) \/ Refuse(c)
      BY <2>5 DEF Handle, Refuse
    <2> QED BY <1>7, <2>1, <2>2, <2>3, <2>4, <2>5 DEF CallStep
  <1>8. CASE UNCHANGED vars
    BY <1>8
  <1> QED BY <1>1, <1>2, <1>3, <1>4, <1>5, <1>6, <1>7, <1>8 DEF Next

\* A cancelled run stays cancelled with its result, also when answers, callbacks,
\* sweeps, crashes and submissions read before come in afterwards; the evaluation
\* that such a submission may still create has no verdict and no failure.
THEOREM CancellationIsFinal == Spec => CancelledIsFinal
PROOF
  <1>1. IInv /\ [Next]_vars => [\A r \in Runs : Stays(r)]_vars
    BY StepKeepsCancelled
  <1>2. IInv /\ [Next]_vars =>
          [\A r \in Runs : status[r] = "cancelled" =>
             /\ status'[r] = "cancelled" /\ result'[r] = result[r]
             /\ evaluation[r] # "none" => evaluation'[r] = evaluation[r]]_vars
    BY <1>1 DEF Stays
  <1> QED BY <1>2, AlwaysFits, PTL DEF Spec, CancelledIsFinal

-----------------------------------------------------------------------------
(* What an acceptance means                                                *)

Journalled ==
  /\ AcceptedIsJournalled
  /\ \A c \in Calls : answer[c] # "none" => at[c] = "sent"
  /\ \A c \in Calls : answer[c] = "accepted" => job[subject[c]] # "none"

\* That every acceptance is journalled, and every answer of the executor with it, is
\* inductive.
LEMMA StepJournals == IInv /\ Journalled /\ [Next]_vars => Journalled'
PROOF
  <1> SUFFICES ASSUME IInv, Journalled, [Next]_vars PROVE Journalled'
    OBVIOUS
  <1> USE DEF IInv, TypeOK, Journalled, AcceptedIsJournalled
  <1> USE DEF vars, runVars, caseVars, outboxVars, callVars, taskVars, handlerVars, remoteVars
  <1>1. CASE Crash
    BY <1>1 DEF Crash
  <1>2. ASSUME NEW r \in Runs, Pump(r) PROVE Journalled'
    BY <1>2 DEF Pump, Pick, Prepared, PreparationFails, PreparationExpires
  <1>3. ASSUME NEW r \in Runs, Client(r) PROVE Journalled'
    BY <1>3 DEF Client, LateArrive, JobEnds, Accept, Answers, Outcomes
  <1>4. ASSUME NEW r \in Runs, Callback(r) PROVE Journalled'
    BY <1>4 DEF Callback, Progress, StoreArtifact, Complete, CompleteAgain, CompleteTooLate,
       ReadSubmitted, PrepareEvaluation, FailResults, Answered, Closed
  <1>5. ASSUME NEW r \in Runs, Platform(r) PROVE Journalled'
    BY <1>5 DEF Platform, LeaseExpires, Reap, ResumeSubmitted, CreateEvaluation, Evaluate,
       EvaluationGivesUp, Cancel
  <1>6. ASSUME NEW c \in Calls, NEW r \in Runs, Start(c, r) PROVE Journalled'
    BY <1>6 DEF Start
  <1>7. ASSUME NEW c \in Calls, CallStep(c) \/ Handle(c) \/ Refuse(c) PROVE Journalled'
    <2>1. subject[c] \in Runs
      BY <1>7, CallHasRun
    <2>2. CASE Read(c) \/ Claim(c) \/ ClaimLost(c)
      BY <2>1, <2>2 DEF Read, Claim, ClaimLost, Return
    <2>3. CASE Receive(c)
      BY <2>1, <2>3 DEF Receive, MarkAccepted, MarkBusy, MarkDispatchFailed, Return
    <2>4. CASE NoAnswer(c)
      BY <2>1, <2>4 DEF NoAnswer, MarkDispatchFailed, Return
    <2>5. CASE NoteUnknown(c)
      BY <2>1, <2>5 DEF NoteUnknown
    <2>6. CASE Handle(c)
      BY <2>1, <2>6 DEF Handle, Answers, Accept
    <2>7. CASE Refuse(c)
      BY <2>1, <2>7 DEF Refuse
    <2> QED BY <1>7, <2>2, <2>3, <2>4, <2>5, <2>6, <2>7 DEF CallStep
  <1>8. CASE UNCHANGED vars
    BY <1>8
  <1> QED BY <1>1, <1>2, <1>3, <1>4, <1>5, <1>6, <1>7, <1>8 DEF Next

\* The platform's outbox says "accepted" only of a run that the executor has in its
\* own journal, whichever of its commands the answer belongs to.
THEOREM AcceptanceIsJournalled == Spec => []AcceptedIsJournalled
PROOF
  <1>1. Init => Journalled
    BY DEF Init, Journalled, AcceptedIsJournalled
  <1>2. Journalled => AcceptedIsJournalled
    BY DEF Journalled
  <1> QED BY <1>1, <1>2, StepJournals, AlwaysFits, PTL DEF Spec
=============================================================================
