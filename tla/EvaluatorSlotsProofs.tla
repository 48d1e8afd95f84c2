------------------------ MODULE EvaluatorSlotsProofs ------------------------
(***************************************************************************)
(* The slots of the Evaluator: how many jobs have containers, and that the *)
(* service implements EvaluatorJob, for every finite set of runs, every    *)
(* number of slots and of faults.                                          *)
(***************************************************************************)
EXTENDS EvaluatorServiceProofs

-----------------------------------------------------------------------------
(* What ties the journal, the memory and Docker together, for one run      *)

Working == ACTIVE_STAGES \ {"callback_pending"}
Ended == {"cancelling", "cancelled"}
New == {"none"} \cup Waiting
Queued(r) == \E i \in 1..Len(queue) : queue[i] = r

\* Who delivers has a result; so has a job that was delivered or given up.
ResultFits(r) ==
  /\ stage[r] \in {"callback_pending", "completed", "failed"} => result[r] # "none"
  /\ task[r] \in {"deliver", "upload", "complete"} \/ r \in timers => result[r] # "none"

\* A task, or a place in the queue, that leads to a harness is of a job that
\* holds a slot, unless a stop took it meanwhile; a job that ended without a mark
\* has neither.
TaskFits(r) ==
  /\ /\ mark[r] = "none" /\ result[r] = "none"
     /\ task[r] \in {"begin"} \cup Unevaluated \/ (Queued(r) /\ ~stopped)
    => stage[r] \in Working
  /\ task[r] \in {"stale", "prepare", "harness"} /\ stage[r] \notin Working
       => mark[r] # "none" /\ stage[r] = "cancelling" /\ stopped
  /\ task[r] = "unwind" => ~Running(r)
  /\ stage[r] \in Ended /\ mark[r] = "none"
       => task[r] \in {"idle", "end"} /\ (stopped \/ (r \notin timers /\ ~Queued(r)))

\* Containers are of a job that admission counts, or that recovery will clean up.
ContainersFit(r) ==
  r \in containers =>
    /\ stage[r] # "cancelled"
    /\ result[r] # "none" \/ task[r] = "save" => r \in unreleased
    /\ \/ stage[r] \in Working
       \/ r \in unreleased
       \/ mark[r] # "none" /\ (proc = "down" \/ stopped)

\* A job that is not accepted yet has nothing.
NewFits(r) ==
  /\ stage[r] \in New \/ r = admitting
       => r \notin containers /\ task[r] = "idle" /\ ~Queued(r) /\ result[r] = "none"
  /\ r = admitting => stage[r] \in New \/ mark[r] # "none"
  /\ preparing[r] # "none" /\ mark[r] = "none" => stage[r] \in Waiting

\* A job whose stop the platform knows of has nothing, and nothing leads to more.
NotifiedFits(r) ==
  r \in notified =>
    mark[r] # "none" /\ r \notin containers /\ task[r] \notin {"stale", "prepare", "harness"}

RunFits(r) == ResultFits(r) /\ TaskFits(r) /\ ContainersFit(r) /\ NewFits(r) /\ NotifiedFits(r)

\* Who has containers, or may still get some.
Starting(r) == task[r] \in {"stale", "prepare"}
Holders == containers \cup {r \in Runs : (stage[r] \in Working /\ result[r] = "none") \/ Starting(r)}

SlotsHold ==
  /\ Cardinality(Holders) <= MaxConcurrency
  /\ admitting # NoRun => Cardinality(Holders \ {admitting}) < MaxConcurrency

ToolAtRest == tool = "off" => todo["tool"] = {} /\ seen["tool"] = NoRun

SInv == (\A r \in Runs : RunFits(r)) /\ SlotsHold /\ ToolAtRest

-----------------------------------------------------------------------------
(* A step of one job                                                       *)

\* It touches no other job, except that the next in the queue may begin.
Untouched(q) ==
  /\ stage'[q] = stage[q] /\ result'[q] = result[q] /\ mark'[q] = mark[q] /\ preparing'[q] = preparing[q]
  /\ q \in unreleased' <=> q \in unreleased
  /\ q \in containers' <=> q \in containers
  /\ q \in timers' => q \in timers
  /\ q \in notified' <=> q \in notified
  /\ q = admitting' => q = admitting
  /\ Queued(q)' => Queued(q)
  /\ \/ task'[q] = task[q]
     \/ task'[q] = "begin" /\ task[q] = "idle" /\ Queued(q) /\ Running(q)

\* When a task ends, the next in the queue begins.
LEMMA EndTouches ==
  ASSUME IInv, NEW r \in Runs, End(r), NEW q \in Runs
  PROVE  /\ Queued(q)' => Queued(q)
         /\ \/ q = r /\ task'[q] = "idle"
            \/ q # r /\ task'[q] = task[q]
            \/ task'[q] = "begin" /\ (q = r \/ task[q] = "idle") /\ Queued(q) /\ Running(q)
         /\ UNCHANGED <<diskVars, containers, admitting, preparing, timers, cancelling, answers, stopVars>>
PROOF
  <1>1. CASE r \in unreleased \/ queue = <<>>
    BY <1>1 DEF End, Go, IInv, TypeOK, Queued
  <1>2. CASE ~(r \in unreleased \/ queue = <<>>)
    <2> DEFINE tasks == [task EXCEPT ![r] = "idle"]
    <2>1. tasks \in [Runs -> Places] /\ tasks[r] = "idle" /\ (q # r => tasks[q] = task[q])
      BY DEF IInv, TypeOK, Places
    <2>2. queue' = Tail(queue) /\ task' = start(tasks, Head(queue))
      BY <1>2 DEF End
    <2>3. /\ Head(queue) \in Runs
          /\ Len(Tail(queue)) = Len(queue) - 1
          /\ \A i \in 1..Len(Tail(queue)) : i + 1 \in 1..Len(queue) /\ Tail(queue)[i] = queue[i + 1]
      BY <1>2, NextInQueue DEF IInv
    <2>4. Queued(q)' => Queued(q)
      BY <2>2, <2>3 DEF Queued
    <2>5. Head(queue) = queue[1] /\ 1 \in 1..Len(queue)
      BY <1>2 DEF IInv, TypeOK
    <2>6. Queued(Head(queue))
      BY <2>5 DEF Queued
    <2>7. task'[q] = tasks[q] \/ (q = Head(queue) /\ tasks[q] = "idle" /\ task'[q] = "begin" /\ Running(q))
      <3> HIDE DEF tasks
      <3> QED BY <2>1, <2>2, <2>3, StartTypes
    <2> QED BY <1>2, <2>1, <2>4, <2>6, <2>7 DEF End
  <1> QED BY <1>1, <1>2

LEMMA OthersUntouched ==
  ASSUME IInv, NEW r \in Runs, JobStep(r), NEW q \in Runs, q # r
  PROVE  Untouched(q) /\ UNCHANGED <<control, proc>>
PROOF
  <1> USE RunsAssumption DEF IInv, TypeOK, Untouched, Write, Go, Set, journalVars, diskVars, memoryVars, answers, stopVars
  <1>1. CASE Admit(r)
    BY <1>1 DEF Admit, Queued
  <1>2. CASE Repost(r)
    BY <1>2 DEF Repost, start, Queued
  <1>3. CASE PrepareImages(r)
    BY <1>3 DEF PrepareImages, Queued
  <1>4. CASE Accept(r)
    BY <1>4 DEF Accept, start, Queued
  <1>5. CASE ImagesArrive(r)
    BY <1>5 DEF ImagesArrive, Queued
  <1>6. CASE LeaveWindow(r)
    BY <1>6 DEF LeaveWindow, Queued
  <1>7. CASE Cancel(r)
    BY <1>7 DEF Cancel, Queued
  <1>8. CASE CancelEnds(r)
    BY <1>8 DEF CancelEnds, Cancelled, Aborted, Queued
  <1>9. CASE Retry(r)
    BY <1>9 DEF Retry, start, Queued
  <1>10. CASE Begin(r)
    BY <1>10 DEF Begin, existingResult, Queued
  <1>11. CASE RemoveStale(r)
    BY <1>11 DEF RemoveStale, Conclude, Cleanups, Queued
  <1>12. CASE RunHarness(r)
    BY <1>12 DEF RunHarness, Conclude, Queued
  <1>13. CASE HarnessEnds(r)
    BY <1>13 DEF HarnessEnds, Conclude, Queued
  <1>14. CASE CleanUp(r)
    BY <1>14 DEF CleanUp, Cleanups, Queued
  <1>15. CASE SaveResult(r)
    BY <1>15 DEF SaveResult, Queued
  <1>16. CASE Deliver(r)
    BY <1>16 DEF Deliver, DeliveryFails, Queued
  <1>17. CASE UploadEvidence(r)
    BY <1>17 DEF UploadEvidence, DeliveryFails, Queued
  <1>18. CASE Complete(r)
    BY <1>18 DEF Complete, DeliveryFails, Queued
  <1>19. CASE Unwind(r)
    BY <1>19 DEF Unwind, Cancelled, Queued
  <1>20. CASE End(r)
    BY <1>20, EndTouches
  <1>21. CASE Flush(r)
    BY <1>21 DEF Flush, Queued
  <1> QED BY <1>1, <1>2, <1>3, <1>4, <1>5, <1>6, <1>7, <1>8, <1>9, <1>10, <1>11,
         <1>12, <1>13, <1>14, <1>15, <1>16, <1>17, <1>18, <1>19, <1>20, <1>21
    DEF JobStep, Request, Task

\* Who delivers has a result.
LEMMA JobResultFits ==
  ASSUME IInv, SInv, NEW r \in Runs, JobStep(r)
  PROVE  ResultFits(r)'
PROOF
  <1> USE RunsAssumption DEF IInv, TypeOK, ResultIsNew, SInv, RunFits, ResultFits, TaskFits, ContainersFit, NewFits,
          Working, New, Ended, Unevaluated, Queued, ACTIVE_STAGES, Waiting, Running, stopped,
          Write, Go, Set, journalVars, diskVars, memoryVars, answers, stopVars
  <1>1. CASE Admit(r)
    BY <1>1 DEF Admit
  <1>2. CASE Repost(r)
    BY <1>2 DEF Repost, start
  <1>3. CASE PrepareImages(r)
    BY <1>3 DEF PrepareImages
  <1>4. CASE Accept(r)
    BY <1>4 DEF Accept, start
  <1>5. CASE ImagesArrive(r)
    BY <1>5 DEF ImagesArrive
  <1>6. CASE LeaveWindow(r)
    BY <1>6 DEF LeaveWindow
  <1>7. CASE Cancel(r)
    BY <1>7 DEF Cancel
  <1>8. CASE CancelEnds(r)
    BY <1>8, CancelEndsMoves DEF Aborted
  <1>9. CASE Retry(r)
    BY <1>9 DEF Retry, start
  <1>10. CASE Begin(r)
    BY <1>10 DEF Begin, existingResult
  <1>11. CASE RemoveStale(r)
    BY <1>11 DEF RemoveStale, Conclude, Cleanups
  <1>12. CASE RunHarness(r)
    BY <1>12 DEF RunHarness, Conclude
  <1>13. CASE HarnessEnds(r)
    BY <1>13 DEF HarnessEnds, Conclude
  <1>14. CASE CleanUp(r)
    BY <1>14 DEF CleanUp, Cleanups
  <1>15. CASE SaveResult(r)
    BY <1>15 DEF SaveResult
  <1>16. CASE Deliver(r)
    BY <1>16 DEF Deliver, DeliveryFails
  <1>17. CASE UploadEvidence(r)
    BY <1>17 DEF UploadEvidence, DeliveryFails
  <1>18. CASE Complete(r)
    BY <1>18 DEF Complete, DeliveryFails
  <1>19. CASE Unwind(r)
    BY <1>19 DEF Unwind, Cancelled
  <1>20. CASE End(r)
    BY <1>20, EndTouches DEF End
  <1>21. CASE Flush(r)
    BY <1>21 DEF Flush
  <1> QED BY <1>1, <1>2, <1>3, <1>4, <1>5, <1>6, <1>7, <1>8, <1>9, <1>10, <1>11,
         <1>12, <1>13, <1>14, <1>15, <1>16, <1>17, <1>18, <1>19, <1>20, <1>21
    DEF JobStep, Request, Task

\* A task that leads to a harness holds a slot.
LEMMA JobTaskFits ==
  ASSUME IInv, SInv, NEW r \in Runs, JobStep(r)
  PROVE  TaskFits(r)'
PROOF
  <1> USE RunsAssumption DEF IInv, TypeOK, ResultIsNew, SInv, RunFits, ResultFits, TaskFits, ContainersFit, NewFits,
          Working, New, Ended, Unevaluated, Queued, ACTIVE_STAGES, Waiting, Running, stopped,
          Write, Go, Set, journalVars, diskVars, memoryVars, answers, stopVars
  <1>1. CASE Admit(r)
    BY <1>1 DEF Admit
  <1>2. CASE Repost(r)
    BY <1>2 DEF Repost, start
  <1>3. CASE PrepareImages(r)
    BY <1>3 DEF PrepareImages
  <1>4. CASE Accept(r)
    BY <1>4 DEF Accept, start
  <1>5. CASE ImagesArrive(r)
    BY <1>5 DEF ImagesArrive
  <1>6. CASE LeaveWindow(r)
    BY <1>6 DEF LeaveWindow
  <1>7. CASE Cancel(r)
    BY <1>7 DEF Cancel
  <1>8. CASE CancelEnds(r)
    <2>1. /\ mark'[r] # "none" /\ containers' \subseteq containers
          /\ stage'[r] = stage[r] \/ (task[r] = "idle" /\ stage'[r] \in Ended)
          /\ task'[r] = task[r] \/ (task[r] = "prepare" /\ task'[r] = "unwind")
          /\ UNCHANGED <<mark, result, admitting, queue, control>>
      BY <1>8, CancelEndsMoves DEF Aborted, CancelledIsMarked
    <2> QED BY <2>1
  <1>9. CASE Retry(r)
    BY <1>9 DEF Retry, start
  <1>10. CASE Begin(r)
    BY <1>10 DEF Begin, existingResult
  <1>11. CASE RemoveStale(r)
    BY <1>11 DEF RemoveStale, Conclude, Cleanups
  <1>12. CASE RunHarness(r)
    BY <1>12 DEF RunHarness, Conclude
  <1>13. CASE HarnessEnds(r)
    BY <1>13 DEF HarnessEnds, Conclude
  <1>14. CASE CleanUp(r)
    BY <1>14 DEF CleanUp, Cleanups
  <1>15. CASE SaveResult(r)
    BY <1>15 DEF SaveResult
  <1>16. CASE Deliver(r)
    BY <1>16 DEF Deliver, DeliveryFails
  <1>17. CASE UploadEvidence(r)
    BY <1>17 DEF UploadEvidence, DeliveryFails
  <1>18. CASE Complete(r)
    BY <1>18 DEF Complete, DeliveryFails
  <1>19. CASE Unwind(r)
    BY <1>19 DEF Unwind, Cancelled
  <1>20. CASE End(r)
    <2>1. /\ stage' = stage /\ mark' = mark /\ result' = result /\ timers' = timers /\ control' = control
      BY <1>20 DEF End
    <2>2. /\ Queued(r)' => Queued(r)
          /\ task'[r] = "idle" \/ (task'[r] = "begin" /\ Queued(r) /\ Running(r))
      BY <1>20, EndTouches
    <2> HIDE DEF Queued
    <2> QED BY <2>1, <2>2
  <1>21. CASE Flush(r)
    BY <1>21 DEF Flush
  <1> QED BY <1>1, <1>2, <1>3, <1>4, <1>5, <1>6, <1>7, <1>8, <1>9, <1>10, <1>11,
         <1>12, <1>13, <1>14, <1>15, <1>16, <1>17, <1>18, <1>19, <1>20, <1>21
    DEF JobStep, Request, Task

\* Containers stay counted.
LEMMA JobContainersFit ==
  ASSUME IInv, SInv, NEW r \in Runs, JobStep(r)
  PROVE  ContainersFit(r)'
PROOF
  <1> USE RunsAssumption DEF IInv, TypeOK, ResultIsNew, SInv, RunFits, ResultFits, TaskFits, ContainersFit, NewFits,
          Working, New, Ended, Unevaluated, Queued, ACTIVE_STAGES, Waiting, Running, stopped,
          Write, Go, Set, journalVars, diskVars, memoryVars, answers, stopVars
  <1>1. CASE Admit(r)
    BY <1>1 DEF Admit
  <1>2. CASE Repost(r)
    BY <1>2 DEF Repost, start
  <1>3. CASE PrepareImages(r)
    BY <1>3 DEF PrepareImages
  <1>4. CASE Accept(r)
    BY <1>4 DEF Accept, start
  <1>5. CASE ImagesArrive(r)
    BY <1>5 DEF ImagesArrive
  <1>6. CASE LeaveWindow(r)
    BY <1>6 DEF LeaveWindow
  <1>7. CASE Cancel(r)
    BY <1>7 DEF Cancel
  <1>8. CASE CancelEnds(r)
    <2>1. task'[r] = "save" => task[r] = "save"
      BY <1>8, CancelEndsMoves DEF Aborted
    <2>2. result' = result /\ mark' = mark /\ proc' = proc /\ control' = control
      BY <1>8, CancelEndsMoves
    <2>3. \/ UNCHANGED <<stage, unreleased, containers>>
          \/ \E clean \in BOOLEAN : Cancelled(r, clean)
      BY <1>8 DEF CancelEnds, Cleanups
    <2> QED BY <2>1, <2>2, <2>3 DEF Cancelled
  <1>9. CASE Retry(r)
    BY <1>9 DEF Retry, start
  <1>10. CASE Begin(r)
    BY <1>10 DEF Begin, existingResult
  <1>11. CASE RemoveStale(r)
    BY <1>11 DEF RemoveStale, Conclude, Cleanups
  <1>12. CASE RunHarness(r)
    BY <1>12 DEF RunHarness, Conclude
  <1>13. CASE HarnessEnds(r)
    BY <1>13 DEF HarnessEnds, Conclude
  <1>14. CASE CleanUp(r)
    BY <1>14 DEF CleanUp, Cleanups
  <1>15. CASE SaveResult(r)
    BY <1>15 DEF SaveResult
  <1>16. CASE Deliver(r)
    BY <1>16 DEF Deliver, DeliveryFails
  <1>17. CASE UploadEvidence(r)
    BY <1>17 DEF UploadEvidence, DeliveryFails
  <1>18. CASE Complete(r)
    BY <1>18 DEF Complete, DeliveryFails
  <1>19. CASE Unwind(r)
    BY <1>19 DEF Unwind, Cancelled
  <1>20. CASE End(r)
    BY <1>20, EndTouches DEF End
  <1>21. CASE Flush(r)
    BY <1>21 DEF Flush
  <1> QED BY <1>1, <1>2, <1>3, <1>4, <1>5, <1>6, <1>7, <1>8, <1>9, <1>10, <1>11,
         <1>12, <1>13, <1>14, <1>15, <1>16, <1>17, <1>18, <1>19, <1>20, <1>21
    DEF JobStep, Request, Task

\* What is not accepted has nothing.
LEMMA JobNewFits ==
  ASSUME IInv, SInv, NEW r \in Runs, JobStep(r)
  PROVE  NewFits(r)'
PROOF
  <1> USE RunsAssumption DEF IInv, TypeOK, ResultIsNew, SInv, RunFits, ResultFits, TaskFits, ContainersFit, NewFits,
          Working, New, Ended, Unevaluated, Queued, ACTIVE_STAGES, Waiting, Running, stopped,
          Write, Go, Set, journalVars, diskVars, memoryVars, answers, stopVars
  <1>1. CASE Admit(r)
    BY <1>1 DEF Admit
  <1>2. CASE Repost(r)
    BY <1>2 DEF Repost, start
  <1>3. CASE PrepareImages(r)
    BY <1>3 DEF PrepareImages
  <1>4. CASE Accept(r)
    BY <1>4 DEF Accept, start
  <1>5. CASE ImagesArrive(r)
    BY <1>5 DEF ImagesArrive
  <1>6. CASE LeaveWindow(r)
    BY <1>6 DEF LeaveWindow
  <1>7. CASE Cancel(r)
    BY <1>7 DEF Cancel
  <1>8. CASE CancelEnds(r)
    <2>1. /\ mark'[r] # "none" /\ containers' \subseteq containers
          /\ stage'[r] = stage[r] \/ (task[r] = "idle" /\ stage'[r] \in Ended)
          /\ task'[r] = task[r] \/ (task[r] = "prepare" /\ task'[r] = "unwind")
          /\ UNCHANGED <<mark, result, admitting, queue, control>>
      BY <1>8, CancelEndsMoves DEF Aborted, CancelledIsMarked
    <2> QED BY <2>1
  <1>9. CASE Retry(r)
    BY <1>9 DEF Retry, start
  <1>10. CASE Begin(r)
    BY <1>10 DEF Begin, existingResult
  <1>11. CASE RemoveStale(r)
    BY <1>11 DEF RemoveStale, Conclude, Cleanups
  <1>12. CASE RunHarness(r)
    BY <1>12 DEF RunHarness, Conclude
  <1>13. CASE HarnessEnds(r)
    BY <1>13 DEF HarnessEnds, Conclude
  <1>14. CASE CleanUp(r)
    BY <1>14 DEF CleanUp, Cleanups
  <1>15. CASE SaveResult(r)
    BY <1>15 DEF SaveResult
  <1>16. CASE Deliver(r)
    BY <1>16 DEF Deliver, DeliveryFails
  <1>17. CASE UploadEvidence(r)
    BY <1>17 DEF UploadEvidence, DeliveryFails
  <1>18. CASE Complete(r)
    BY <1>18 DEF Complete, DeliveryFails
  <1>19. CASE Unwind(r)
    BY <1>19 DEF Unwind, Cancelled
  <1>20. CASE End(r)
    BY <1>20, EndTouches DEF End
  <1>21. CASE Flush(r)
    BY <1>21 DEF Flush
  <1> QED BY <1>1, <1>2, <1>3, <1>4, <1>5, <1>6, <1>7, <1>8, <1>9, <1>10, <1>11,
         <1>12, <1>13, <1>14, <1>15, <1>16, <1>17, <1>18, <1>19, <1>20, <1>21
    DEF JobStep, Request, Task

\* A job whose stop is known gets no harness any more.
LEMMA JobNotifiedFits ==
  ASSUME IInv, SInv, NEW r \in Runs, JobStep(r)
  PROVE  NotifiedFits(r)'
PROOF
  <1> USE RunsAssumption DEF IInv, TypeOK, ResultIsNew, SInv, RunFits, ResultFits, TaskFits, ContainersFit, NotifiedFits,
          Working, New, Ended, Unevaluated, Queued, ACTIVE_STAGES, Waiting, Running, stopped,
          Write, Go, Set, journalVars, diskVars, memoryVars, answers, stopVars
  <1>1. CASE Admit(r)
    BY <1>1 DEF Admit
  <1>2. CASE Repost(r)
    BY <1>2 DEF Repost, start
  <1>3. CASE PrepareImages(r)
    BY <1>3 DEF PrepareImages
  <1>4. CASE Accept(r)
    BY <1>4 DEF Accept, start
  <1>5. CASE ImagesArrive(r)
    BY <1>5 DEF ImagesArrive
  <1>6. CASE LeaveWindow(r)
    BY <1>6 DEF LeaveWindow
  <1>7. CASE Cancel(r)
    BY <1>7 DEF Cancel
  <1>8. CASE CancelEnds(r)
    BY <1>8, CancelEndsMoves DEF Aborted
  <1>9. CASE Retry(r)
    BY <1>9 DEF Retry, start
  <1>10. CASE Begin(r)
    BY <1>10 DEF Begin, existingResult
  <1>11. CASE RemoveStale(r)
    BY <1>11 DEF RemoveStale, Conclude, Cleanups
  <1>12. CASE RunHarness(r)
    BY <1>12 DEF RunHarness, Conclude
  <1>13. CASE HarnessEnds(r)
    BY <1>13 DEF HarnessEnds, Conclude
  <1>14. CASE CleanUp(r)
    BY <1>14 DEF CleanUp, Cleanups
  <1>15. CASE SaveResult(r)
    BY <1>15 DEF SaveResult
  <1>16. CASE Deliver(r)
    BY <1>16 DEF Deliver, DeliveryFails
  <1>17. CASE UploadEvidence(r)
    BY <1>17 DEF UploadEvidence, DeliveryFails
  <1>18. CASE Complete(r)
    BY <1>18 DEF Complete, DeliveryFails
  <1>19. CASE Unwind(r)
    BY <1>19 DEF Unwind, Cancelled
  <1>20. CASE End(r)
    BY <1>20, EndTouches DEF End
  <1>21. CASE Flush(r)
    BY <1>21 DEF Flush, Due
  <1> QED BY <1>1, <1>2, <1>3, <1>4, <1>5, <1>6, <1>7, <1>8, <1>9, <1>10, <1>11,
         <1>12, <1>13, <1>14, <1>15, <1>16, <1>17, <1>18, <1>19, <1>20, <1>21
    DEF JobStep, Request, Task

\* What a step leaves alone stays as it is.
LEMMA UntouchedFits ==
  ASSUME IInv, SInv, NEW q \in Runs, Untouched(q), UNCHANGED <<control, proc>>
  PROVE  RunFits(q)'
PROOF
  <1> USE DEF SInv, RunFits, Untouched, Running, stopped
  <1> HIDE DEF Queued
  <1>1. ResultFits(q)'
    BY DEF ResultFits
  <1>2. TaskFits(q)'
    BY DEF TaskFits, NewFits, Unevaluated
  <1>3. ContainersFit(q)'
    BY DEF ContainersFit
  <1>4. NewFits(q)' /\ NotifiedFits(q)'
    BY DEF NewFits, NotifiedFits
  <1> QED BY <1>1, <1>2, <1>3, <1>4

\* Only an acceptance adds a job to those that hold a slot, only a new POST takes one.
LEMMA JobHolders ==
  ASSUME IInv, SInv, NEW r \in Runs, JobStep(r), ~Accept(r)
  PROVE  /\ r \in Holders' => r \in Holders
         /\ admitting' \in {admitting, NoRun} \/ Admit(r)
PROOF
  <1> USE RunsAssumption DEF IInv, TypeOK, ResultIsNew, SInv, RunFits, ResultFits, TaskFits, NewFits, Holders, Starting,
          Working, New, Ended, Unevaluated, ACTIVE_STAGES, Waiting, Running, stopped,
          Write, Go, Set, journalVars, diskVars, memoryVars, answers, stopVars
  <1>1. CASE Admit(r)
    BY <1>1 DEF Admit
  <1>2. CASE Repost(r)
    BY <1>2 DEF Repost, start
  <1>3. CASE PrepareImages(r)
    BY <1>3 DEF PrepareImages
  <1>5. CASE ImagesArrive(r)
    BY <1>5 DEF ImagesArrive
  <1>6. CASE LeaveWindow(r)
    BY <1>6 DEF LeaveWindow
  <1>7. CASE Cancel(r)
    BY <1>7 DEF Cancel
  <1>8. CASE CancelEnds(r)
    BY <1>8, CancelEndsMoves DEF Aborted
  <1>9. CASE Retry(r)
    BY <1>9 DEF Retry, start
  <1>10. CASE Begin(r)
    BY <1>10 DEF Begin, existingResult
  <1>11. CASE RemoveStale(r)
    BY <1>11 DEF RemoveStale, Conclude, Cleanups
  <1>12. CASE RunHarness(r)
    BY <1>12 DEF RunHarness, Conclude
  <1>13. CASE HarnessEnds(r)
    BY <1>13 DEF HarnessEnds, Conclude
  <1>14. CASE CleanUp(r)
    BY <1>14 DEF CleanUp, Cleanups
  <1>15. CASE SaveResult(r)
    BY <1>15 DEF SaveResult
  <1>16. CASE Deliver(r)
    BY <1>16 DEF Deliver, DeliveryFails
  <1>17. CASE UploadEvidence(r)
    BY <1>17 DEF UploadEvidence, DeliveryFails
  <1>18. CASE Complete(r)
    BY <1>18 DEF Complete, DeliveryFails
  <1>19. CASE Unwind(r)
    BY <1>19 DEF Unwind, Cancelled
  <1>20. CASE End(r)
    BY <1>20, EndTouches DEF End
  <1>21. CASE Flush(r)
    BY <1>21 DEF Flush
  <1> QED BY <1>1, <1>2, <1>3, <1>5, <1>6, <1>7, <1>8, <1>9, <1>10, <1>11,
         <1>12, <1>13, <1>14, <1>15, <1>16, <1>17, <1>18, <1>19, <1>20, <1>21
    DEF JobStep, Request, Task

LEMMA HoldersCount ==
  ASSUME IInv, NEW H \in SUBSET Holders
  PROVE  IsFiniteSet(H) /\ Cardinality(H) \in Nat
PROOF
  <1>1. H \subseteq Runs
    BY DEF IInv, TypeOK, Holders, Starting
  <1> QED BY <1>1, RunsAssumption, FS_Subset, FS_CardinalityType

\* So a step keeps to the slots.
LEMMA JobSlotsHold ==
  ASSUME IInv, SInv, IInv', NEW r \in Runs, JobStep(r)
  PROVE  SlotsHold'
PROOF
  <1>1. \A q \in Runs : q # r => (q \in Holders' <=> q \in Holders)
    BY OthersUntouched DEF Untouched, Holders, Starting
  <1>2. Holders \subseteq Runs /\ Holders' \subseteq Runs
    BY DEF IInv, TypeOK, Holders, Starting
  <1>3. CASE Accept(r)
    <2>1. admitting = r /\ admitting' = NoRun /\ r # NoRun
      BY <1>3, RunsAssumption DEF Accept
    <2> DEFINE others == Holders \ {r}
    <2>2. IsFiniteSet(others) /\ Cardinality(others) \in Nat /\ Cardinality(others) < MaxConcurrency
      BY <2>1, HoldersCount DEF SInv, SlotsHold
    <2>3. Holders' \subseteq others \cup {r}
      BY <1>1, <1>2
    <2> HIDE DEF others
    <2>4. /\ IsFiniteSet(others \cup {r})
          /\ Cardinality(others \cup {r}) <= Cardinality(others) + 1
          /\ Cardinality(others \cup {r}) \in Nat
      BY <2>2, FS_AddElement
    <2>5. Cardinality(Holders') <= Cardinality(others \cup {r}) /\ Cardinality(Holders') \in Nat
      BY <2>3, <2>4, FS_Subset, FS_CardinalityType
    <2>6. Cardinality(Holders') <= MaxConcurrency
      BY <2>2, <2>4, <2>5, ConcurrencyAssumption
    <2> QED BY <2>1, <2>6 DEF SlotsHold
  <1>4. CASE ~Accept(r)
    <2>1. Holders' \subseteq Holders
      BY <1>1, <1>2, <1>4, JobHolders
    <2>2. Cardinality(Holders') <= MaxConcurrency
      <3>1. /\ IsFiniteSet(Holders) /\ Cardinality(Holders) \in Nat /\ Cardinality(Holders') \in Nat
            /\ Cardinality(Holders') <= Cardinality(Holders)
        BY <2>1, HoldersCount, FS_Subset, FS_CardinalityType
      <3> QED BY <3>1, ConcurrencyAssumption DEF SInv, SlotsHold
    <2>3. CASE admitting' = NoRun
      BY <2>2, <2>3 DEF SlotsHold
    <2>4. CASE admitting' = admitting /\ admitting # NoRun
      <3>1. Holders' \ {admitting} \subseteq Holders \ {admitting}
        BY <2>1
      <3>2. /\ IsFiniteSet(Holders \ {admitting}) /\ Cardinality(Holders \ {admitting}) \in Nat
            /\ Cardinality(Holders' \ {admitting}) \in Nat
            /\ Cardinality(Holders' \ {admitting}) <= Cardinality(Holders \ {admitting})
        BY <3>1, HoldersCount, FS_Subset, FS_CardinalityType
      <3> QED BY <2>2, <2>4, <3>2, ConcurrencyAssumption DEF SInv, SlotsHold
    <2>5. CASE Admit(r)
      <3> DEFINE rivals == {q \in Runs \ {r} : Occupies(q)}
      <3>1. admitting' = r /\ ~(Cardinality(rivals) >= MaxConcurrency) /\ proc = "up" /\ ~stopped
        BY <2>5 DEF Admit, hasBusyJob, Running
      <3>2. Holders' \ {r} \subseteq rivals
        <4>1. \A q \in containers : stage[q] \in Working \/ q \in unreleased
          BY <3>1 DEF SInv, RunFits, ContainersFit, IInv, TypeOK
        <4>2. \A q \in Runs : Starting(q) => stage[q] \in Working
          BY <3>1 DEF SInv, RunFits, TaskFits, Starting
        <4> QED BY <1>2, <2>1, <4>1, <4>2 DEF Holders, Occupies, Working
      <3>3. IsFiniteSet(rivals) /\ Cardinality(rivals) \in Nat
        BY RunsAssumption, FS_Subset, FS_CardinalityType
      <3> HIDE DEF rivals
      <3>4. Cardinality(Holders' \ {r}) <= Cardinality(rivals) /\ Cardinality(Holders' \ {r}) \in Nat
        BY <3>2, <3>3, FS_Subset, FS_CardinalityType
      <3> QED BY <2>2, <3>1, <3>3, <3>4, ConcurrencyAssumption DEF SlotsHold
    <2> QED BY <1>4, <2>3, <2>4, <2>5, JobHolders
  <1> QED BY <1>3, <1>4

\* The steps of the jobs keep all of it.
LEMMA JobHoldsSlots ==
  ASSUME IInv, SInv, NEW r \in Runs, JobStep(r)
  PROVE  SInv'
PROOF
  <1>1. ASSUME NEW q \in Runs PROVE RunFits(q)'
    <2>1. CASE q = r
      BY <2>1, JobResultFits, JobTaskFits, JobContainersFit, JobNewFits, JobNotifiedFits DEF RunFits
    <2>2. CASE q # r
      BY <2>2, OthersUntouched, UntouchedFits
    <2> QED BY <2>1, <2>2
  <1>2. SlotsHold'
    BY JobFits, JobSlotsHold
  <1>3. ToolAtRest'
    BY JobNeedsProcess DEF SInv, ToolAtRest, stopVars
  <1> QED BY <1>1, <1>2, <1>3 DEF SInv

-----------------------------------------------------------------------------
(* Stop, crash and recovery                                                *)

\* A step that accepts nobody and gives nobody a slot keeps to the slots.
LEMMA FewerHolders ==
  ASSUME IInv, SInv, Holders' \subseteq Holders, admitting' \in {admitting, NoRun}
  PROVE  SlotsHold'
PROOF
  <1>1. /\ IsFiniteSet(Holders) /\ Cardinality(Holders) \in Nat /\ Cardinality(Holders') \in Nat
        /\ Cardinality(Holders') <= Cardinality(Holders)
    BY HoldersCount, FS_Subset, FS_CardinalityType
  <1>2. Cardinality(Holders') <= MaxConcurrency
    BY <1>1, ConcurrencyAssumption DEF SInv, SlotsHold
  <1>3. CASE admitting' = admitting /\ admitting # NoRun
    <2>1. Holders' \ {admitting} \subseteq Holders \ {admitting}
      OBVIOUS
    <2>2. /\ IsFiniteSet(Holders \ {admitting}) /\ Cardinality(Holders \ {admitting}) \in Nat
          /\ Cardinality(Holders' \ {admitting}) \in Nat
          /\ Cardinality(Holders' \ {admitting}) <= Cardinality(Holders \ {admitting})
      BY <2>1, HoldersCount, FS_Subset, FS_CardinalityType
    <2> QED BY <1>2, <1>3, <2>2, ConcurrencyAssumption DEF SInv, SlotsHold
  <1> QED BY <1>2, <1>3 DEF SlotsHold

\* The mark of a stopped run goes with its stage; the service is stopped.
LEMMA StopHoldsSlots ==
  ASSUME IInv, SInv, NEW s \in Stoppers, Stop(s)
  PROVE  SInv'
PROOF
  <1>1. /\ seen[s] \in Runs /\ mark' = [mark EXCEPT ![seen[s]] = "stopped"]
        /\ stage' = [stage EXCEPT ![seen[s]] = "cancelling"]
        /\ seen' = [seen EXCEPT ![s] = NoRun]
        /\ UNCHANGED <<unreleased, result, control, containers, memoryVars, answers, todo, proc, tool>>
    BY DEF Stop, IInv, TypeOK, Write
  <1>2. stopped
    BY <1>1, RunsAssumption DEF Stoppers, SInv, ToolAtRest, IInv, DownIsQuiet
  <1>3. stage[seen[s]] # "none"
    BY <1>1 DEF IInv, NamesKnown
  <1>4. ASSUME NEW q \in Runs PROVE RunFits(q)'
    <2> USE <1>1, <1>2 DEF IInv, TypeOK, SInv, RunFits, Running, stopped, memoryVars, answers
    <2>1. /\ \/ stage'[q] = stage[q] /\ mark'[q] = mark[q]
             \/ stage'[q] = "cancelling" /\ mark'[q] = "stopped"
          /\ Queued(q)' <=> Queued(q)
      BY DEF Queued
    <2> HIDE DEF Queued
    <2>2. ResultFits(q)' /\ TaskFits(q)'
      BY <2>1 DEF ResultFits, TaskFits
    <2>3. ContainersFit(q)'
      BY <2>1 DEF ContainersFit
    <2>4. NewFits(q)'
      <3>1. stage'[q] \in New => stage'[q] = stage[q] /\ mark'[q] = mark[q]
        BY <2>1 DEF New, Waiting
      <3>2. stage'[q] \notin New => mark'[q] # "none" \/ (stage'[q] = stage[q] /\ mark'[q] = mark[q])
        BY <2>1
      <3> QED BY <2>1, <3>1, <3>2 DEF NewFits
    <2>5. NotifiedFits(q)'
      BY <2>1 DEF NotifiedFits, answers
    <2> QED BY <2>2, <2>3, <2>4, <2>5
  <1>5. Holders' \subseteq Holders
    BY <1>1 DEF memoryVars, IInv, TypeOK, Holders, Starting, Working, ACTIVE_STAGES
  <1>6. SlotsHold'
    BY <1>1, <1>5, FewerHolders DEF memoryVars
  <1>7. ToolAtRest'
    BY <1>1 DEF SInv, ToolAtRest, IInv, TypeOK, Stoppers
  <1> QED BY <1>4, <1>6, <1>7 DEF SInv

\* Steps that look, stop or kill, and the end of a stop.
Ends == Exit \/ Resume
Looks ==
  \/ \E s \in Stoppers, r \in Runs : Look(s, r)
  \/ Terminate \/ AbortAll \/ ToolStops \/ ToolKills \/ ToolLooksAgain

LEMMA KillHoldsSlots ==
  ASSUME IInv, SInv, Ends \/ Looks
  PROVE  SInv'
PROOF
  <1> USE DEF diskVars, journalVars, memoryVars, answers, stopVars
  <1>1. UNCHANGED <<stage, unreleased, result, mark, containers, notified>>
    BY DEF Ends, Looks, Look, Terminate, AbortAll, Exit, ToolStops, ToolKills, ToolLooksAgain, Resume
  <1>2. CASE Ends
    <2>1. /\ task' = [r \in Runs |-> "idle"] /\ queue' = <<>> /\ admitting' = NoRun
          /\ preparing' = [r \in Runs |-> "none"] /\ timers' = {} /\ proc' = "down"
          /\ tool' = tool /\ todo'["tool"] = todo["tool"] /\ seen'["tool"] = seen["tool"]
      <3>1. CASE Exit
        BY <3>1 DEF Exit, IInv, TypeOK, Stoppers
      <3>2. CASE Resume
        BY <3>2 DEF Resume, IInv, TypeOK, DownIsQuiet
      <3> QED BY <1>2, <3>1, <3>2 DEF Ends
    <2>2. ASSUME NEW q \in Runs PROVE RunFits(q)'
      <3>1. /\ task'[q] = "idle" /\ preparing'[q] = "none" /\ q \notin timers' /\ ~(Queued(q)')
            /\ q # admitting'
        BY <2>1, RunsAssumption DEF Queued
      <3> HIDE DEF Queued
      <3>2. ResultFits(q)'
        BY <1>1, <3>1 DEF SInv, RunFits, ResultFits
      <3>3. TaskFits(q)'
        BY <3>1 DEF TaskFits, Unevaluated
      <3>4. ContainersFit(q)'
        BY <1>1, <2>1, <3>1 DEF SInv, RunFits, ContainersFit
      <3>5. NewFits(q)' /\ NotifiedFits(q)'
        BY <1>1, <3>1 DEF SInv, RunFits, NewFits, NotifiedFits
      <3> QED BY <3>2, <3>3, <3>4, <3>5 DEF RunFits
    <2>3. SlotsHold'
      BY <1>1, <2>1, FewerHolders DEF Holders, Starting
    <2>4. ToolAtRest'
      BY <2>1 DEF SInv, ToolAtRest
    <2> QED BY <2>2, <2>3, <2>4 DEF SInv
  <1>3. CASE Looks
    <2>1. /\ UNCHANGED <<queue, admitting, preparing, timers>>
          /\ stopped => stopped'
          /\ proc' = proc \/ stopped'
          /\ task' = task \/ (task' = Aborted(Runs) /\ stopped')
      BY <1>3 DEF Looks, Look, Terminate, AbortAll, ToolStops, ToolKills, ToolLooksAgain, stopped,
         IInv, DownIsQuiet
    <2>2. ASSUME NEW q \in Runs PROVE RunFits(q)'
      <3>1. /\ Queued(q)' <=> Queued(q)
            /\ task'[q] = task[q] \/ (task[q] = "prepare" /\ task'[q] = "unwind" /\ stopped')
        BY <2>1 DEF Queued, Aborted, IInv, TypeOK
      <3> HIDE DEF Queued
      <3>2. ResultFits(q)' /\ NewFits(q)' /\ NotifiedFits(q)'
        BY <1>1, <2>1, <3>1 DEF SInv, RunFits, ResultFits, NewFits, NotifiedFits
      <3>3. TaskFits(q)'
        BY <1>1, <2>1, <3>1 DEF SInv, RunFits, NewFits, TaskFits, Running, Unevaluated, Ended
      <3>4. ContainersFit(q)'
        BY <1>1, <2>1, <3>1 DEF SInv, RunFits, ContainersFit
      <3> QED BY <3>2, <3>3, <3>4 DEF RunFits
    <2>3. SlotsHold'
      BY <1>1, <2>1, FewerHolders DEF Holders, Starting, Aborted, IInv, TypeOK
    <2>4. ToolAtRest'
      <3>1. ASSUME NEW s \in Stoppers, NEW r \in Runs, Look(s, r) PROVE ToolAtRest'
        <4>1. s = "service" \/ tool # "off"
          BY <3>1 DEF SInv, ToolAtRest, Look, Stoppers
        <4>2. tool' = tool /\ (s = "service" => todo'["tool"] = todo["tool"] /\ seen'["tool"] = seen["tool"])
          BY <3>1 DEF Look, IInv, TypeOK, Stoppers
        <4> QED BY <4>1, <4>2 DEF SInv, ToolAtRest
      <3>2. CASE Terminate \/ AbortAll
        BY <3>2 DEF Terminate, AbortAll, SInv, ToolAtRest, IInv, TypeOK, Stoppers
      <3>3. CASE ToolStops \/ ToolKills \/ ToolLooksAgain
        BY <3>3 DEF ToolStops, ToolKills, ToolLoopDone, ToolLooksAgain, ToolAtRest
      <3> QED BY <1>3, <3>1, <3>2, <3>3 DEF Looks
    <2> QED BY <2>2, <2>3, <2>4 DEF SInv
  <1> QED BY <1>2, <1>3

\* What the stop tool removes was stopped before.
LEMMA RemovalHoldsSlots ==
  ASSUME IInv, SInv, ToolRemoves
  PROVE  SInv'
PROOF
  <1>1. /\ containers' \subseteq containers
        /\ \A r \in Runs :
             \/ stage'[r] = stage[r]
             \/ stage'[r] = "cancelled" /\ mark[r] # "none" /\ stage[r] # "none" /\ containers' = {}
        /\ UNCHANGED <<unreleased, result, mark, control, memoryVars, answers, proc, todo, seen>>
        /\ todo["tool"] = {} /\ seen["tool"] = NoRun
    BY DEF ToolRemoves, Known, ToolLoopDone
  <1>2. ASSUME NEW q \in Runs PROVE RunFits(q)'
    <2> USE <1>1 DEF SInv, RunFits, Running, stopped, memoryVars, answers
    <2>1. Queued(q)' <=> Queued(q)
      BY DEF Queued
    <2> HIDE DEF Queued
    <2>2. ResultFits(q)'
      BY DEF ResultFits
    <2>3. TaskFits(q)'
      BY <2>1 DEF TaskFits, ToolRemoves, IInv, DownIsQuiet
    <2>4. ContainersFit(q)'
      BY DEF ContainersFit
    <2>5. NewFits(q)' /\ NotifiedFits(q)'
      BY <2>1 DEF NewFits, New, Waiting, NotifiedFits
    <2> QED BY <2>2, <2>3, <2>4, <2>5
  <1>3. Holders' \subseteq Holders
    BY <1>1 DEF Holders, Starting, Working, ACTIVE_STAGES, memoryVars
  <1>4. SlotsHold'
    BY <1>1, <1>3, FewerHolders DEF memoryVars
  <1>5. ToolAtRest'
    BY <1>1 DEF ToolAtRest
  <1> QED BY <1>2, <1>4, <1>5 DEF SInv

\* Recovery takes up jobs that held a slot before, or owe only their result.
LEMMA RecoverHoldsSlots ==
  ASSUME IInv, SInv, Recover
  PROVE  SInv'
PROOF
  <1>1. /\ proc = "down" /\ ~stopped /\ admitting = NoRun /\ \A r \in Runs : preparing[r] = "none" /\ r \notin timers
        /\ UNCHANGED <<result, mark, control, admitting, preparing, timers, todo, seen, tool, notified>>
    BY DEF Recover, IInv, DownIsQuiet, answers
  <1>2. ASSUME NEW q \in Runs PROVE RunFits(q)'
    <2>1. /\ task'[q] = "begin" \/ Queued(q)'
               => mark[q] = "none" /\ stage[q] \in ACTIVE_STAGES /\ stage'[q] = stage[q]
          /\ task'[q] \in {"idle", "begin"}
      BY RecoverMoves DEF IInv, Queued, halfway
    <2>2. stage'[q] = stage[q] \/ (q \in halfway /\ stage'[q] \in Ended)
      BY RecoverMoves DEF IInv, Ended
    <2>3. q \in containers' => q \in containers /\ (q \in halfway \cup unreleased => q \in unreleased')
      BY RecoverMoves DEF IInv
    <2>4. mark' = mark /\ result' = result /\ preparing'[q] = "none" /\ q \notin timers' /\ q # admitting'
      BY <1>1, RunsAssumption
    <2> HIDE DEF Queued
    <2>5. ResultFits(q)'
      BY <2>1, <2>2, <2>4 DEF SInv, RunFits, ResultFits, Ended
    <2>6. TaskFits(q)'
      BY <2>1, <2>2, <2>4 DEF SInv, RunFits, ResultFits, TaskFits, Ended, Unevaluated, Working,
         ACTIVE_STAGES, halfway
    <2>7. ContainersFit(q)'
      BY <1>1, RecoverMoves, <2>1, <2>2, <2>3, <2>4 DEF IInv, NamesKnown, SInv, RunFits, ContainersFit, halfway, Known
    <2>8. NewFits(q)'
      BY <2>1, <2>2, <2>3, <2>4 DEF SInv, RunFits, NewFits, New, Waiting, Ended, ACTIVE_STAGES
    <2>9. NotifiedFits(q)'
      BY <1>1, <2>1, <2>3, <2>4 DEF SInv, RunFits, NotifiedFits
    <2> QED BY <2>5, <2>6, <2>7, <2>8, <2>9 DEF RunFits
  <1>3. Holders' \subseteq Holders
    BY <1>1, RecoverMoves DEF IInv, Holders, Starting, Working, ACTIVE_STAGES
  <1>4. SlotsHold'
    BY <1>1, <1>3, FewerHolders
  <1>5. ToolAtRest'
    BY <1>1 DEF SInv, ToolAtRest
  <1> QED BY <1>2, <1>4, <1>5 DEF SInv

LEMMA StepHoldsSlots ==
  ASSUME IInv, SInv, [Next]_vars
  PROVE  SInv'
PROOF
  <1>1. CASE UNCHANGED vars
    <2> USE <1>1 DEF vars, diskVars, journalVars, memoryVars, answers, stopVars
    <2>1. ASSUME NEW q \in Runs PROVE RunFits(q)'
      <3>1. Untouched(q) /\ UNCHANGED <<control, proc>>
        BY DEF Untouched, Queued
      <3> QED BY <3>1, UntouchedFits
    <2>2. SlotsHold'
      BY FewerHolders DEF Holders, Starting
    <2>3. ToolAtRest'
      BY DEF SInv, ToolAtRest
    <2> QED BY <2>1, <2>2, <2>3 DEF SInv
  <1>2. CASE Stopping
    BY <1>2, StopHoldsSlots, KillHoldsSlots, RemovalHoldsSlots, RecoverHoldsSlots DEF Stopping, Ends, Looks
  <1> QED BY <1>1, <1>2, JobHoldsSlots DEF Next, JobStep

LEMMA InitHoldsSlots == Init => SInv
PROOF
  <1> SUFFICES ASSUME Init PROVE SInv
    OBVIOUS
  <1>1. ASSUME NEW q \in Runs PROVE RunFits(q)
    <2> USE RunsAssumption DEF Init
    <2>1. ResultFits(q) /\ ContainersFit(q) /\ NotifiedFits(q)
      BY DEF ResultFits, ContainersFit, NotifiedFits
    <2>2. TaskFits(q)
      BY DEF TaskFits, Unevaluated, Ended, Queued
    <2>3. NewFits(q)
      BY DEF NewFits, Queued
    <2> QED BY <2>1, <2>2, <2>3 DEF RunFits
  <1>2. Holders = {}
    BY DEF Init, Holders, Starting, Working, ACTIVE_STAGES
  <1>3. SlotsHold
    BY <1>2, ConcurrencyAssumption, FS_EmptySet DEF Init, SlotsHold
  <1>4. ToolAtRest
    BY DEF Init, ToolAtRest, Stoppers
  <1> QED BY <1>1, <1>3, <1>4 DEF SInv

-----------------------------------------------------------------------------
(* The theorems                                                            *)

LEMMA SlotsInvariance == Spec => [](IInv /\ SInv)
PROOF
  <1>1. Init => IInv /\ SInv
    BY InitFits, InitHoldsSlots
  <1>2. IInv /\ SInv /\ [Next]_vars => IInv' /\ SInv'
    BY StepFits, StepHoldsSlots
  <1> QED BY <1>1, <1>2, PTL DEF Spec

\* Never more runs have containers than the service has slots: not when their
\* removal failed, nor after a crash, nor while recovery starts jobs in a row.
THEOREM ContainersAreLimited == Spec => []ContainersWithinLimit
PROOF
  <1>1. IInv /\ SInv => ContainersWithinLimit
    <2> SUFFICES ASSUME IInv, SInv PROVE ContainersWithinLimit
      OBVIOUS
    <2>1. containers \subseteq Holders /\ IsFiniteSet(Holders) /\ Cardinality(Holders) \in Nat
      BY HoldersCount DEF Holders, Starting
    <2>2. Cardinality(containers) <= Cardinality(Holders) /\ Cardinality(containers) \in Nat
      BY <2>1, FS_Subset, FS_CardinalityType
    <2> QED BY <2>1, <2>2, ConcurrencyAssumption DEF SInv, SlotsHold, ContainersWithinLimit
  <1> QED BY <1>1, SlotsInvariance, PTL

\* A job whose stop the platform was told of stays without containers, whatever
\* tasks, requests, timers and recovery still do.
THEOREM StoppedNeverRuns == Spec => []StoppedStaysDown
PROOF
  <1>1. IInv /\ SInv => StoppedStaysDown
    BY DEF IInv, TypeOK, SInv, RunFits, NotifiedFits, StoppedStaysDown
  <1> QED BY <1>1, SlotsInvariance, PTL

-----------------------------------------------------------------------------
(* The service implements EvaluatorJob                                     *)

\* The job of one run.
Withdrawn(r) == mark[r] # "none" \/ stage[r] \in Ended

JobOf(r) ==
  IF Withdrawn(r) THEN IF r \in containers \/ Starting(r) THEN "stopping" ELSE "stopped"
  ELSE IF result[r] # "none" THEN "finished"
  ELSE IF stage[r] \in ACTIVE_STAGES THEN "running" ELSE "none"

Withdraws(r) ==
  \/ JobOf(r)' \in {JobOf(r), "stopped"}
  \/ JobOf(r) \in {"running", "finished"} /\ JobOf(r)' = "stopping"
Finishes(r) == JobOf(r) = "running" /\ JobOf(r)' = "finished"
Starts(r) == JobOf(r) = "none" /\ JobOf(r)' = "running"

LEMMA ContainersHaveJob ==
  ASSUME IInv, SInv, NEW r \in Runs, r \in containers \/ Starting(r)
  PROVE  JobOf(r) # "none"
PROOF
  <1>1. r \in Runs /\ stage[r] \in Stages
    BY DEF IInv, TypeOK
  <1>2. /\ stage[r] \notin New
        /\ stage[r] \in {"completed", "failed"} => result[r] # "none"
    BY <1>1 DEF SInv, RunFits, NewFits, ResultFits, Starting
  <1> QED BY <1>1, <1>2 DEF JobOf, Withdrawn, New, Stages, TERMINAL, Ended

\* A step of a job moves it as promised; only an acceptance makes it run.
LEMMA JobStepMoves ==
  ASSUME IInv, SInv, NEW r \in Runs, JobStep(r)
  PROVE  Withdraws(r) \/ Finishes(r) \/ (Accept(r) /\ Starts(r))
PROOF
  <1> USE RunsAssumption DEF IInv, TypeOK, ResultIsNew, SInv, RunFits, ResultFits, TaskFits, NewFits,
          Working, New, Ended, Unevaluated, ACTIVE_STAGES, Waiting, Running, stopped,
          Withdrawn, Starting, JobOf, Withdraws, Finishes, Starts,
          Write, Go, Set, journalVars, diskVars, memoryVars, answers, stopVars
  <1>1. CASE Admit(r)
    BY <1>1 DEF Admit
  <1>2. CASE Repost(r)
    BY <1>2 DEF Repost, start
  <1>3. CASE PrepareImages(r)
    BY <1>3 DEF PrepareImages
  <1>4. CASE Accept(r)
    BY <1>4 DEF Accept, start
  <1>5. CASE ImagesArrive(r)
    BY <1>5 DEF ImagesArrive
  <1>6. CASE LeaveWindow(r)
    BY <1>6 DEF LeaveWindow
  <1>7. CASE Cancel(r)
    <2>1. /\ stage' = stage /\ result' = result /\ containers' = containers /\ mark'[r] # "none"
          /\ task' = task
      BY <1>7 DEF Cancel
    <2>2. r \in containers \/ Starting(r) => JobOf(r) # "none"
      BY ContainersHaveJob
    <2> QED BY <2>1, <2>2
  <1>8. CASE CancelEnds(r)
    BY <1>8, CancelEndsMoves DEF Aborted, CancelledIsMarked
  <1>9. CASE Retry(r)
    BY <1>9 DEF Retry, start
  <1>10. CASE Begin(r)
    BY <1>10 DEF Begin, existingResult
  <1>11. CASE RemoveStale(r)
    BY <1>11 DEF RemoveStale, Conclude, Cleanups
  <1>12. CASE RunHarness(r)
    BY <1>12 DEF RunHarness, Conclude
  <1>13. CASE HarnessEnds(r)
    BY <1>13 DEF HarnessEnds, Conclude
  <1>14. CASE CleanUp(r)
    BY <1>14 DEF CleanUp, Cleanups
  <1>15. CASE SaveResult(r)
    BY <1>15 DEF SaveResult
  <1>16. CASE Deliver(r)
    BY <1>16 DEF Deliver, DeliveryFails
  <1>17. CASE UploadEvidence(r)
    BY <1>17 DEF UploadEvidence, DeliveryFails
  <1>18. CASE Complete(r)
    BY <1>18 DEF Complete, DeliveryFails
  <1>19. CASE Unwind(r)
    <2>1. /\ stage'[r] \in Ended /\ result' = result /\ containers' \subseteq containers
          /\ task'[r] = "end"
      BY <1>19 DEF Unwind, Cancelled, Cleanups
    <2>2. r \in containers \/ Starting(r) => JobOf(r) # "none"
      BY ContainersHaveJob
    <2> QED BY <2>1, <2>2
  <1>20. CASE End(r)
    BY <1>20, EndTouches DEF End
  <1>21. CASE Flush(r)
    BY <1>21 DEF Flush
  <1> HIDE DEF IInv, TypeOK, SInv, Withdraws, Finishes, Starts, JobOf, Write, Go, Set
  <1> QED BY <1>1, <1>2, <1>3, <1>4, <1>5, <1>6, <1>7, <1>8, <1>9, <1>10, <1>11,
         <1>12, <1>13, <1>14, <1>15, <1>16, <1>17, <1>18, <1>19, <1>20, <1>21
    DEF JobStep, Request, Task

\* A stop, a crash or a recovery at most withdraws.
LEMMA StoppingWithdraws ==
  ASSUME IInv, SInv, Stopping, NEW q \in Runs
  PROVE  Withdraws(q)
PROOF
  <1> USE DEF IInv, TypeOK, SInv, RunFits, diskVars, journalVars, memoryVars
  <1>1. CASE Ends \/ Looks
    <2>1. /\ UNCHANGED <<stage, result, mark, containers>>
          /\ Starting(q)' => Starting(q)
      BY <1>1 DEF Ends, Looks, Look, Terminate, AbortAll, Aborted, Starting, Exit, ToolStops, ToolKills, ToolLooksAgain, Resume
    <2> QED BY <2>1 DEF Withdraws, JobOf, Withdrawn, Starting
  <1>2. ASSUME NEW s \in Stoppers, Stop(s) PROVE Withdraws(q)
    <2>1. /\ \/ stage'[q] = stage[q] /\ mark'[q] = mark[q]
             \/ mark'[q] = "stopped"
          /\ UNCHANGED <<result, containers, task>>
      BY <1>2 DEF Stop, Write
    <2>2. q \in containers \/ Starting(q) => JobOf(q) # "none"
      BY ContainersHaveJob
    <2> QED BY <2>1, <2>2 DEF Withdraws, JobOf, Withdrawn, Starting
  <1>3. CASE ToolRemoves
    <2>1. /\ containers' \subseteq containers
          /\ stage'[q] = stage[q] \/ (stage'[q] = "cancelled" /\ mark[q] # "none")
          /\ UNCHANGED <<result, mark, task>>
      BY <1>3 DEF ToolRemoves
    <2> QED BY <2>1 DEF Withdraws, JobOf, Withdrawn, Starting, Ended
  <1>4. CASE Recover
    <2>1. /\ containers' \subseteq containers
          /\ stage'[q] = stage[q] \/ (stage'[q] \in Ended /\ mark[q] # "none")
          /\ UNCHANGED <<result, mark>> /\ task'[q] \in {"idle", "begin"}
      BY <1>4, RecoverMoves DEF Recover, halfway, Ended
    <2> QED BY <2>1 DEF Withdraws, JobOf, Withdrawn, Starting
  <1> QED BY <1>1, <1>2, <1>3, <1>4 DEF Stopping, Ends, Looks

\* EvaluatorJob counts as the service does.
LEMMA SameCount == \A S : Job!Cardinality(S) = Cardinality(S)
PROOF BY DEF Job!Cardinality, Cardinality

\* What holds a slot for the platform holds one in the service.
LEMMA HeldHolds ==
  ASSUME IInv, SInv
  PROVE  Job!Held \subseteq Holders
PROOF
  <1>1. \A r \in Runs : JobOf(r) \in {"running", "stopping"} => r \in Holders
    BY DEF JobOf, Withdrawn, Starting, Holders, Working, SInv, RunFits, ResultFits
  <1>2. \A r \in Runs : job[r] = JobOf(r)
    BY DEF job, JobOf, Withdrawn, Starting, Ended
  <1> QED BY <1>1, <1>2 DEF Job!Held

LEMMA WithdrawsWithdraw ==
  ASSUME \A q \in Runs : Withdraws(q)
  PROVE  Job!Withdraw
PROOF
  <1>1. job = [r \in Runs |-> JobOf(r)]
    BY DEF job, JobOf, Withdrawn, Starting, Ended
  <1>2. job' = [r \in Runs |-> JobOf(r)']
    BY DEF job, JobOf, Withdrawn, Starting, Ended
  <1> HIDE DEF JobOf
  <1>3. job' = [r \in Runs |-> job'[r]]
    BY <1>2
  <1>4. ASSUME NEW r \in Runs PROVE job'[r] \in Job!MayBecome(r)
    BY <1>1, <1>2 DEF Withdraws, Job!MayBecome
  <1> QED BY <1>3, <1>4 DEF Job!Withdraw

\* Every step is one of EvaluatorJob.
LEMMA StepImplements ==
  ASSUME IInv, SInv, [Next]_vars
  PROVE  [Job!Next]_job
PROOF
  <1>0. /\ job = [r \in Runs |-> JobOf(r)]
        /\ job' = [r \in Runs |-> JobOf(r)']
    BY DEF job, JobOf, Withdrawn, Starting, Ended
  <1>1. CASE UNCHANGED vars
    BY <1>1 DEF vars, diskVars, journalVars, memoryVars, job
  <1>2. CASE Stopping
    BY <1>2, StoppingWithdraws, WithdrawsWithdraw DEF Job!Next
  <1>3. ASSUME NEW r \in Runs, JobStep(r) PROVE Job!Next
    <2>1. ASSUME NEW q \in Runs, q # r PROVE JobOf(q)' = JobOf(q)
      <3>1. Untouched(q)
        BY <1>3, <2>1, OthersUntouched
      <3> QED BY <3>1 DEF Untouched, JobOf, Withdrawn, Starting
    <2>2. CASE Withdraws(r)
      <3>1. \A q \in Runs : Withdraws(q)
        BY <2>1, <2>2 DEF Withdraws
      <3> QED BY <3>1, WithdrawsWithdraw DEF Job!Next
    <2>3. CASE Finishes(r)
      <3>1. Job!Finish(r)
        BY <1>0, <2>1, <2>3 DEF Finishes, Job!Finish, Job!Become
      <3> QED BY <3>1 DEF Job!Next
    <2>4. CASE Accept(r) /\ Starts(r)
      <3>1. job[r] = "none" /\ Job!Become(r, "running")
        BY <1>0, <2>1, <2>4 DEF Starts, Job!Become
      <3>2. Cardinality(Job!Held) < MaxConcurrency
        <4>1. r = admitting /\ r # NoRun
          BY <2>4, RunsAssumption DEF Accept
        <4>2. Job!Held \subseteq Holders \ {r}
          BY <3>1, HeldHolds DEF Job!Held
        <4>3. /\ IsFiniteSet(Holders \ {r}) /\ Cardinality(Holders \ {r}) \in Nat
              /\ Cardinality(Holders \ {r}) < MaxConcurrency
          BY <4>1, HoldersCount DEF SInv, SlotsHold
        <4>4. Cardinality(Job!Held) <= Cardinality(Holders \ {r}) /\ Cardinality(Job!Held) \in Nat
          BY <4>2, <4>3, FS_Subset, FS_CardinalityType
        <4> QED BY <4>3, <4>4, ConcurrencyAssumption
      <3>3. Job!Accept(r)
        BY <3>1, <3>2, SameCount DEF Job!Accept
      <3> QED BY <3>3 DEF Job!Next
    <2> QED BY <1>3, <2>2, <2>3, <2>4, JobStepMoves
  <1> QED BY <1>1, <1>2, <1>3 DEF Next, JobStep

\* The service is the table of jobs that the platform counts on: it takes at most
\* as many as it has slots, finishes each at most once, and none runs again after
\* it was withdrawn, whatever was lost, killed, restarted or repeated.
THEOREM ServiceImplementsJob == Spec => JobSpec
PROOF
  <1>1. Init => Job!Init
    BY DEF Init, job, Job!Init, Ended, ACTIVE_STAGES
  <1>2. IInv /\ SInv /\ [Next]_vars => [Job!Next]_job
    BY StepImplements
  <1> QED BY <1>1, <1>2, SlotsInvariance, PTL DEF Spec, JobSpec, Job!Spec

=============================================================================
