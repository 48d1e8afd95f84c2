----------------------- MODULE EvaluatorServiceProofs -----------------------
(***************************************************************************)
(* Theorems about EvaluatorService, for every finite set of runs, every    *)
(* number of slots and of faults.                                          *)
(***************************************************************************)
EXTENDS EvaluatorService, TLAPS, FiniteSetTheorems, SequenceTheorems

-----------------------------------------------------------------------------
(* The inductive invariant, in parts                                       *)

\* Whatever the memory or the stop loops name is a job of the journal.
NamesKnown ==
  /\ \A i \in 1..Len(queue) : stage[queue[i]] # "none"
  /\ \A r \in Runs : r \in timers \cup containers => stage[r] # "none"
  /\ \A s \in Stoppers : \A r \in Runs : r = seen[s] => stage[r] # "none"

\* A process that is down has nothing in memory; the stop tool keeps it there.
DownIsQuiet ==
  /\ proc = "down" =>
       /\ \A r \in Runs : task[r] = "idle" /\ preparing[r] = "none" /\ r \notin cancelling \cup timers
       /\ admitting = NoRun /\ seen["service"] = NoRun /\ todo["service"] = {} /\ queue = <<>>
  /\ tool # "off" => stopped
  /\ tool = "remark" => proc = "down"
  /\ proc \in {"signalled", "stopping"} => stopped
  /\ todo["service"] # {} \/ seen["service"] # NoRun => stopped

\* A cancel request has written its mark; one that was answered "cancelled"
\* left nothing behind.
CancelledIsMarked ==
  \A r \in Runs :
    /\ r \in cancelling => mark[r] # "none"
    /\ r \in told => mark[r] # "none" /\ task[r] = "idle" /\ r \notin containers

\* A task on its way to a result has none yet.
Unevaluated == {"stale", "prepare", "harness", "clean", "save"}
ResultIsNew == \A r \in Runs : task[r] \in Unevaluated => result[r] = "none"

\* What the second loop of the stop tool leaves behind.
LoopCovers ==
  tool = "remark" =>
    \A r \in Known : stage[r] \in TERMINAL \/ mark[r] # "none" \/ r \in todo["tool"] \/ r = seen["tool"]

IInv == TypeOK /\ NamesKnown /\ DownIsQuiet /\ CancelledIsMarked /\ ResultIsNew /\ LoopCovers


\* It holds when the service is installed.
LEMMA InitFits == Init => IInv
PROOF
  <1> SUFFICES ASSUME Init PROVE IInv
    OBVIOUS
  <1>1. TypeOK
    BY FaultsAssumption DEF Init, TypeOK, Stages, Stoppers, Places
  <1>2. NamesKnown /\ DownIsQuiet /\ CancelledIsMarked
    BY RunsAssumption DEF Init, stopped, NamesKnown, DownIsQuiet, CancelledIsMarked, Stoppers
  <1>3. ResultIsNew /\ LoopCovers
    BY DEF Init, ResultIsNew, LoopCovers, Unevaluated, Known
  <1> QED BY <1>1, <1>2, <1>3 DEF IInv

\* Starting a job changes nothing but the place of its task.
LEMMA StartTypes ==
  ASSUME NEW tasks \in [Runs -> Places], NEW r \in Runs
  PROVE  /\ start(tasks, r) \in [Runs -> Places]
         /\ \A q \in Runs : start(tasks, r)[q] = tasks[q]
                            \/ (q = r /\ tasks[q] = "idle" /\ start(tasks, r)[q] = "begin" /\ Running(q))
PROOF BY DEF start, Places

-----------------------------------------------------------------------------
(* Requests, tasks and notices                                             *)

JobStep(r) == Request(r) \/ Task(r) \/ Flush(r)

\* The head of the recovery queue is a known job, and so is what it leaves.
LEMMA NextInQueue ==
  ASSUME TypeOK, NamesKnown, queue # <<>>
  PROVE  /\ Head(queue) \in Runs /\ stage[Head(queue)] # "none"
         /\ Tail(queue) \in Seq(Runs)
         /\ Len(Tail(queue)) = Len(queue) - 1
         /\ \A i \in 1..Len(Tail(queue)) : i + 1 \in 1..Len(queue) /\ Tail(queue)[i] = queue[i + 1]
PROOF
  <1>1. queue \in Seq(Runs) /\ Len(queue) \in Nat /\ Len(queue) >= 1 /\ Head(queue) = queue[1]
    BY DEF TypeOK
  <1>2. /\ Head(queue) \in Runs /\ Tail(queue) \in Seq(Runs)
        /\ Len(Tail(queue)) = Len(queue) - 1
        /\ \A i \in 1..Len(Tail(queue)) : Tail(queue)[i] = queue[i + 1]
    BY <1>1, HeadTailProperties
  <1> QED BY <1>1, <1>2 DEF NamesKnown

\* The task of a job ends; that of the next one may begin.
LEMMA EndMoves ==
  ASSUME TypeOK, NamesKnown, NEW r \in Runs, End(r)
  PROVE  /\ task' \in [Runs -> Places] /\ queue' \in Seq(Runs)
         /\ \A i \in 1..Len(queue') : stage[queue'[i]] # "none"
         /\ \A q \in Runs : \/ task'[q] = "idle"
                            \/ task'[q] = task[q]
                            \/ task'[q] = "begin" /\ Running(q) /\ stage[q] # "none"
         /\ UNCHANGED <<diskVars, containers, admitting, preparing, timers, cancelling, answers, stopVars>>
PROOF
  <1>1. CASE r \in unreleased \/ queue = <<>>
    BY <1>1 DEF End, Go, TypeOK, NamesKnown, Places
  <1>2. CASE ~(r \in unreleased \/ queue = <<>>)
    <2> DEFINE tasks == [task EXCEPT ![r] = "idle"]
    <2>1. tasks \in [Runs -> Places] /\ \A q \in Runs : tasks[q] = "idle" \/ tasks[q] = task[q]
      BY DEF TypeOK, Places
    <2>2. queue' = Tail(queue) /\ task' = start(tasks, Head(queue))
      BY <1>2 DEF End
    <2>3. /\ Head(queue) \in Runs /\ stage[Head(queue)] # "none" /\ queue' \in Seq(Runs)
          /\ \A i \in 1..Len(queue') : stage[queue'[i]] # "none"
      BY <1>2, <2>2, NextInQueue DEF NamesKnown
    <2>4. /\ task' \in [Runs -> Places]
          /\ \A q \in Runs : task'[q] = tasks[q] \/ (q = Head(queue) /\ task'[q] = "begin" /\ Running(q))
      <3> HIDE DEF tasks
      <3> QED BY <2>1, <2>2, <2>3, StartTypes
    <2> QED BY <2>1, <2>3, <2>4 DEF End
  <1> QED BY <1>1, <1>2

\* A cancel request ends: the run is cleaned up, unless its task is to do that.
LEMMA CancelEndsMoves ==
  ASSUME TypeOK, NamesKnown, NEW r \in Runs, CancelEnds(r)
  PROVE  /\ stage' \in [Runs -> Stages]
         /\ \A q \in Runs :
              \/ stage'[q] = stage[q]
              \/ task[q] = "idle" /\ stage[q] # "none" /\ stage'[q] \in {"cancelled", "cancelling"}
         /\ unreleased' \subseteq Runs /\ containers' \subseteq containers
         /\ told' \subseteq Runs
         /\ \A q \in told' : q \in told \/ (q = r /\ task[q] = "idle" /\ q \notin containers')
         /\ r \in cancelling /\ cancelling' = cancelling \ {r}
         /\ preparing' \in [Runs -> {"none", "busy", "ready", "error"}]
         /\ task' = Aborted({r})
         /\ UNCHANGED <<result, mark, control, queue, admitting, timers, notified, stopVars>>
PROOF
  <1>1. /\ r \in cancelling /\ cancelling' = cancelling \ {r}
        /\ preparing' \in [Runs -> {"none", "busy", "ready", "error"}]
        /\ task' = Aborted({r})
        /\ UNCHANGED <<mark, control, queue, admitting, timers, notified, stopVars>>
    BY DEF CancelEnds, TypeOK
  <1>2. CASE task[r] # "idle"
    BY <1>1, <1>2 DEF CancelEnds, answers, journalVars, TypeOK
  <1>3. CASE task[r] = "idle" /\ stage[r] = "none"
    BY <1>1, <1>3 DEF CancelEnds, journalVars, TypeOK, NamesKnown
  <1>4. CASE task[r] = "idle" /\ stage[r] # "none"
    <2>1. PICK clean \in BOOLEAN : Cancelled(r, clean) /\ told' = Set(told, r, clean \/ r \in told)
      BY <1>4 DEF CancelEnds, Cleanups
    <2>2. stage' \in [Runs -> Stages] /\ \A q \in Runs : q = r \/ stage'[q] = stage[q]
      BY <2>1 DEF Cancelled, Write, TypeOK, Stages, TERMINAL
    <2>3. stage'[r] \in {"cancelled", "cancelling"}
      BY <2>1 DEF Cancelled, Write, TypeOK
    <2>4. unreleased' \subseteq Runs
      BY <2>1 DEF Cancelled, Set, TypeOK
    <2>5. containers' \subseteq containers /\ (clean => r \notin containers')
      BY <2>1 DEF Cancelled, Set
    <2>6. told' \subseteq Runs /\ \A q \in told' : q \in told \/ (q = r /\ clean)
      BY <2>1 DEF Set, TypeOK
    <2>7. result' = result
      BY <1>4 DEF CancelEnds
    <2> QED BY <1>1, <1>4, <2>2, <2>3, <2>4, <2>5, <2>6, <2>7
  <1> QED BY <1>2, <1>3, <1>4

\* The two ways a task ends its work, in the types.
LEMMA TaskEndTypes ==
  ASSUME TypeOK, NEW r \in Runs, task[r] # "idle", NEW retryable \in BOOLEAN,
         (Conclude(r) /\ UNCHANGED timers) \/ DeliveryFails(r, retryable)
  PROVE  /\ stage' \in [Runs -> Stages] /\ task' \in [Runs -> Places] /\ timers' \subseteq Runs
         /\ \A q \in Runs : task'[q] # "idle" => stage'[q] # "none"
PROOF
  <1> USE DEF TypeOK, Write, Go, Stages, ACTIVE_STAGES, TERMINAL, Places
  <1>1. CASE Conclude(r) /\ UNCHANGED timers
    <2>1. CASE stage' = stage
      BY <1>1, <2>1 DEF Conclude
    <2>2. CASE Write(r, "cleaning") /\ Go(r, "clean")
      BY <1>1, <2>2
    <2> QED BY <1>1, <2>1, <2>2 DEF Conclude
  <1>2. CASE DeliveryFails(r, retryable)
    BY <1>2 DEF DeliveryFails
  <1> QED BY <1>1, <1>2

\* They keep the types.
LEMMA JobTypes ==
  ASSUME IInv, NEW r \in Runs, JobStep(r)
  PROVE  TypeOK'
PROOF
  <1> USE RunsAssumption DEF IInv, TypeOK, NamesKnown, Write, Go, Set, Cleanups, Running, stopped, Stages, ACTIVE_STAGES, Waiting,
          TERMINAL, Places,
          journalVars, diskVars, memoryVars, answers, stopVars
  <1>1. CASE Admit(r)
    BY <1>1 DEF Admit
  <1>2. CASE Repost(r)
    BY <1>2 DEF Repost, start
  <1>3. CASE PrepareImages(r)
    <2>1. /\ stage' = stage \/ Write(r, "waiting_images")
          /\ preparing' \in [Runs -> {"none", "busy", "ready", "error"}]
          /\ admitting' = NoRun
          /\ UNCHANGED <<unreleased, result, mark, control, containers, task, queue, timers,
                         cancelling, answers, stopVars>>
      BY <1>3 DEF PrepareImages
    <2>2. stage' \in [Runs -> Stages] /\ \A q \in Runs : stage[q] # "none" => stage'[q] # "none"
      BY <2>1
    <2> QED BY <2>1, <2>2
  <1>4. CASE Accept(r)
    BY <1>4 DEF Accept, start
  <1>5. CASE ImagesArrive(r)
    BY <1>5 DEF ImagesArrive
  <1>6. CASE LeaveWindow(r)
    BY <1>6 DEF LeaveWindow
  <1>7. CASE Cancel(r)
    BY <1>7 DEF Cancel
  <1>8. CASE CancelEnds(r)
    BY <1>8, CancelEndsMoves DEF Aborted
  <1>9. CASE Retry(r)
    BY <1>9 DEF Retry, start
  <1>10. CASE Begin(r)
    BY <1>10 DEF Begin, existingResult
  <1>11. CASE RemoveStale(r)
    <2>1. /\ task[r] = "stale" /\ containers' \subseteq containers
          /\ UNCHANGED <<unreleased, result, mark, control, queue, admitting, preparing, timers,
                         cancelling, answers, stopVars>>
      BY <1>11 DEF RemoveStale
    <2>2. CASE Conclude(r)
      <3>1. /\ stage' \in [Runs -> Stages] /\ task' \in [Runs -> Places]
            /\ \A q \in Runs : task'[q] # "idle" => stage'[q] # "none"
        BY <2>1, <2>2, TaskEndTypes
      <3> QED BY <2>1, <3>1
    <2>3. CASE Write(r, "working") /\ Go(r, "prepare")
      BY <2>1, <2>3
    <2> QED BY <1>11, <2>2, <2>3 DEF RemoveStale
  <1>12. CASE RunHarness(r)
    <2>1. CASE Conclude(r) /\ UNCHANGED <<timers, containers>>
      BY <1>12, <2>1, TaskEndTypes DEF RunHarness
    <2>2. CASE Go(r, "harness") /\ containers' = containers \cup {r} /\ UNCHANGED stage
      BY <1>12, <2>2 DEF RunHarness
    <2> QED BY <1>12, <2>1, <2>2 DEF RunHarness
  <1>13. CASE HarnessEnds(r)
    <2>1. /\ Conclude(r) /\ task[r] # "idle" /\ containers' \subseteq Runs
          /\ UNCHANGED <<unreleased, result, mark, control, queue, admitting, preparing, timers,
                         cancelling, answers, stopVars>>
      BY <1>13 DEF HarnessEnds
    <2> QED BY <2>1, TaskEndTypes
  <1>14. CASE CleanUp(r)
    BY <1>14 DEF CleanUp
  <1>15. CASE SaveResult(r)
    BY <1>15 DEF SaveResult
  <1>16. CASE Deliver(r)
    <2>1. CASE Write(r, "uploading_evidence") /\ Go(r, "upload") /\ UNCHANGED timers
      BY <1>16, <2>1 DEF Deliver
    <2>2. ASSUME NEW retryable \in BOOLEAN, DeliveryFails(r, retryable) PROVE TypeOK'
      BY <1>16, <2>2, TaskEndTypes DEF Deliver
    <2> QED BY <1>16, <2>1, <2>2 DEF Deliver
  <1>17. CASE UploadEvidence(r)
    <2>1. CASE Write(r, "callback_pending") /\ Go(r, "complete") /\ UNCHANGED timers
      BY <1>17, <2>1 DEF UploadEvidence
    <2>2. ASSUME NEW retryable \in BOOLEAN, DeliveryFails(r, retryable) PROVE TypeOK'
      BY <1>17, <2>2, TaskEndTypes DEF UploadEvidence
    <2> QED BY <1>17, <2>1, <2>2 DEF UploadEvidence
  <1>18. CASE Complete(r)
    <2>1. CASE Write(r, "completed") /\ Go(r, "end") /\ UNCHANGED timers
      BY <1>18, <2>1 DEF Complete
    <2>2. ASSUME NEW retryable \in BOOLEAN, DeliveryFails(r, retryable) PROVE TypeOK'
      BY <1>18, <2>2, TaskEndTypes DEF Complete
    <2> QED BY <1>18, <2>1, <2>2 DEF Complete
  <1>19. CASE Unwind(r)
    BY <1>19 DEF Unwind, Cancelled
  <1>20. CASE End(r)
    BY <1>20, EndMoves
  <1>21. CASE Flush(r)
    BY <1>21 DEF Flush
  <1> QED BY <1>1, <1>2, <1>3, <1>4, <1>5, <1>6, <1>7, <1>8, <1>9, <1>10, <1>11, <1>12, <1>13, <1>14, <1>15, <1>16, <1>17, <1>18, <1>19, <1>20, <1>21
    DEF JobStep, Request, Task

\* They name no unknown job.
LEMMA JobNames ==
  ASSUME IInv, NEW r \in Runs, JobStep(r)
  PROVE  NamesKnown'
PROOF
  <1> USE RunsAssumption DEF IInv, TypeOK, NamesKnown, Write, Go, Set, Cleanups, Running, ACTIVE_STAGES, Waiting,
          journalVars, diskVars, memoryVars, answers, stopVars
  <1>1. CASE Admit(r)
    BY <1>1 DEF Admit
  <1>2. CASE Repost(r)
    BY <1>2 DEF Repost, start
  <1>3. CASE PrepareImages(r)
    BY <1>3 DEF PrepareImages
  <1>4. CASE Accept(r)
    BY <1>4 DEF Accept, start
  <1>5. CASE ImagesArrive(r)
    BY <1>5 DEF ImagesArrive
  <1>6. CASE LeaveWindow(r)
    BY <1>6 DEF LeaveWindow
  <1>7. CASE Cancel(r)
    BY <1>7 DEF Cancel
  <1>8. CASE CancelEnds(r)
    <2>1. /\ \A q \in Runs : stage[q] # "none" => stage'[q] # "none"
          /\ containers' \subseteq containers
          /\ queue' = queue /\ timers' = timers /\ seen' = seen
      BY <1>8, CancelEndsMoves DEF Aborted
    <2>2. \A i \in 1..Len(queue') : stage'[queue'[i]] # "none"
      BY <2>1
    <2>3. \A q \in Runs : q \in timers' \cup containers' => stage'[q] # "none"
      BY <2>1
    <2>4. \A s \in Stoppers : \A q \in Runs : q = seen'[s] => stage'[q] # "none"
      BY <2>1
    <2> QED BY <2>2, <2>3, <2>4
  <1>9. CASE Retry(r)
    BY <1>9 DEF Retry, start
  <1>10. CASE Begin(r)
    BY <1>10 DEF Begin, existingResult
  <1>11. CASE RemoveStale(r)
    BY <1>11 DEF RemoveStale, Conclude
  <1>12. CASE RunHarness(r)
    <2>1. /\ \A q \in Runs : stage[q] # "none" => stage'[q] # "none"
          /\ stage[r] # "none" /\ containers' \subseteq containers \cup {r}
          /\ queue' = queue /\ timers' = timers /\ seen' = seen
      BY <1>12 DEF RunHarness, Conclude
    <2> QED BY <2>1
  <1>13. CASE HarnessEnds(r)
    <2>1. /\ \A q \in Runs : stage[q] # "none" => stage'[q] # "none"
          /\ containers' \subseteq containers
          /\ queue' = queue /\ timers' = timers /\ seen' = seen
      BY <1>13 DEF HarnessEnds, Conclude
    <2> QED BY <2>1
  <1>14. CASE CleanUp(r)
    BY <1>14 DEF CleanUp
  <1>15. CASE SaveResult(r)
    BY <1>15 DEF SaveResult
  <1>16. CASE Deliver(r)
    BY <1>16 DEF Deliver, DeliveryFails
  <1>17. CASE UploadEvidence(r)
    BY <1>17 DEF UploadEvidence, DeliveryFails
  <1>18. CASE Complete(r)
    BY <1>18 DEF Complete, DeliveryFails
  <1>19. CASE Unwind(r)
    BY <1>19 DEF Unwind, Cancelled
  <1>20. CASE End(r)
    BY <1>20, EndMoves
  <1>21. CASE Flush(r)
    BY <1>21 DEF Flush
  <1> QED BY <1>1, <1>2, <1>3, <1>4, <1>5, <1>6, <1>7, <1>8, <1>9, <1>10, <1>11, <1>12, <1>13, <1>14, <1>15, <1>16, <1>17, <1>18, <1>19, <1>20, <1>21
    DEF JobStep, Request, Task

\* A cancelled run stays where it is: without a task and without containers.
LEMMA JobMarks ==
  ASSUME IInv, NEW r \in Runs, JobStep(r)
  PROVE  CancelledIsMarked'
PROOF
  <1> USE RunsAssumption DEF IInv, TypeOK, NamesKnown, CancelledIsMarked, Write, Go, Set, Running,
          journalVars, diskVars, memoryVars, answers, stopVars
  <1>1. CASE Admit(r)
    BY <1>1 DEF Admit
  <1>2. CASE Repost(r)
    BY <1>2 DEF Repost, start
  <1>3. CASE PrepareImages(r)
    BY <1>3 DEF PrepareImages
  <1>4. CASE Accept(r)
    BY <1>4 DEF Accept, start
  <1>5. CASE ImagesArrive(r)
    BY <1>5 DEF ImagesArrive
  <1>6. CASE LeaveWindow(r)
    BY <1>6 DEF LeaveWindow
  <1>7. CASE Cancel(r)
    BY <1>7 DEF Cancel
  <1>8. CASE CancelEnds(r)
    BY <1>8, CancelEndsMoves DEF Aborted
  <1>9. CASE Retry(r)
    BY <1>9 DEF Retry, start
  <1>10. CASE Begin(r)
    BY <1>10 DEF Begin, existingResult
  <1>11. CASE RemoveStale(r)
    BY <1>11 DEF RemoveStale, Conclude
  <1>12. CASE RunHarness(r)
    BY <1>12 DEF RunHarness, Conclude
  <1>13. CASE HarnessEnds(r)
    BY <1>13 DEF HarnessEnds, Conclude
  <1>14. CASE CleanUp(r)
    BY <1>14 DEF CleanUp
  <1>15. CASE SaveResult(r)
    BY <1>15 DEF SaveResult
  <1>16. CASE Deliver(r)
    BY <1>16 DEF Deliver, DeliveryFails
  <1>17. CASE UploadEvidence(r)
    BY <1>17 DEF UploadEvidence, DeliveryFails
  <1>18. CASE Complete(r)
    BY <1>18 DEF Complete, DeliveryFails
  <1>19. CASE Unwind(r)
    BY <1>19 DEF Unwind, Cancelled
  <1>20. CASE End(r)
    BY <1>20, EndMoves
  <1>21. CASE Flush(r)
    BY <1>21 DEF Flush
  <1> QED BY <1>1, <1>2, <1>3, <1>4, <1>5, <1>6, <1>7, <1>8, <1>9, <1>10, <1>11, <1>12, <1>13, <1>14, <1>15, <1>16, <1>17, <1>18, <1>19, <1>20, <1>21
    DEF JobStep, Request, Task

\* They start no work for a result that is there.
LEMMA JobResults ==
  ASSUME IInv, NEW r \in Runs, JobStep(r)
  PROVE  ResultIsNew'
PROOF
  <1> USE RunsAssumption DEF IInv, TypeOK, NamesKnown, ResultIsNew, Unevaluated, Write, Go, Running,
          journalVars, diskVars, memoryVars, answers, stopVars
  <1>1. CASE Admit(r)
    BY <1>1 DEF Admit
  <1>2. CASE Repost(r)
    BY <1>2 DEF Repost, start
  <1>3. CASE PrepareImages(r)
    BY <1>3 DEF PrepareImages
  <1>4. CASE Accept(r)
    BY <1>4 DEF Accept, start
  <1>5. CASE ImagesArrive(r)
    BY <1>5 DEF ImagesArrive
  <1>6. CASE LeaveWindow(r)
    BY <1>6 DEF LeaveWindow
  <1>7. CASE Cancel(r)
    BY <1>7 DEF Cancel
  <1>8. CASE CancelEnds(r)
    BY <1>8, CancelEndsMoves DEF Aborted
  <1>9. CASE Retry(r)
    BY <1>9 DEF Retry, start
  <1>10. CASE Begin(r)
    BY <1>10 DEF Begin, existingResult
  <1>11. CASE RemoveStale(r)
    BY <1>11 DEF RemoveStale, Conclude
  <1>12. CASE RunHarness(r)
    BY <1>12 DEF RunHarness, Conclude
  <1>13. CASE HarnessEnds(r)
    BY <1>13 DEF HarnessEnds, Conclude
  <1>14. CASE CleanUp(r)
    BY <1>14 DEF CleanUp
  <1>15. CASE SaveResult(r)
    BY <1>15 DEF SaveResult
  <1>16. CASE Deliver(r)
    BY <1>16 DEF Deliver, DeliveryFails
  <1>17. CASE UploadEvidence(r)
    BY <1>17 DEF UploadEvidence, DeliveryFails
  <1>18. CASE Complete(r)
    BY <1>18 DEF Complete, DeliveryFails
  <1>19. CASE Unwind(r)
    BY <1>19 DEF Unwind, Cancelled
  <1>20. CASE End(r)
    BY <1>20, EndMoves
  <1>21. CASE Flush(r)
    BY <1>21 DEF Flush
  <1> QED BY <1>1, <1>2, <1>3, <1>4, <1>5, <1>6, <1>7, <1>8, <1>9, <1>10, <1>11, <1>12, <1>13, <1>14, <1>15, <1>16, <1>17, <1>18, <1>19, <1>20, <1>21
    DEF JobStep, Request, Task

\* A process that is down does nothing of the kind.
LEMMA JobNeedsProcess ==
  ASSUME IInv, NEW r \in Runs, JobStep(r)
  PROVE  proc # "down" /\ UNCHANGED <<stopVars, control>>
PROOF
  <1>1. CASE Request(r)
    BY <1>1, RunsAssumption DEF IInv, TypeOK, DownIsQuiet, Request, diskVars, Admit, Repost, PrepareImages,
       Accept, ImagesArrive, LeaveWindow, Cancel, CancelEnds
  <1>2. CASE Task(r)
    <2>1. UNCHANGED <<stopVars, control>>
      BY <1>2 DEF diskVars, Task, Retry, Begin, RemoveStale, RunHarness, HarnessEnds, CleanUp, SaveResult,
         Deliver, UploadEvidence, Complete, Unwind, End
    <2>2. r \in timers \/ task[r] # "idle"
      BY <1>2 DEF Task, Retry, Begin, RemoveStale, RunHarness, HarnessEnds, CleanUp, SaveResult,
         Deliver, UploadEvidence, Complete, Unwind, End
    <2> QED BY <2>1, <2>2 DEF IInv, DownIsQuiet
  <1>3. CASE Flush(r)
    BY <1>3 DEF Flush, diskVars, stopVars
  <1> QED BY <1>1, <1>2, <1>3 DEF JobStep

LEMMA JobFits ==
  ASSUME IInv, NEW r \in Runs, JobStep(r)
  PROVE  IInv'
PROOF
  <1>1. DownIsQuiet' /\ LoopCovers'
    BY JobNeedsProcess DEF IInv, DownIsQuiet, LoopCovers, stopVars, stopped
  <1> QED BY <1>1, JobTypes, JobNames, JobMarks, JobResults DEF IInv

-----------------------------------------------------------------------------
(* Stop, crash and recovery                                                *)

\* The loops of a stop.
LEMMA LoopFits ==
  ASSUME IInv, NEW s \in Stoppers, Stop(s) \/ \E r \in Runs : Look(s, r)
  PROVE  IInv'
PROOF
  <1>1. CASE Stop(s)
    <2> USE <1>1 DEF IInv, TypeOK, Stop, Write, Stoppers, Stages, memoryVars, answers
    <2>1. TypeOK'
      BY RunsAssumption DEF NamesKnown
    <2>2. NamesKnown'
      <3>1. \A q \in Runs : stage[q] # "none" => stage'[q] # "none"
        OBVIOUS
      <3>2. queue' = queue /\ \A i \in 1..Len(queue) : queue[i] \in Runs
        OBVIOUS
      <3>3. timers' = timers /\ containers' = containers
        OBVIOUS
      <3>4. \A t \in Stoppers : seen'[t] \in {seen[t], NoRun}
        OBVIOUS
      <3> QED BY <3>1, <3>2, <3>3, <3>4, RunsAssumption DEF NamesKnown
    <2>3. DownIsQuiet'
      BY DEF DownIsQuiet, stopped
    <2>4. CancelledIsMarked' /\ ResultIsNew'
      BY DEF CancelledIsMarked, ResultIsNew
    <2>5. LoopCovers'
      BY DEF DownIsQuiet, LoopCovers, Known, NamesKnown
    <2> QED BY <2>1, <2>2, <2>3, <2>4, <2>5
  <1>2. ASSUME NEW r \in Runs, Look(s, r) PROVE IInv'
    <2> USE <1>2 DEF IInv, TypeOK, Look, diskVars, journalVars, memoryVars, answers
    <2>1. TypeOK'
      OBVIOUS
    <2>2. seen' = seen \/ (stage[r] \in Concerned(s) /\ seen' = [seen EXCEPT ![s] = r])
      OBVIOUS
    <2>3. NamesKnown'
      BY <2>2 DEF NamesKnown, Concerned, ACTIVE_STAGES
    <2>4. DownIsQuiet'
      BY <2>2 DEF DownIsQuiet, stopped, Stoppers, Concerned
    <2>5. CancelledIsMarked' /\ ResultIsNew'
      BY DEF CancelledIsMarked, ResultIsNew
    <2>6. LoopCovers'
      BY RunsAssumption DEF DownIsQuiet, LoopCovers, Known, Stoppers, Concerned
    <2> QED BY <2>1, <2>3, <2>4, <2>5, <2>6
  <1> QED BY <1>1, <1>2

\* What a start of the service takes up: jobs of the journal without a mark; of
\* the others it changes stages that were not final.
LEMMA RecoverMoves ==
  ASSUME TypeOK, Recover
  PROVE  /\ queue' \in Seq(Runs)
         /\ \A i \in 1..Len(queue') : mark[queue'[i]] = "none" /\ stage[queue'[i]] \in ACTIVE_STAGES
         /\ task' \in [Runs -> {"idle", "begin"}]
         /\ \A r \in Runs : task'[r] = "begin" => mark[r] = "none" /\ stage[r] \in ACTIVE_STAGES
         /\ stage' \in [Runs -> Stages]
         /\ \A r \in Runs :
              \/ stage'[r] = stage[r]
              \/ r \in halfway /\ stage'[r] \in {"cancelled", "cancelling"}
         /\ unreleased' \subseteq Runs
         /\ containers' \subseteq containers
         /\ \A r \in containers' :
              /\ r \in halfway \cup unreleased => r \in unreleased'
              /\ r \in halfway => stage'[r] # "cancelled"
PROOF
  <1>1. PICK stuck \in SUBSET Sticky :
          LET clean == Runs \ stuck IN
            /\ stage' = [r \in Runs |-> IF r \notin halfway THEN stage[r]
                                        ELSE IF r \in clean THEN "cancelled" ELSE "cancelling"]
            /\ unreleased' = blocked(clean)
            /\ containers' = containers \ (clean \cap (Pooled \cup halfway \cup held))
            /\ \E order \in Orders(recoverable(clean)) : Restart(order, available(clean))
    BY DEF Recover
  <1> DEFINE clean == Runs \ stuck
             jobs == recoverable(clean)
  <1>2. PICK order \in Orders(jobs) : Restart(order, available(clean))
    BY <1>1
  <1>3. jobs \subseteq Runs /\ Cardinality(jobs) \in Nat
    BY RunsAssumption, FS_Subset, FS_CardinalityType DEF recoverable
  <1>4. order \in Seq(jobs) /\ Len(order) \in Nat
    <2> DEFINE n == Cardinality(jobs)
    <2>1. n \in Nat /\ order \in [1..n -> jobs]
      BY <1>2, <1>3 DEF Orders
    <2> HIDE DEF n, jobs
    <2>2. order \in Seq(jobs)
      BY <2>1
    <2> QED BY <2>2
  <1>5. available(clean) \in Nat
    <2>1. blocked(clean) \subseteq Runs
      BY DEF blocked, halfway, Known, TypeOK
    <2>2. Cardinality(blocked(clean)) \in Nat
      BY <2>1, RunsAssumption, FS_Subset, FS_CardinalityType
    <2> QED BY <2>2, ConcurrencyAssumption DEF available
  <1>6. \A r \in jobs : mark[r] = "none" /\ stage[r] \in ACTIVE_STAGES
    BY DEF recoverable
  <1> HIDE DEF jobs
  <1>7. queue' \in Seq(jobs)
    <2>1. \A i \in available(clean) + 1 .. Len(order) : order[i] \in jobs
      BY <1>4, <1>5
    <2>2. available(clean) + 1 \in Int /\ Len(order) \in Int
      BY <1>4, <1>5
    <2>3. SubSeq(order, available(clean) + 1, Len(order)) \in Seq(jobs)
      BY <2>1, <2>2, SubSeqProperties
    <2> QED BY <1>2, <2>3 DEF Restart
  <1>8. /\ queue' \in Seq(Runs)
        /\ \A i \in 1..Len(queue') : mark[queue'[i]] = "none" /\ stage[queue'[i]] \in ACTIVE_STAGES
    BY <1>3, <1>6, <1>7
  <1>9. /\ task' \in [Runs -> {"idle", "begin"}]
        /\ \A r \in Runs : task'[r] = "begin" => mark[r] = "none" /\ stage[r] \in ACTIVE_STAGES
    BY <1>2, <1>4, <1>6 DEF Restart
  <1>10. /\ stage' \in [Runs -> Stages]
         /\ \A r \in Runs :
              \/ stage'[r] = stage[r]
              \/ r \in halfway /\ stage'[r] \in {"cancelled", "cancelling"}
    BY <1>1 DEF TypeOK, Stages, TERMINAL
  <1>11. unreleased' \subseteq Runs
    BY <1>1 DEF Recover, TypeOK, blocked, halfway, Known
  <1>12. /\ containers' \subseteq containers
         /\ \A r \in containers' :
              /\ r \in halfway \cup unreleased => r \in unreleased'
              /\ r \in halfway => stage'[r] # "cancelled"
    BY <1>1 DEF TypeOK, blocked, held
  <1> QED BY <1>8, <1>9, <1>10, <1>11, <1>12

LEMMA RecoverFits ==
  ASSUME IInv, Recover
  PROVE  IInv'
PROOF
  <1>1. /\ proc = "down" /\ proc' = "up" /\ tool' = tool /\ control' = control /\ ~stopped
        /\ UNCHANGED <<result, mark, admitting, preparing, timers, cancelling, answers, todo, seen, faults>>
    BY DEF Recover
  <1>2. TypeOK'
    BY <1>1, RecoverMoves DEF answers, IInv, TypeOK, Places, halfway, Known, ACTIVE_STAGES
  <1>3. \A r \in Runs : stage[r] # "none" => stage'[r] # "none"
    BY RecoverMoves DEF IInv
  <1>4. NamesKnown'
    <2>1. \A i \in 1..Len(queue') : queue'[i] \in Runs /\ stage[queue'[i]] # "none"
      BY RecoverMoves DEF IInv, ACTIVE_STAGES
    <2>2. containers' \subseteq containers /\ timers' = timers /\ seen' = seen
      BY <1>1, RecoverMoves DEF IInv
    <2> QED BY <1>3, <2>1, <2>2 DEF IInv, NamesKnown
  <1>5. DownIsQuiet' /\ LoopCovers'
    BY <1>1 DEF IInv, DownIsQuiet, LoopCovers, stopped
  <1>6. CancelledIsMarked'
    BY <1>1, RecoverMoves DEF answers, IInv, TypeOK, CancelledIsMarked
  <1>7. ResultIsNew'
    BY <1>1, RecoverMoves DEF IInv, TypeOK, ResultIsNew, Unevaluated
  <1> QED BY <1>2, <1>4, <1>5, <1>6, <1>7 DEF IInv

\* Everything else that stops, kills or resumes.
LEMMA StoppingFits ==
  ASSUME IInv, Stopping
  PROVE  IInv'
PROOF
  <1> USE RunsAssumption, FaultsAssumption
      DEF IInv, TypeOK, NamesKnown, stopped, ToolLoopDone, journalVars, diskVars, memoryVars, answers, stopVars
  <1>1. CASE Terminate
    <2>1. TypeOK'
      BY <1>1 DEF Terminate, Stoppers, Known, Stages, TERMINAL, Places
    <2>2. NamesKnown' /\ DownIsQuiet'
      BY <1>1 DEF Terminate, DownIsQuiet, Stoppers, Known
    <2>3. CancelledIsMarked' /\ ResultIsNew'
      BY <1>1 DEF Terminate, CancelledIsMarked, ResultIsNew, Unevaluated, DownIsQuiet
    <2>4. LoopCovers'
      BY <1>1 DEF Terminate, LoopCovers, Known, Stoppers, DownIsQuiet
    <2> QED BY <2>1, <2>2, <2>3, <2>4
  <1>2. CASE Exit
    <2>1. TypeOK'
      BY <1>2 DEF Exit, Stoppers, Known, Stages, TERMINAL, Places
    <2>2. NamesKnown' /\ DownIsQuiet'
      BY <1>2 DEF Exit, DownIsQuiet, Stoppers, Known
    <2>3. CancelledIsMarked' /\ ResultIsNew'
      BY <1>2 DEF Exit, CancelledIsMarked, ResultIsNew, Unevaluated, DownIsQuiet
    <2>4. LoopCovers'
      BY <1>2 DEF Exit, LoopCovers, Known, Stoppers, DownIsQuiet
    <2> QED BY <2>1, <2>2, <2>3, <2>4
  <1>3. CASE Resume
    <2>1. TypeOK'
      BY <1>3 DEF Resume, Stoppers, Known, Stages, TERMINAL, Places
    <2>2. NamesKnown' /\ DownIsQuiet'
      BY <1>3 DEF Resume, DownIsQuiet, Stoppers, Known
    <2>3. CancelledIsMarked' /\ ResultIsNew'
      BY <1>3 DEF Resume, CancelledIsMarked, ResultIsNew, Unevaluated, DownIsQuiet
    <2>4. LoopCovers'
      BY <1>3 DEF Resume, LoopCovers, Known, Stoppers, DownIsQuiet
    <2> QED BY <2>1, <2>2, <2>3, <2>4
  <1>4. CASE ToolStops
    <2>1. TypeOK'
      BY <1>4 DEF ToolStops, Stoppers, Known, Stages, TERMINAL, Places
    <2>2. NamesKnown' /\ DownIsQuiet'
      BY <1>4 DEF ToolStops, DownIsQuiet, Stoppers, Known
    <2>3. CancelledIsMarked' /\ ResultIsNew'
      BY <1>4 DEF ToolStops, CancelledIsMarked, ResultIsNew, Unevaluated, DownIsQuiet
    <2>4. LoopCovers'
      BY <1>4 DEF ToolStops, LoopCovers, Known, Stoppers, DownIsQuiet
    <2> QED BY <2>1, <2>2, <2>3, <2>4
  <1>5. CASE ToolKills
    <2>1. TypeOK'
      BY <1>5 DEF ToolKills, Stoppers, Known, Stages, TERMINAL, Places
    <2>2. NamesKnown' /\ DownIsQuiet'
      BY <1>5 DEF ToolKills, DownIsQuiet, Stoppers, Known
    <2>3. CancelledIsMarked' /\ ResultIsNew'
      BY <1>5 DEF ToolKills, CancelledIsMarked, ResultIsNew, Unevaluated, DownIsQuiet
    <2>4. LoopCovers'
      BY <1>5 DEF ToolKills, LoopCovers, Known, Stoppers, DownIsQuiet
    <2> QED BY <2>1, <2>2, <2>3, <2>4
  <1>6. CASE ToolLooksAgain
    <2>1. TypeOK'
      BY <1>6 DEF ToolLooksAgain, Stoppers, Known, Stages, TERMINAL, Places
    <2>2. NamesKnown' /\ DownIsQuiet'
      BY <1>6 DEF ToolLooksAgain, DownIsQuiet, Stoppers, Known
    <2>3. CancelledIsMarked' /\ ResultIsNew'
      BY <1>6 DEF ToolLooksAgain, CancelledIsMarked, ResultIsNew, Unevaluated, DownIsQuiet
    <2>4. LoopCovers'
      BY <1>6 DEF ToolLooksAgain, LoopCovers, Known, Stoppers, DownIsQuiet
    <2> QED BY <2>1, <2>2, <2>3, <2>4
  <1>7. CASE ToolRemoves
    <2>1. TypeOK'
      BY <1>7 DEF ToolRemoves, Stoppers, Known, Stages, TERMINAL, Places
    <2>2. NamesKnown' /\ DownIsQuiet'
      BY <1>7 DEF ToolRemoves, DownIsQuiet, Stoppers, Known
    <2>3. CancelledIsMarked' /\ ResultIsNew'
      BY <1>7 DEF ToolRemoves, CancelledIsMarked, ResultIsNew, Unevaluated, DownIsQuiet
    <2>4. LoopCovers'
      BY <1>7 DEF ToolRemoves, LoopCovers, Known, Stoppers, DownIsQuiet
    <2> QED BY <2>1, <2>2, <2>3, <2>4
  <1>8. CASE AbortAll
    <2>1. TypeOK'
      BY <1>8 DEF AbortAll, Aborted, Stoppers, Known, Stages, TERMINAL, Places
    <2>2. NamesKnown' /\ DownIsQuiet'
      BY <1>8 DEF AbortAll, Aborted, DownIsQuiet, Stoppers, Known
    <2>3. CancelledIsMarked' /\ ResultIsNew'
      BY <1>8 DEF AbortAll, Aborted, CancelledIsMarked, ResultIsNew, Unevaluated, DownIsQuiet
    <2>4. LoopCovers'
      BY <1>8 DEF AbortAll, Aborted, LoopCovers, Known, Stoppers, DownIsQuiet
    <2> QED BY <2>1, <2>2, <2>3, <2>4
  <1> QED BY <1>1, <1>2, <1>3, <1>4, <1>5, <1>6, <1>7, <1>8, LoopFits, RecoverFits DEF Stopping

LEMMA StepFits ==
  ASSUME IInv, [Next]_vars
  PROVE  IInv'
PROOF
  <1>1. CASE UNCHANGED vars
    <2>1. TypeOK' /\ NamesKnown'
      BY <1>1 DEF vars, diskVars, journalVars, memoryVars, answers, stopVars, IInv, TypeOK, NamesKnown
    <2>2. DownIsQuiet' /\ CancelledIsMarked'
      BY <1>1 DEF vars, diskVars, journalVars, memoryVars, answers, stopVars, IInv, DownIsQuiet, CancelledIsMarked, stopped
    <2>3. ResultIsNew' /\ LoopCovers'
      BY <1>1 DEF vars, diskVars, journalVars, memoryVars, answers, stopVars, IInv, ResultIsNew, LoopCovers, Known
    <2> QED BY <2>1, <2>2, <2>3 DEF IInv
  <1>2. CASE Next
    BY <1>2, JobFits, StoppingFits DEF Next, JobStep
  <1> QED BY <1>1, <1>2

-----------------------------------------------------------------------------
(* The theorems that follow                                                *)

\* Every behaviour keeps the invariant.
LEMMA Invariance == Spec => []IInv
PROOF BY InitFits, StepFits, PTL DEF Spec

\* The journal, the marks and the memory stay as the code knows them (service.cjs).
THEOREM TypeCorrect == Spec => []TypeOK
PROOF BY Invariance, PTL DEF IInv

\* A run whose cancellation was answered "cancelled" has no containers and gets none.
THEOREM CancelledNeverRuns == Spec => []CancelledStaysDown
PROOF
  <1>1. IInv => CancelledStaysDown
    BY DEF IInv, TypeOK, CancelledIsMarked, CancelledStaysDown
  <1> QED BY <1>1, Invariance, PTL

\* The stop tool leaves no unfinished job without a mark.
THEOREM StopMissesNoJob == Spec => []StopReachesEveryJob
PROOF
  <1>1. IInv => StopReachesEveryJob
    BY RunsAssumption DEF IInv, LoopCovers, StopReachesEveryJob, Known
  <1> QED BY <1>1, Invariance, PTL

\* Containers start only for a job without a result.
THEOREM NothingEvaluatedTwice == Spec => EvaluatedOnce
PROOF
  <1>1. ASSUME IInv, [Next]_vars, NEW r \in Runs, r \in containers' \ containers
        PROVE  result[r] = "none"
    <2>1. \E q \in Runs : JobStep(q)
      <3>1. CASE UNCHANGED vars
        BY <1>1, <3>1 DEF vars
      <3>2. CASE Stopping
        <4>1. CASE Recover
          BY <1>1, <4>1, RecoverMoves DEF IInv
        <4>2. CASE ToolRemoves
          BY <1>1, <4>2 DEF ToolRemoves
        <4>3. CASE ~Recover /\ ~ToolRemoves
          BY <1>1, <3>2, <4>3 DEF Stopping, Stop, Look, Terminate, AbortAll, Exit, Resume, ToolStops, ToolKills, ToolLooksAgain
        <4> QED BY <4>1, <4>2, <4>3
      <3> QED BY <1>1, <3>1, <3>2 DEF Next, JobStep
    <2>2. PICK q \in Runs : JobStep(q)
      BY <2>1
    <2>3. RunHarness(q) /\ q = r
      <3>1. CASE Request(q)
        <4>1. CASE CancelEnds(q)
          BY <1>1, <4>1, CancelEndsMoves DEF IInv
        <4>2. CASE ~CancelEnds(q)
          BY <1>1, <3>1, <4>2 DEF Request, Admit, Repost, PrepareImages, Accept, ImagesArrive, LeaveWindow, Cancel
        <4> QED BY <4>1, <4>2
      <3>2. CASE Task(q) /\ ~RunHarness(q)
        BY <1>1, <3>2 DEF Task, Retry, Begin, RemoveStale, HarnessEnds, CleanUp, SaveResult, Deliver,
           UploadEvidence, Complete, Unwind, End, Cancelled, Set
      <3>3. CASE RunHarness(q)
        BY <1>1, <3>3 DEF RunHarness
      <3>4. CASE Flush(q)
        BY <1>1, <3>4 DEF Flush
      <3> QED BY <2>2, <3>1, <3>2, <3>3, <3>4 DEF JobStep
    <2> QED BY <1>1, <2>3 DEF RunHarness, IInv, ResultIsNew, Unevaluated
  <1>2. IInv /\ [Next]_vars => [\A r \in Runs : r \in containers' \ containers => result[r] = "none"]_vars
    BY <1>1
  <1> QED BY <1>2, Invariance, PTL DEF Spec, EvaluatedOnce

=============================================================================
