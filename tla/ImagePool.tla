------------------------------ MODULE ImagePool ------------------------------
(***************************************************************************)
(* The image pool of the Evaluator service: jobs acquire Docker images,    *)
(* windows of jobs to come protect and prefetch them, and images nobody    *)
(* uses are evicted when space runs short.                                 *)
(*                                                                         *)
(* A change of the pool's state is one atomic step, saved before the next. *)
(* What Docker is asked to do happens between such steps, and outlives the *)
(* pool when it loses its connection or dies.  Each image has one spec,    *)
(* here, all have one size and one estimate of it, which may be wrong.     *)
(***************************************************************************)
EXTENDS Integers, Sequences, FiniteSets, Functions

CONSTANTS
  Images,
  Owners, Needs,    \* the jobs, and the images each needs, in order
  References,       \* how many references an image has to fall back on
  MaxPulls,
  Disk, ImageSize,  \* units of space: the disk's, and what an image takes
  Estimate,         \* what the estimator expects an image to take
  ReservePercent,
  NoImage,
  Foreign,          \* images that somebody else may tag, too
  Windowed,         \* bound: the images that windows may protect
  MaxFaults         \* bound: crashes, broken connections, interference in Docker

ASSUME ImagesAssumption ==
  /\ IsFiniteSet(Images) /\ NoImage \notin Images /\ Foreign \cup Windowed \subseteq Images
  /\ Needs \in [Owners -> Seq(Images) \ {<<>>}] /\ References \in Nat \ {0}
ASSUME SpaceAssumption ==
  /\ MaxPulls \in Nat \ {0} /\ Disk \in Nat /\ ImageSize \in Nat /\ Estimate \in Nat \ {0}
  /\ ReservePercent \in 1..99 /\ MaxFaults \in Nat

VARIABLES
  docker,       \* how Docker has an image: by its "own" and by "other" references
  pulling,      \* images that Docker pulls
  lingering,    \* images Docker may still remove for a pool that went away
  image,        \* state.images
  operations,   \* state.operations
  windows,      \* images that a window protects
  work,         \* inflight: the preparation of an image
  acquire,      \* where an owner's acquisition is
  gc,           \* gcRunning: the image under eviction and the step
  up, faults

daemonVars == <<docker, pulling, lingering>>
stateVars == <<image, operations, windows>>
processVars == <<work, acquire, gc>>
vars == <<daemonVars, stateVars, processVars, up, faults>>

-----------------------------------------------------------------------------
Unknown == [known |-> FALSE, owned |-> FALSE, users |-> {}, state |-> "kept"]
NoWork == [at |-> "none", prefetch |-> FALSE, slot |-> FALSE, ref |-> 1, outcome |-> "none"]
Idle == [at |-> "idle", next |-> 1, again |-> FALSE]
NoGc == [of |-> NoImage, at |-> "none"]

Init ==
  /\ docker = [i \in Images |-> {}] /\ pulling = {} /\ lingering = {}
  /\ image = [i \in Images |-> Unknown]
  /\ operations = [i \in Images |-> "none"]
  /\ windows = {}
  /\ work = [i \in Images |-> NoWork]
  /\ acquire = [o \in Owners |-> Idle]
  /\ gc = NoGc
  /\ up = TRUE /\ faults = 0

-----------------------------------------------------------------------------
(* What the pool asks of its state                                         *)

Present(i) == docker[i] # {}
Acquiring == {o \in Owners : acquire[o].at \notin {"idle", "held", "reclaim"}}
demanded == UNION {Range(Needs[o]) : o \in Acquiring}
Alive(i) == i \in windows \cup demanded
Slots == {i \in Images : work[i].slot}
Uncertain == \E i \in Images : operations[i] = "uncertain"

Size(S) == ImageSize * Cardinality(S)
Used == {i \in Images : Present(i)}
Occupied == Size({i \in Images : image[i].owned})
SetAside == {i \in Images : operations[i] # "none"}
Reserved == Estimate * Cardinality(SetAside)

\* What is free when of the pulls under way some fill their space already.
Free(partial) == LET left == Disk - Size(Used \cup partial) IN IF left > 0 THEN left ELSE 0

\* budget(extra).enough
Room(extra) ==
  {LET free == Free(partial) IN
     100 * free >= ReservePercent * (free + Occupied) + 100 * (Reserved + extra) :
   partial \in SUBSET pulling}

Need(i) == IF work[i].at = "reserve" THEN Estimate ELSE 0

\* A prefetch stands back for the jobs, unless one of them wants its image, too.
\* Mutant: it stands back for the job that waits for it.
StandsBackAlways(i) == work[i].prefetch /\ Acquiring # {}
StandsBack(i) == work[i].prefetch /\ i \notin demanded /\ Acquiring # {}

\* Mutant: an image without users is free, whoever is just preparing it.
UnusedCandidates(allowPrepared) ==
  {i \in Images : image[i].owned /\ image[i].state = "kept" /\ image[i].users = {}}
Candidates(allowPrepared) ==
  {i \in Images :
     /\ image[i].owned /\ image[i].state = "kept" /\ image[i].users = {}
     /\ i \notin demanded /\ work[i].at = "none"
     /\ allowPrepared \/ i \notin windows}

Exhausted(i) == FALSE \in Room(Need(i)) /\ gc = NoGc /\ Candidates(~work[i].prefetch) = {}

-----------------------------------------------------------------------------
(* prepareOnce                                                             *)

\* The step that begins looks whether Docker has the image.
Start(i, prefetch) ==
  work' = [work EXCEPT ![i] = [NoWork EXCEPT !.prefetch = prefetch,
                                             !.at = IF "own" \in docker[i] THEN "resolve" ELSE "reserve"]]
At(i, place) == work' = [work EXCEPT ![i].at = place]
Ends(i, outcome) == work' = [work EXCEPT ![i].at = "finish", ![i].outcome = outcome]

Prefetch(i) ==
  /\ up /\ i \in windows /\ work[i].at = "none"
  /\ Start(i, TRUE)
  /\ UNCHANGED <<daemonVars, stateVars, acquire, gc, up, faults>>

\* reserve: a pull begins with a slot and with its space set aside.
Reserve(i) ==
  /\ work[i].at = "reserve" /\ Alive(i) /\ ~StandsBack(i) /\ ~Uncertain
  /\ Cardinality(Slots) < MaxPulls
  /\ work[i].prefetch /\ i \notin demanded => ~\E j \in Slots : work[j].prefetch
  /\ TRUE \in Room(Need(i))
  /\ operations' = [operations EXCEPT ![i] = "active"]
  /\ work' = [work EXCEPT ![i].at = "pull", ![i].slot = TRUE]
  /\ UNCHANGED <<daemonVars, image, windows, acquire, gc, up, faults>>

\* The wait for space or a slot times out.
TimesOut(i) ==
  /\ work[i].at = "reserve"
  /\ Ends(i, "failed")
  /\ UNCHANGED <<daemonVars, stateVars, acquire, gc, up, faults>>

\* Nobody wants it any more, pulls are suspended, or nothing is left to evict.
Refuse(i) ==
  /\ work[i].at \in {"reserve", "pull"}
  /\ \/ ~Alive(i)
     \/ work[i].at = "reserve" /\ ~StandsBack(i) /\ Uncertain
     \/ (work[i].at = "reserve" => ~StandsBack(i)) /\ Exhausted(i)
  /\ Ends(i, "failed")
  /\ UNCHANGED <<daemonVars, stateVars, acquire, gc, up, faults>>

Pull(i) ==
  /\ work[i].at = "pull" /\ Alive(i) /\ TRUE \in Room(0)
  /\ pulling' = pulling \cup {i}
  /\ At(i, "pulling")
  /\ UNCHANGED <<docker, lingering, stateVars, acquire, gc, up, faults>>

\* Docker has answered: the image is there, the disk was full, or the next reference
\* is tried.
Pulled(i) ==
  /\ work[i].at = "pulling" /\ i \notin pulling
  /\ IF "own" \in docker[i] THEN At(i, "resolve")
     ELSE IF work[i].outcome = "full" THEN At(i, "finish")
     ELSE IF work[i].ref < References THEN work' = [work EXCEPT ![i].at = "pull", ![i].ref = @ + 1]
     ELSE Ends(i, "failed")
  /\ UNCHANGED <<daemonVars, stateVars, acquire, gc, up, faults>>

\* The connection breaks while Docker pulls.
LosePull(i) ==
  /\ work[i].at = "pulling" /\ faults < MaxFaults
  /\ operations' = [operations EXCEPT ![i] = "uncertain"]
  /\ Ends(i, "failed")
  /\ faults' = faults + 1
  /\ UNCHANGED <<daemonVars, image, windows, acquire, gc, up>>

Resolvable(i) == Present(i) /\ image[i].state \notin {"deleting", "uncertain"}

\* The image is recorded, unless it is being evicted or is gone again.
Resolve(i) ==
  /\ work[i].at = "resolve"
  /\ IF Resolvable(i)
       THEN /\ image' = [image EXCEPT ![i].known = TRUE, ![i].owned = @ \/ work[i].slot]
            /\ operations' = IF work[i].slot THEN [operations EXCEPT ![i] = "completed"] ELSE operations
            /\ Ends(i, "ok")
       ELSE Ends(i, "retry") /\ UNCHANGED <<image, operations>>
  /\ UNCHANGED <<daemonVars, windows, acquire, gc, up, faults>>

Waiters(i) == {o \in Owners : acquire[o].at = "waiting" /\ Needs[o][acquire[o].next] = i}

Released(S) == [i \in Images |-> [image[i] EXCEPT !.users = @ \ S]]

\* Slot and space are given back; every job that waits for this work hears of it, and
\* one that fails releases what it has: only a first "retry" is tried again, and when the
\* disk was full the service is to reclaim an image.
Finish(i) ==
  /\ work[i].at = "finish"
  /\ operations' = IF work[i].slot /\ operations[i] # "uncertain" THEN [operations EXCEPT ![i] = "none"] ELSE operations
  /\ work' = [work EXCEPT ![i] = NoWork]
  /\ LET Served == IF work[i].outcome = "ok" THEN Waiters(i) ELSE {}
         Again == IF work[i].outcome = "retry" THEN {o \in Waiters(i) : ~acquire[o].again} ELSE {}
         Failed == Waiters(i) \ (Served \cup Again) IN
       /\ image' = Released(Failed)
       /\ acquire' = [o \in Owners |->
            CASE o \in Served -> [acquire[o] EXCEPT !.at = "register"]
              [] o \in Again -> [acquire[o] EXCEPT !.at = "retry"]
              [] o \in Failed -> [Idle EXCEPT !.at = IF work[i].outcome = "full" THEN "reclaim" ELSE "idle"]
              [] OTHER -> acquire[o]]
  /\ UNCHANGED <<daemonVars, windows, gc, up, faults>>

-----------------------------------------------------------------------------
(* acquire and release                                                     *)

\* Mutant: off by one.
PrepareNext(o, n, again) == LET i == Needs[o][n] IN
  /\ IF work[i].at = "none" THEN Start(i, FALSE) ELSE UNCHANGED work
  /\ acquire' = [acquire EXCEPT ![o] = [at |-> "waiting", next |-> n + 1, again |-> again]]

\* prepare: begin to work on an image, or join the work under way.
Prepare(o, n, again) == LET i == Needs[o][n] IN
  /\ IF work[i].at = "none" THEN Start(i, FALSE) ELSE UNCHANGED work
  /\ acquire' = [acquire EXCEPT ![o] = [at |-> "waiting", next |-> n, again |-> again]]

Acquire(o) ==
  /\ up /\ acquire[o].at = "idle"
  /\ Prepare(o, 1, FALSE)
  /\ UNCHANGED <<daemonVars, stateVars, gc, up, faults>>

\* An image was just being evicted: once more, after the eviction.
PrepareAgain(o) ==
  /\ acquire[o].at = "retry" /\ gc = NoGc
  /\ Prepare(o, acquire[o].next, TRUE)
  /\ UNCHANGED <<daemonVars, stateVars, gc, up, faults>>

Register(o) == LET n == acquire[o].next IN
  /\ acquire[o].at = "register"
  /\ image[Needs[o][n]].known
  /\ image' = [image EXCEPT ![Needs[o][n]].users = @ \cup {o}]
  /\ IF n < Len(Needs[o]) THEN Prepare(o, n + 1, FALSE)
     ELSE acquire' = [acquire EXCEPT ![o] = [Idle EXCEPT !.at = "trim"]] /\ UNCHANGED work
  /\ UNCHANGED <<daemonVars, operations, windows, gc, up, faults>>

Release(o) ==
  /\ image' = Released({o})
  /\ acquire' = [acquire EXCEPT ![o] = Idle]
  /\ UNCHANGED <<daemonVars, operations, windows, work, gc, up, faults>>

\* With all images: others are evicted until there is room, or it fails.
Trim(o) ==
  /\ acquire[o].at = "trim"
  /\ \/ /\ TRUE \in Room(0)
        /\ acquire' = [acquire EXCEPT ![o] = [Idle EXCEPT !.at = "held"]]
        /\ UNCHANGED <<daemonVars, stateVars, work, gc, up, faults>>
     \/ FALSE \in Room(0) /\ gc = NoGc /\ Candidates(TRUE) = {} /\ Release(o)

\* Its signal aborts it, or the wait for an image times out; the work goes on.
Cancel(o) == o \in Acquiring /\ Release(o)

\* The job has ended, or start-up finds that it is gone.
EndJob(o) == up /\ acquire[o].at \in {"idle", "held"} /\ (\E i \in Images : o \in image[i].users) /\ Release(o)

\* updateWindow, replaceWindows, and windows that expire.
SetWindows ==
  /\ up
  /\ windows' \in SUBSET Windowed
  /\ UNCHANGED <<daemonVars, image, operations, processVars, up, faults>>

-----------------------------------------------------------------------------
(* evictCandidate                                                          *)

\* Jobs and maintenance that lack space may evict what windows protect.
Short ==
  \/ FALSE \in Room(0)
  \/ \E i \in Images : work[i].at = "reserve" /\ ~work[i].prefetch /\ FALSE \in Room(Need(i))

PrefetchLacks == \E i \in Images : work[i].at \in {"reserve", "pull"} /\ work[i].prefetch /\ FALSE \in Room(Need(i))

Evicts(i, allowPrepared) ==
  /\ up /\ gc = NoGc /\ i \in Candidates(allowPrepared)
  /\ i \in windows => Candidates(TRUE) \subseteq windows
  /\ image' = [image EXCEPT ![i].state = "deleting"]
  /\ windows' = IF allowPrepared THEN windows \ {i} ELSE windows
  /\ gc' = [of |-> i, at |-> "check"]
  /\ UNCHANGED <<daemonVars, operations, work, up, faults>>

Choose(i, allowPrepared) ==
  /\ allowPrepared => Short
  /\ Evicts(i, allowPrepared)
  /\ UNCHANGED acquire

\* prepareBeforeAdmission: the disk was full under a job's pull, so the service evicts
\* one image, whatever the budget says, or waits for the eviction under way.
Reclaim(o) ==
  /\ acquire[o].at = "reclaim"
  /\ acquire' = [acquire EXCEPT ![o] = Idle]
  /\ \/ \E i \in Images : Evicts(i, TRUE)
     \/ /\ gc # NoGc \/ Candidates(TRUE) = {}
        /\ UNCHANGED <<daemonVars, stateVars, work, gc, up, faults>>

Leave(i, state) == image' = [image EXCEPT ![i].state = state] /\ gc' = NoGc

\* References that are not the pool's keep the image, and so does a container's use.
Check == LET i == gc.of IN
  /\ gc.at = "check"
  /\ \/ /\ "other" \notin docker[i]
        /\ gc' = [gc EXCEPT !.at = IF Present(i) THEN "remove" ELSE "forget"]
        /\ UNCHANGED <<image, faults>>
     \/ "other" \in docker[i] /\ Leave(i, "resting") /\ UNCHANGED faults
     \/ Present(i) /\ faults < MaxFaults /\ Leave(i, "resting") /\ faults' = faults + 1
  /\ UNCHANGED <<daemonVars, operations, windows, work, acquire, up>>

Remove ==
  /\ gc.at = "remove"
  /\ docker' = [docker EXCEPT ![gc.of] = @ \ {"own"}]
  /\ IF "other" \in docker[gc.of] THEN Leave(gc.of, "resting")
     ELSE gc' = [gc EXCEPT !.at = "forget"] /\ UNCHANGED image
  /\ UNCHANGED <<pulling, lingering, operations, windows, work, acquire, up, faults>>

\* Mutant: a removal of unknown outcome is taken for one that failed.
LoseRemovalLightly ==
  /\ gc.at \in {"check", "remove"} /\ faults < MaxFaults
  /\ lingering' = IF gc.at = "remove" THEN lingering \cup {gc.of} ELSE lingering
  /\ Leave(gc.of, "resting")
  /\ faults' = faults + 1
  /\ UNCHANGED <<docker, pulling, operations, windows, work, acquire, up>>

\* The connection breaks: Docker may remove the image yet, so nobody may use it.
LoseRemoval ==
  /\ gc.at \in {"check", "remove"} /\ faults < MaxFaults
  /\ lingering' = IF gc.at = "remove" THEN lingering \cup {gc.of} ELSE lingering
  /\ Leave(gc.of, "uncertain")
  /\ faults' = faults + 1
  /\ UNCHANGED <<docker, pulling, operations, windows, work, acquire, up>>

Forget ==
  /\ gc.at = "forget"
  /\ image' = [image EXCEPT ![gc.of] = Unknown]
  /\ gc' = NoGc
  /\ UNCHANGED <<daemonVars, operations, windows, work, acquire, up, faults>>

\* retryAfter has passed.
Rested(i) ==
  /\ up /\ image[i].state = "resting"
  /\ image' = [image EXCEPT ![i].state = "kept"]
  /\ UNCHANGED <<daemonVars, operations, windows, processVars, up, faults>>

-----------------------------------------------------------------------------
(* Docker, which goes on with what it began; crash and start-up            *)

\* A pull ends with the image, with an error, or on a disk that it and the others fill.
DockerPulls(i) ==
  /\ i \in pulling
  /\ pulling' = pulling \ {i}
  /\ \/ /\ Size(Used \cup {i}) <= Disk
        /\ docker' = [docker EXCEPT ![i] = @ \cup {"own"}] /\ UNCHANGED work
     \/ UNCHANGED <<docker, work>>
     \/ /\ Size(Used \cup pulling) > Disk /\ work[i].at = "pulling"
        /\ work' = [work EXCEPT ![i].outcome = "full"] /\ UNCHANGED docker
  /\ UNCHANGED <<lingering, stateVars, acquire, gc, up, faults>>

DockerRemoves(i) ==
  /\ i \in lingering
  /\ lingering' = lingering \ {i}
  /\ docker' \in {docker, [docker EXCEPT ![i] = @ \ {"own"}]}
  /\ UNCHANGED <<pulling, stateVars, processVars, up, faults>>

\* Somebody else gives an image a name of its own.
Tag(i) ==
  /\ i \in Foreign /\ Present(i) /\ faults < MaxFaults
  /\ docker' = [docker EXCEPT ![i] = @ \cup {"other"}]
  /\ faults' = faults + 1
  /\ UNCHANGED <<pulling, lingering, stateVars, processVars, up>>

Crash ==
  /\ up /\ faults < MaxFaults
  /\ up' = FALSE /\ faults' = faults + 1
  /\ lingering' = IF gc.at = "remove" THEN lingering \cup {gc.of} ELSE lingering
  /\ work' = [i \in Images |-> NoWork] /\ acquire' = [o \in Owners |-> Idle] /\ gc' = NoGc
  /\ UNCHANGED <<docker, pulling, stateVars>>

\* Mutant: what a dead pool was pulling is taken for ended.
ForgottenOperations == [i \in Images |-> "none"]
InterruptedOperations ==
  [i \in Images |-> IF operations[i] \in {"active", "uncertain"} THEN "uncertain" ELSE "none"]

\* Pulls and removals that were interrupted stay suspect.
initialize ==
  /\ ~up /\ up' = TRUE
  /\ image' = [i \in Images |->
       IF ~Present(i) THEN Unknown
       ELSE IF image[i].state = "deleting" THEN [image[i] EXCEPT !.state = "uncertain"] ELSE image[i]]
  /\ operations' = InterruptedOperations
  /\ UNCHANGED <<daemonVars, windows, processVars, faults>>

-----------------------------------------------------------------------------
Work(i) == Reserve(i) \/ Refuse(i) \/ Pull(i) \/ Pulled(i) \/ Resolve(i) \/ Finish(i)

Job(o) == PrepareAgain(o) \/ Register(o) \/ Trim(o)

Select(allowPrepared) == \E i \in Images : Choose(i, allowPrepared)

Evict == Check \/ Remove \/ Forget

Next ==
  \/ \E i \in Images :
       \/ Work(i) \/ Prefetch(i) \/ TimesOut(i) \/ LosePull(i) \/ DockerPulls(i)
       \/ Rested(i) \/ DockerRemoves(i) \/ Tag(i)
  \/ \E o \in Owners : Job(o) \/ Reclaim(o) \/ Acquire(o) \/ Cancel(o) \/ EndJob(o)
  \/ \E allowPrepared \in BOOLEAN : Select(allowPrepared)
  \/ Evict \/ LoseRemoval \/ SetWindows \/ Crash \/ initialize

Spec == Init /\ [][Next]_vars

\* The loops and awaits go on, Docker answers; no timeout and no abort is counted on.
Fairness ==
  /\ \A i \in Images : SF_vars(Work(i)) /\ WF_vars(DockerPulls(i))
  /\ \A o \in Owners : SF_vars(Job(o)) /\ WF_vars(Reclaim(o))
  /\ WF_vars(Evict \/ Select(TRUE) \/ (PrefetchLacks /\ Select(FALSE)))

FairSpec == Spec /\ Fairness

-----------------------------------------------------------------------------
(* Properties                                                              *)

\* Records, operations and work are as the code knows them.
TypeOK ==
  /\ docker \in [Images -> SUBSET {"own", "other"}] /\ pulling \subseteq Images /\ lingering \subseteq Images
  /\ image \in [Images -> [known : BOOLEAN, owned : BOOLEAN, users : SUBSET Owners,
                           state : {"kept", "deleting", "uncertain", "resting"}]]
  /\ operations \in [Images -> {"none", "active", "completed", "uncertain"}]
  /\ windows \subseteq Images
  /\ work \in [Images -> [at : {"none", "reserve", "pull", "pulling", "resolve", "finish"},
                          prefetch : BOOLEAN, slot : BOOLEAN, ref : 1..References,
                          outcome : {"none", "ok", "retry", "failed", "full"}]]
  /\ \A o \in Owners :
       /\ acquire[o].at \in {"idle", "waiting", "retry", "register", "trim", "held", "reclaim"}
       /\ acquire[o].next \in 1..Len(Needs[o]) /\ acquire[o].again \in BOOLEAN
  /\ gc \in [of : Images \cup {NoImage}, at : {"none", "check", "remove", "forget"}]
  /\ up \in BOOLEAN /\ faults \in 0..MaxFaults

\* An image a job is registered for is in Docker and no removal of it is under way,
\* not even one that a lost connection or a dead pool has left to Docker.
UsedImageStays ==
  \A i \in Images :
    image[i].users # {} => Present(i) /\ image[i].state \in {"kept", "resting"} /\ i \notin lingering

\* Between the step that resolves an image and the one that registers its job nothing
\* evicts it, although the evictor chooses and removes in steps of its own.
ResolvedImageStays ==
  \A o \in Owners :
    acquire[o].at = "register" =>
      LET i == Needs[o][acquire[o].next] IN
        image[i].known /\ Present(i) /\ image[i].state \in {"kept", "resting"}

\* No pull goes on in Docker that the pool does not count: its space stays set aside, and
\* counted pulls stay within MaxPulls, also after a lost connection or a restart that
\* finds pulls still running and although their slots are given back.
PullsAreCounted == pulling \subseteq SetAside /\ Cardinality(SetAside) <= MaxPulls

\* An acquisition ends, with its images or with an error, without its timeout: jobs,
\* prefetches and the evictor do not wait for each other in a circle.
AcquireEnds == \A o \in Owners : o \in Acquiring ~> o \notin Acquiring
=============================================================================
