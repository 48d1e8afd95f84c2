-------------------------- MODULE ImagePoolProofs --------------------------
(***************************************************************************)
(* Theorems about ImagePool, for every finite set of images, every set of  *)
(* jobs and what they need, every disk, image size and estimate, every     *)
(* number of slots and references, and every bound on the faults.          *)
(***************************************************************************)
EXTENDS ImagePool, FiniteSetTheorems, TLAPS

-----------------------------------------------------------------------------
(* The inductive invariant                                                 *)

ImageRecords == [known : BOOLEAN, owned : BOOLEAN, users : SUBSET Owners,
                 state : {"kept", "deleting", "uncertain", "resting"}]
WorkRecords == [at : {"none", "reserve", "pull", "pulling", "resolve", "finish"},
                prefetch : BOOLEAN, slot : BOOLEAN, ref : 1..References,
                outcome : {"none", "ok", "retry", "failed", "full"}]
AcquireRecords == [at : {"idle", "waiting", "retry", "register", "trim", "held", "reclaim"},
                   next : Nat, again : BOOLEAN]

DaemonTypes ==
  docker \in [Images -> SUBSET {"own", "other"}] /\ pulling \subseteq Images /\ lingering \subseteq Images
StateTypes ==
  /\ image \in [Images -> ImageRecords]
  /\ operations \in [Images -> {"none", "active", "completed", "uncertain"}]
  /\ windows \subseteq Images
WorkTypes == work \in [Images -> WorkRecords]
AcquireTypes ==
  /\ acquire \in [Owners -> AcquireRecords]
  /\ \A o \in Owners : acquire[o].next \in 1..Len(Needs[o])
OtherTypes ==
  /\ gc \in [of : Images \cup {NoImage}, at : {"none", "check", "remove", "forget"}]
  /\ up \in BOOLEAN /\ faults \in 0..MaxFaults

Types == DaemonTypes /\ StateTypes /\ WorkTypes /\ AcquireTypes /\ OtherTypes

\* What is under eviction is marked so, and there until it is removed.
GcFits ==
  gc.at # "none" => /\ up /\ gc.of \in Images /\ image[gc.of].state = "deleting"
                    /\ gc.at = "remove" => Present(gc.of)

\* A pool that is down does nothing.
DownFits ==
  ~up => /\ \A i \in Images : work[i].at = "none" /\ ~work[i].slot
         /\ \A o \in Owners : acquire[o].at = "idle"
         /\ gc.at = "none"

\* What Docker may remove yet is there, and nobody may use it.
LingerFits ==
  \A i \in lingering : /\ Present(i)
                       /\ image[i].state = "uncertain" \/ (~up /\ image[i].state = "deleting")

\* Space stays set aside for what Docker pulls, whoever began the pull.
PullFits(i) ==
  /\ operations[i] \in {"active", "completed"} => (up => work[i].slot)
  /\ i \in pulling => \/ operations[i] = "uncertain"
                      \/ (operations[i] = "active" /\ (up => work[i].at = "pulling"))
  /\ work[i].at \in {"pull", "pulling"} => work[i].slot
  /\ (work[i].slot /\ work[i].at # "finish") => operations[i] = "active"
  /\ work[i].at = "none" => ~work[i].slot
PullsFit == \A i \in Images : PullFits(i)

\* Counted pulls stay within the slots, as none begins while one is in doubt.
CountFits == Cardinality(SetAside) <= MaxPulls

EstimateCovers == ImageSize <= Estimate
SpaceFits == EstimateCovers => Size(Used \cup SetAside) <= Disk

\* Who uses an image, is about to, or was just told that it is ready.
Safe(i) == Present(i) /\ image[i].state \in {"kept", "resting"} /\ i \notin lingering
Ready(i) == Safe(i) /\ image[i].known
UsersFit == \A i \in Images : image[i].users # {} => Safe(i)
WorkReady == \A i \in Images : work[i].at = "finish" /\ work[i].outcome = "ok" => Ready(i)
RegisterReady == \A o \in Owners : acquire[o].at = "register" => Ready(Needs[o][acquire[o].next])

IInv == /\ Types /\ GcFits /\ DownFits /\ LingerFits /\ PullsFit /\ CountFits /\ SpaceFits
        /\ UsersFit /\ WorkReady /\ RegisterReady

-----------------------------------------------------------------------------
(* Lemmas about the operators                                              *)

\* The first image a job needs exists, and so does each on its way.
LEMMA NeedsImages ==
  ASSUME NEW o \in Owners
  PROVE  /\ Len(Needs[o]) \in Nat \ {0}
         /\ \A n \in 1..Len(Needs[o]) : Needs[o][n] \in Images
PROOF
  <1>1. Needs[o] \in Seq(Images) /\ Needs[o] # <<>>
    BY ImagesAssumption
  <1> QED BY <1>1

\* A job that waits for an image, is about to register for it, or tries again needs it.
LEMMA AcquiringDemands ==
  ASSUME Types, NEW o \in Owners, acquire[o].at \notin {"idle", "held", "reclaim"}
  PROVE  Needs[o][acquire[o].next] \in demanded
PROOF
  <1>1. acquire[o].next \in 1..Len(Needs[o]) /\ Needs[o] \in Seq(Images)
    BY ImagesAssumption DEF Types, AcquireTypes
  <1>2. Needs[o][acquire[o].next] \in Range(Needs[o])
    BY <1>1 DEF Range
  <1> QED BY <1>2 DEF demanded, Acquiring

\* Space is monotone in the images that take it.
LEMMA SizeSubset ==
  ASSUME NEW S, NEW T, S \subseteq T, T \subseteq Images
  PROVE  Size(S) \in Nat /\ Size(T) \in Nat /\ Size(S) <= Size(T)
PROOF
  <1>1. IsFiniteSet(T) /\ IsFiniteSet(S)
    BY ImagesAssumption, FS_Subset
  <1>2. Cardinality(S) \in Nat /\ Cardinality(T) \in Nat /\ Cardinality(S) <= Cardinality(T)
    BY <1>1, FS_Subset, FS_CardinalityType
  <1>3. \A a, b, c \in Nat : a <= b => c * a <= c * b /\ c * a \in Nat /\ c * b \in Nat
    OBVIOUS
  <1> QED BY <1>2, <1>3, SpaceAssumption DEF Size

\* One more element adds at most one.
LEMMA AddOne ==
  ASSUME NEW S, IsFiniteSet(S), NEW x
  PROVE  Cardinality(S \cup {x}) \in Nat /\ Cardinality(S \cup {x}) <= Cardinality(S) + 1
PROOF
  <1>1. Cardinality(S) \in Nat
    BY FS_CardinalityType
  <1>2. CASE x \in S
    <2>1. S \cup {x} = S
      BY <1>2
    <2> QED BY <1>1, <2>1
  <1>3. CASE x \notin S
    <2>1. Cardinality(S \cup {x}) = Cardinality(S) + 1
      BY <1>3, FS_AddElement
    <2> QED BY <1>1, <2>1
  <1> QED BY <1>2, <1>3

\* Sets take together at most what they take one by one.
LEMMA SizeUnion ==
  ASSUME NEW S \in SUBSET Images, NEW T \in SUBSET Images
  PROVE  /\ Size(S \cup T) <= Size(S) + Size(T)
         /\ \A i \in Images : Size(S \cup {i}) <= Size(S) + ImageSize
         /\ Size(S) \in Nat /\ Size(T) \in Nat /\ Size(S \cup T) \in Nat
PROOF
  <1>1. IsFiniteSet(S) /\ IsFiniteSet(T)
    BY ImagesAssumption, FS_Subset
  <1>2. /\ IsFiniteSet(S \cup T) /\ IsFiniteSet(S \cap T)
        /\ Cardinality(S \cup T) = Cardinality(S) + Cardinality(T) - Cardinality(S \cap T)
    BY <1>1, FS_Union, FS_Intersection
  <1>3. /\ Cardinality(S) \in Nat /\ Cardinality(T) \in Nat
        /\ Cardinality(S \cap T) \in Nat /\ Cardinality(S \cup T) \in Nat
    BY <1>1, <1>2, FS_CardinalityType
  <1>4. Cardinality(S \cup T) <= Cardinality(S) + Cardinality(T)
    BY <1>2, <1>3
  <1>5. ASSUME NEW i \in Images
        PROVE  Cardinality(S \cup {i}) \in Nat /\ Cardinality(S \cup {i}) <= Cardinality(S) + 1
    BY <1>1, AddOne
  <1>6. \A a, b, c, d \in Nat : a <= b + c => d * a <= d * b + d * c /\ d * a \in Nat
    OBVIOUS
  <1>7. \A a, b, d \in Nat : a <= b + 1 => d * a <= d * b + d
    OBVIOUS
  <1> QED BY <1>3, <1>4, <1>5, <1>6, <1>7, SpaceAssumption DEF Size

\* A budget that is enough leaves the space set aside, and the reserve besides.
LEMMA EnoughIsFree ==
  ASSUME NEW free \in Int, NEW taken \in Nat, NEW extra \in Nat,
         100 * free >= ReservePercent * (free + taken) + 100 * extra
  PROVE  free >= extra
PROOF
  <1> DEFINE R == ReservePercent
  <1>1. R \in 1..99
    BY SpaceAssumption
  <1>2. R * (free + taken) = R * free + R * taken /\ R * taken \in Nat /\ R * free \in Int
    BY <1>1
  <1>3. CASE free >= 0
    <2>1. R * free >= 0
      BY <1>1, <1>3
    <2> QED BY <1>2, <2>1
  <1>4. CASE free < 0
    <2>1. R * free >= 99 * free
      BY <1>1, <1>4
    <2> HIDE DEF R
    <2>2. 100 * free >= R * free + R * taken + 100 * extra
      BY <1>2 DEF R
    <2> QED BY <1>2, <1>4, <2>1, <2>2
  <1> QED BY <1>3, <1>4

\* A job leaves the images it used; nothing else of them changes.
LEMMA ReleasedKeeps ==
  ASSUME image \in [Images -> ImageRecords], NEW S, image' = Released(S)
  PROVE  /\ image' \in [Images -> ImageRecords]
         /\ \A i \in Images : /\ image'[i].known = image[i].known /\ image'[i].owned = image[i].owned
                              /\ image'[i].state = image[i].state /\ image'[i].users \subseteq image[i].users
PROOF
  <1>1. \A i \in Images : image[i] \in ImageRecords
    OBVIOUS
  <1>2. ASSUME NEW i \in Images
        PROVE  LET r == [image[i] EXCEPT !.users = @ \ S] IN
                 /\ r \in ImageRecords /\ r.known = image[i].known /\ r.owned = image[i].owned
                 /\ r.state = image[i].state /\ r.users \subseteq image[i].users
    BY <1>1 DEF ImageRecords
  <1> QED BY <1>2 DEF Released

\* An image that is resolved is known, and all else but its owner stays.
LEMMA ResolveKeeps ==
  ASSUME image \in [Images -> ImageRecords], NEW i \in Images, NEW slot,
         image' = [image EXCEPT ![i].known = TRUE, ![i].owned = @ \/ slot]
  PROVE  /\ image' \in [Images -> ImageRecords]
         /\ image'[i].known /\ image'[i].users = image[i].users /\ image'[i].state = image[i].state
         /\ \A j \in Images \ {i} : image'[j] = image[j]
PROOF
  <1>1. ASSUME NEW own, own \in BOOLEAN, image' = [image EXCEPT ![i].known = TRUE, ![i].owned = own]
        PROVE  /\ image' \in [Images -> ImageRecords]
               /\ image'[i].known /\ image'[i].users = image[i].users /\ image'[i].state = image[i].state
               /\ \A j \in Images \ {i} : image'[j] = image[j]
    <2> DEFINE r == [image[i] EXCEPT !.known = TRUE, !.owned = own]
    <2>1. image' = [image EXCEPT ![i] = r]
      BY <1>1
    <2>2. image[i] \in ImageRecords
      OBVIOUS
    <2>3. r \in ImageRecords /\ r.known /\ r.users = image[i].users /\ r.state = image[i].state
      BY <1>1, <2>2 DEF ImageRecords
    <2> HIDE DEF r
    <2> QED BY <2>1, <2>3
  <1>2. CASE image[i].owned \/ slot
    <2>1. image' = [image EXCEPT ![i].known = TRUE, ![i].owned = TRUE]
      BY <1>2
    <2> QED BY <1>1, <2>1
  <1>3. CASE ~(image[i].owned \/ slot)
    <2>1. image' = [image EXCEPT ![i].known = TRUE, ![i].owned = FALSE]
      BY <1>3
    <2> QED BY <1>1, <2>1
  <1> QED BY <1>2, <1>3

\* A job that registers is one more user of the image; nothing else of any changes.
LEMMA RegisterKeeps ==
  ASSUME image \in [Images -> ImageRecords], NEW o \in Owners, Register(o)
  PROVE  /\ image' \in [Images -> ImageRecords]
         /\ \A j \in Images : image'[j].known = image[j].known /\ image'[j].state = image[j].state
PROOF
  <1> DEFINE i == Needs[o][acquire[o].next]
             r == [image[i] EXCEPT !.users = @ \cup {o}]
  <1>1. image' = [image EXCEPT ![i] = r]
    BY DEF Register
  <1>2. CASE i \in Images
    <2>1. image[i] \in ImageRecords
      BY <1>2
    <2> HIDE DEF i
    <2>2. r \in ImageRecords /\ r.known = image[i].known /\ r.state = image[i].state
      BY <2>1 DEF ImageRecords
    <2> HIDE DEF r
    <2> QED BY <1>1, <2>2
  <1>3. CASE i \notin Images
    <2> HIDE DEF r, i
    <2> QED BY <1>1, <1>3
  <1> QED BY <1>2, <1>3

\* Jobs leave Docker, operations, windows and the eviction alone.
LEMMA JobLeaves ==
  ASSUME NEW o \in Owners, Job(o) \/ Acquire(o) \/ Cancel(o) \/ EndJob(o)
  PROVE  UNCHANGED <<docker, pulling, lingering, operations, windows, gc, up, faults>>
PROOF
  <1> USE DEF daemonVars, stateVars
  <1>1. CASE Release(o)
    BY <1>1 DEF Release
  <1>2. CASE Trim(o)
    BY <1>1, <1>2 DEF Trim
  <1>3. CASE Register(o)
    BY <1>3 DEF Register
  <1>4. CASE PrepareAgain(o)
    BY <1>4 DEF PrepareAgain
  <1>5. CASE Acquire(o)
    BY <1>5 DEF Acquire
  <1> QED BY <1>1, <1>2, <1>3, <1>4, <1>5 DEF Job, Cancel, EndJob

\* Images that work is done on, jobs, and an eviction that begins, for whomever.
ImageStep == \E i \in Images : \/ Work(i) \/ Prefetch(i) \/ TimesOut(i) \/ LosePull(i)
                               \/ DockerPulls(i) \/ Rested(i) \/ DockerRemoves(i) \/ Tag(i)
JobStep == \E o \in Owners : Job(o) \/ Acquire(o) \/ Cancel(o) \/ EndJob(o)
Evicted == \E i \in Images, a \in BOOLEAN : Evicts(i, a)
Concluded == UNCHANGED <<daemonVars, stateVars, work, gc, up, faults>>
Rests == \/ UNCHANGED acquire
         \/ \E o \in Owners : acquire[o].at = "reclaim" /\ acquire' = [acquire EXCEPT ![o] = Idle]

\* A job that reclaims begins an eviction, as the evictor does, or leaves all as it is.
LEMMA NextSplits ==
  ASSUME Next
  PROVE  \/ ImageStep \/ JobStep \/ Evict \/ LoseRemoval \/ SetWindows \/ Crash \/ initialize
         \/ (Evicted \/ Concluded) /\ Rests
PROOF
  <1>1. ASSUME NEW a \in BOOLEAN, Select(a) PROVE Evicted /\ Rests
    BY <1>1 DEF Select, Choose, Evicted, Rests
  <1>2. ASSUME NEW o \in Owners, Reclaim(o) PROVE (Evicted \/ Concluded) /\ Rests
    <2>1. Rests
      BY <1>2 DEF Reclaim, Rests
    <2>2. Evicted \/ Concluded
      BY <1>2 DEF Reclaim, Evicted, Concluded
    <2> QED BY <2>1, <2>2
  <1> QED BY <1>1, <1>2 DEF Next, ImageStep, JobStep

\* Preparations ask Docker for pulls, and set space aside; the eviction they leave alone.
LEMMA WorkLeaves ==
  ASSUME NEW i \in Images, Work(i) \/ Prefetch(i) \/ TimesOut(i) \/ LosePull(i)
  PROVE  UNCHANGED <<docker, lingering, windows, gc, up>>
PROOF
  <1> USE DEF daemonVars, stateVars
  <1>1. CASE Reserve(i) \/ Refuse(i)
    BY <1>1 DEF Reserve, Refuse
  <1>2. CASE Pull(i) \/ Pulled(i)
    BY <1>2 DEF Pull, Pulled
  <1>3. CASE Resolve(i)
    BY <1>3 DEF Resolve
  <1>4. CASE Finish(i)
    BY <1>4 DEF Finish
  <1>5. CASE Prefetch(i) \/ TimesOut(i) \/ LosePull(i)
    BY <1>5 DEF Prefetch, TimesOut, LosePull
  <1> QED BY <1>1, <1>2, <1>3, <1>4, <1>5 DEF Work

-----------------------------------------------------------------------------
(* Types                                                                   *)

\* What Docker has changes where Docker is asked, or goes on by itself.
LEMMA DaemonTypesKept ==
  ASSUME Types, GcFits, Next
  PROVE  DaemonTypes'
PROOF
  <1> USE DEF Types, DaemonTypes, daemonVars
  <1>1. ASSUME UNCHANGED daemonVars PROVE DaemonTypes'
    BY <1>1
  <1>2. ASSUME NEW i \in Images, Work(i) \/ Prefetch(i) \/ TimesOut(i) \/ LosePull(i) PROVE DaemonTypes'
    <2>1. CASE Pull(i)
      BY <2>1 DEF Pull
    <2> QED BY <1>1, <1>2, <2>1 DEF Work, Reserve, Refuse, Pulled, Resolve, Finish, Prefetch, TimesOut, LosePull
  <1>3. ASSUME NEW i \in Images, DockerPulls(i) PROVE DaemonTypes'
    BY <1>3 DEF DockerPulls
  <1>4. ASSUME NEW i \in Images, DockerRemoves(i) PROVE DaemonTypes'
    BY <1>4 DEF DockerRemoves
  <1>5. ASSUME NEW i \in Images, Tag(i) PROVE DaemonTypes'
    BY <1>5 DEF Tag
  <1>6. ASSUME NEW o \in Owners, Job(o) \/ Acquire(o) \/ Cancel(o) \/ EndJob(o) PROVE DaemonTypes'
    BY <1>1, <1>6, JobLeaves
  <1>7. CASE Evict
    <2>1. CASE Remove
      BY <2>1 DEF Remove
    <2> QED BY <1>1, <1>7, <2>1 DEF Evict, Check, Forget
  <1>8. CASE LoseRemoval
    BY <1>8 DEF LoseRemoval, GcFits
  <1>9. CASE Crash
    BY <1>9 DEF Crash, GcFits
  <1>10. (SetWindows \/ initialize \/ Evicted \/ Concluded) => DaemonTypes'
    BY <1>1 DEF SetWindows, initialize, Evicted, Evicts, Concluded
  <1>11. \A i \in Images : Rested(i) => DaemonTypes'
    BY <1>1 DEF Rested
  <1> QED BY <1>2, <1>3, <1>4, <1>5, <1>6, <1>7, <1>8, <1>9, <1>10, <1>11, NextSplits DEF ImageStep, JobStep

\* The saved state stays well formed.
LEMMA StateTypesKept ==
  ASSUME Types, GcFits, Next
  PROVE  StateTypes'
PROOF
  <1> USE DEF Types, StateTypes, stateVars, Leave
  <1>1. ASSUME UNCHANGED stateVars PROVE StateTypes'
    BY <1>1
  <1>2. ASSUME NEW i \in Images, Work(i) \/ Prefetch(i) \/ TimesOut(i) \/ LosePull(i) PROVE StateTypes'
    <2>1. CASE Reserve(i)
      BY <2>1 DEF Reserve
    <2>2. CASE Resolve(i)
      BY <2>2, ResolveKeeps DEF Resolve
    <2>3. CASE Finish(i)
      <3>1. image' \in [Images -> ImageRecords]
        BY <2>3, ReleasedKeeps DEF Finish
      <3> QED BY <2>3, <3>1 DEF Finish
    <2>4. CASE LosePull(i)
      BY <2>4 DEF LosePull
    <2> QED BY <1>1, <1>2, <2>1, <2>2, <2>3, <2>4 DEF Work, Refuse, Pull, Pulled, Prefetch, TimesOut
  <1>3. ASSUME NEW i \in Images, DockerPulls(i) \/ DockerRemoves(i) \/ Tag(i) PROVE StateTypes'
    BY <1>1, <1>3 DEF DockerPulls, DockerRemoves, Tag
  <1>4. ASSUME NEW i \in Images, Rested(i) PROVE StateTypes'
    BY <1>4 DEF Rested, ImageRecords
  <1>5. ASSUME NEW o \in Owners, Job(o) \/ Acquire(o) \/ Cancel(o) \/ EndJob(o) PROVE StateTypes'
    <2>1. CASE Register(o)
      <3>1. image' \in [Images -> ImageRecords]
        BY <2>1, RegisterKeeps
      <3> QED BY <2>1, <3>1 DEF Register
    <2>2. CASE Release(o)
      <3>1. image' \in [Images -> ImageRecords]
        BY <2>2, ReleasedKeeps DEF Release
      <3> QED BY <2>2, <3>1 DEF Release
    <2> QED BY <1>1, <1>5, <2>1, <2>2 DEF Job, Acquire, PrepareAgain, Trim, Cancel, EndJob
  <1>6. CASE Check
    BY <1>6 DEF Check, ImageRecords
  <1>7. CASE Remove
    BY <1>7 DEF Remove, ImageRecords
  <1>8. CASE Forget
    <2>1. Unknown \in ImageRecords
      BY DEF Unknown, ImageRecords
    <2>2. image' = [image EXCEPT ![gc.of] = Unknown] /\ UNCHANGED <<operations, windows>>
      BY <1>8 DEF Forget
    <2> QED BY <2>1, <2>2
  <1>9. CASE LoseRemoval
    BY <1>9 DEF LoseRemoval, ImageRecords
  <1>10. ASSUME Evicted PROVE StateTypes'
    <2>1. PICK i \in Images : image' = [image EXCEPT ![i].state = "deleting"]
      BY <1>10 DEF Evicted, Evicts
    <2>2. image' \in [Images -> ImageRecords]
      BY <2>1 DEF ImageRecords
    <2>3. windows' \subseteq windows /\ UNCHANGED operations
      BY <1>10 DEF Evicted, Evicts
    <2> QED BY <2>2, <2>3
  <1>14. CASE Concluded
    BY <1>1, <1>14 DEF Concluded
  <1>11. CASE SetWindows
    BY <1>11, ImagesAssumption DEF SetWindows
  <1>12. CASE Crash
    BY <1>1, <1>12 DEF Crash
  <1>13. CASE initialize
    <2>1. image' \in [Images -> ImageRecords]
      BY <1>13 DEF initialize, Unknown, ImageRecords
    <2>2. operations' \in [Images -> {"none", "active", "completed", "uncertain"}]
      BY <1>13 DEF initialize, InterruptedOperations
    <2> QED BY <1>13, <2>1, <2>2 DEF initialize
  <1> QED BY <1>2, <1>3, <1>4, <1>5, <1>6, <1>7, <1>8, <1>9, <1>10, <1>11, <1>12, <1>13, <1>14, NextSplits
          DEF ImageStep, JobStep, Evict

\* A preparation begins without a slot.
LEMMA StartFits ==
  ASSUME WorkTypes, NEW i \in Images, Start(i, TRUE) \/ Start(i, FALSE)
  PROVE  /\ WorkTypes'
         /\ \A j \in Images \ {i} : work'[j] = work[j]
         /\ work'[i].at \in {"resolve", "reserve"} /\ ~work'[i].slot
PROOF
  <1> DEFINE place == IF "own" \in docker[i] THEN "resolve" ELSE "reserve"
             w == [at |-> place, prefetch |-> TRUE, slot |-> FALSE, ref |-> 1, outcome |-> "none"]
             v == [at |-> place, prefetch |-> FALSE, slot |-> FALSE, ref |-> 1, outcome |-> "none"]
  <1>1. place \in {"resolve", "reserve"}
    OBVIOUS
  <1>2. /\ w \in WorkRecords /\ w.at = place /\ ~w.slot
        /\ v \in WorkRecords /\ v.at = place /\ ~v.slot
    BY <1>1, ImagesAssumption DEF WorkRecords
  <1>3. CASE Start(i, TRUE)
    <2>1. work' = [work EXCEPT ![i] = w]
      BY <1>3 DEF NoWork, Start
    <2> HIDE DEF w, place
    <2> QED BY <1>1, <1>2, <2>1 DEF WorkTypes
  <1>4. CASE Start(i, FALSE)
    <2>1. work' = [work EXCEPT ![i] = v]
      BY <1>4 DEF NoWork, Start
    <2> HIDE DEF v, place
    <2> QED BY <1>1, <1>2, <2>1 DEF WorkTypes
  <1> QED BY <1>3, <1>4

\* A job that turns to an image begins its preparation or joins it.
LEMMA PrepareFits ==
  ASSUME Types, NEW o \in Owners, NEW n \in 1..Len(Needs[o]), NEW again \in BOOLEAN, Prepare(o, n, again)
  PROVE  /\ WorkTypes' /\ AcquireTypes'
         /\ \A p \in Owners \ {o} : acquire'[p] = acquire[p]
         /\ acquire'[o].at = "waiting" /\ acquire'[o].next = n
         /\ \A j \in Images : \/ work'[j] = work[j]
                              \/ /\ work[j].at = "none"
                                 /\ work'[j].at \in {"resolve", "reserve"} /\ ~work'[j].slot
PROOF
  <1> DEFINE i == Needs[o][n]
             a == [at |-> "waiting", next |-> n, again |-> again]
  <1>1. i \in Images /\ n \in Nat
    BY NeedsImages
  <1>2. acquire' = [acquire EXCEPT ![o] = a] /\ a \in AcquireRecords /\ a.next = n /\ a.at = "waiting"
    BY <1>1 DEF Prepare, AcquireRecords
  <1>3. work' = work \/ (work[i].at = "none" /\ Start(i, FALSE))
    BY DEF Prepare
  <1> HIDE DEF a, i
  <1>4. AcquireTypes'
    BY <1>2 DEF Types, AcquireTypes
  <1>5. CASE work' = work
    BY <1>2, <1>4, <1>5 DEF Types, AcquireTypes, WorkTypes
  <1>6. CASE work[i].at = "none" /\ Start(i, FALSE)
    BY <1>1, <1>2, <1>4, <1>6, StartFits DEF Types, AcquireTypes
  <1> QED BY <1>3, <1>5, <1>6

\* Preparations stay well formed.
LEMMA WorkTypesKept ==
  ASSUME Types, Next
  PROVE  WorkTypes'
PROOF
  <1> USE DEF Types, WorkTypes, processVars
  <1>1. ASSUME UNCHANGED work PROVE WorkTypes'
    BY <1>1
  <1>2. ASSUME NEW i \in Images, Work(i) \/ Prefetch(i) \/ TimesOut(i) \/ LosePull(i) PROVE WorkTypes'
    <2>1. ASSUME NEW place \in {"none", "reserve", "pull", "pulling", "resolve", "finish"}, At(i, place)
          PROVE  WorkTypes'
      BY <2>1 DEF At, WorkRecords
    <2>2. ASSUME NEW outcome \in {"none", "ok", "retry", "failed", "full"}, Ends(i, outcome) PROVE WorkTypes'
      <3> DEFINE w == [work[i] EXCEPT !.at = "finish", !.outcome = outcome]
      <3>1. work' = [work EXCEPT ![i] = w]
        BY <2>2 DEF Ends
      <3>2. work[i] \in WorkRecords
        OBVIOUS
      <3>3. w \in WorkRecords
        BY <3>2 DEF WorkRecords
      <3> HIDE DEF w
      <3> QED BY <3>1, <3>3
    <2>3. CASE Reserve(i)
      <3> DEFINE w == [work[i] EXCEPT !.at = "pull", !.slot = TRUE]
      <3>1. work' = [work EXCEPT ![i] = w]
        BY <2>3 DEF Reserve
      <3>2. work[i] \in WorkRecords
        OBVIOUS
      <3>3. w \in WorkRecords
        BY <3>2 DEF WorkRecords
      <3> HIDE DEF w
      <3> QED BY <3>1, <3>3
    <2>4. CASE Pulled(i)
      <3>1. CASE work[i].ref < References /\ work' = [work EXCEPT ![i].at = "pull", ![i].ref = @ + 1]
        BY <3>1, ImagesAssumption DEF WorkRecords
      <3> QED BY <2>1, <2>2, <2>4, <3>1 DEF Pulled
    <2>5. CASE Finish(i)
      BY <2>5, ImagesAssumption DEF Finish, NoWork, WorkRecords
    <2>6. CASE Prefetch(i)
      BY <2>6, StartFits DEF Prefetch
    <2> QED BY <1>2, <2>1, <2>2, <2>3, <2>4, <2>5, <2>6 DEF Work, Refuse, Pull, Resolve, TimesOut, LosePull
  <1>3. ASSUME NEW i \in Images, DockerPulls(i) \/ Rested(i) \/ DockerRemoves(i) \/ Tag(i) PROVE WorkTypes'
    <2>1. CASE work' = [work EXCEPT ![i].outcome = "full"]
      BY <2>1 DEF WorkRecords
    <2> QED BY <1>1, <1>3, <2>1 DEF DockerPulls, Rested, DockerRemoves, Tag
  <1>4. ASSUME NEW o \in Owners, NEW n \in 1..Len(Needs[o]), NEW again \in BOOLEAN, Prepare(o, n, again)
        PROVE  WorkTypes'
    BY <1>4, PrepareFits
  <1>5. ASSUME NEW o \in Owners, Job(o) \/ Acquire(o) \/ Cancel(o) \/ EndJob(o) PROVE WorkTypes'
    <2>1. acquire[o].next \in 1..Len(Needs[o]) /\ acquire[o].next \in Nat /\ Len(Needs[o]) \in Nat \ {0}
      BY NeedsImages DEF AcquireTypes
    <2>2. CASE Register(o)
      <3>1. CASE acquire[o].next < Len(Needs[o])
        <4>1. acquire[o].next + 1 \in 1..Len(Needs[o])
          BY <2>1, <3>1
        <4> QED BY <1>4, <2>2, <3>1, <4>1 DEF Register
      <3> QED BY <1>1, <2>2, <3>1 DEF Register
    <2>3. CASE Acquire(o) \/ PrepareAgain(o)
      <3>1. 1 \in 1..Len(Needs[o])
        BY <2>1
      <3> QED BY <1>4, <2>1, <2>3, <3>1 DEF Acquire, PrepareAgain
    <2> QED BY <1>1, <1>5, <2>2, <2>3 DEF Job, Trim, Cancel, EndJob, Release
  <1>6. CASE Crash
    BY <1>6, ImagesAssumption DEF Crash, NoWork, WorkRecords
  <1>7. CASE Evict \/ LoseRemoval \/ SetWindows \/ initialize \/ Evicted \/ Concluded
    BY <1>1, <1>7 DEF Evict, Check, Remove, Forget, LoseRemoval, SetWindows, initialize,
              Evicted, Evicts, Concluded
  <1> QED BY <1>2, <1>3, <1>5, <1>6, <1>7, NextSplits DEF ImageStep, JobStep

\* A job is idle, or at an image that it needs.
LEMMA AcquireTypesKept ==
  ASSUME Types, Next
  PROVE  AcquireTypes'
PROOF
  <1> USE DEF Types, AcquireTypes, processVars
  <1>1. ASSUME UNCHANGED acquire PROVE AcquireTypes'
    BY <1>1
  <1>2. ASSUME NEW i \in Images, Finish(i) PROVE AcquireTypes'
    <2> DEFINE Next1(o) == [acquire[o] EXCEPT !.at = "register"]
               Next2(o) == [acquire[o] EXCEPT !.at = "retry"]
               Next3 == [Idle EXCEPT !.at = "reclaim"]
    <2>0. Next3 \in AcquireRecords /\ Next3.next = Idle.next
      BY DEF Idle, AcquireRecords
    <2>1. \A o \in Owners : /\ Next1(o) \in AcquireRecords /\ Next1(o).next = acquire[o].next
                            /\ Next2(o) \in AcquireRecords /\ Next2(o).next = acquire[o].next
      BY DEF AcquireRecords
    <2>2. Idle \in AcquireRecords /\ \A o \in Owners : Idle.next \in 1..Len(Needs[o])
      BY NeedsImages DEF Idle, AcquireRecords
    <2>3. \A o \in Owners : acquire'[o] \in {Next1(o), Next2(o), Idle, Next3, acquire[o]}
      <3>1. [Idle EXCEPT !.at = "idle"] = Idle
        BY DEF Idle
      <3> QED BY <1>2, <3>1 DEF Finish
    <2>4. DOMAIN acquire' = Owners /\ acquire' = [o \in Owners |-> acquire'[o]]
      BY <1>2 DEF Finish
    <2> HIDE DEF Next1, Next2, Next3
    <2> QED BY <2>0, <2>1, <2>2, <2>3, <2>4
  <1>3. ASSUME NEW i \in Images, \/ Work(i) \/ Prefetch(i) \/ TimesOut(i) \/ LosePull(i)
                                 \/ DockerPulls(i) \/ Rested(i) \/ DockerRemoves(i) \/ Tag(i)
        PROVE  AcquireTypes'
    BY <1>1, <1>2, <1>3 DEF Work, Reserve, Refuse, Pull, Pulled, Resolve, Prefetch, TimesOut, LosePull,
       DockerPulls, Rested, DockerRemoves, Tag
  <1>4. ASSUME NEW o \in Owners, NEW n \in 1..Len(Needs[o]), NEW again \in BOOLEAN, Prepare(o, n, again)
        PROVE  AcquireTypes'
    BY <1>4, PrepareFits
  <1>5. ASSUME NEW o \in Owners, NEW a, a \in {Idle, [Idle EXCEPT !.at = "trim"], [Idle EXCEPT !.at = "held"]},
               acquire' = [acquire EXCEPT ![o] = a]
        PROVE  AcquireTypes'
    <2>1. Idle \in AcquireRecords /\ Idle.next = 1
      BY DEF Idle, AcquireRecords
    <2>2. [Idle EXCEPT !.at = "trim"] \in AcquireRecords /\ [Idle EXCEPT !.at = "trim"].next = 1
      BY DEF Idle, AcquireRecords
    <2>3. [Idle EXCEPT !.at = "held"] \in AcquireRecords /\ [Idle EXCEPT !.at = "held"].next = 1
      BY DEF Idle, AcquireRecords
    <2>4. a \in AcquireRecords /\ a.next = 1
      BY <1>5, <2>1, <2>2, <2>3
    <2> QED BY <1>5, <2>4, NeedsImages
  <1>6. ASSUME NEW o \in Owners, Job(o) \/ Acquire(o) \/ Cancel(o) \/ EndJob(o) PROVE AcquireTypes'
    <2>1. acquire[o].next \in 1..Len(Needs[o]) /\ acquire[o].next \in Nat /\ Len(Needs[o]) \in Nat \ {0}
      BY NeedsImages
    <2>2. CASE Register(o)
      <3>1. CASE acquire[o].next < Len(Needs[o])
        <4>1. acquire[o].next + 1 \in 1..Len(Needs[o])
          BY <2>1, <3>1
        <4> QED BY <1>4, <2>2, <3>1, <4>1 DEF Register
      <3> QED BY <1>5, <2>2, <3>1 DEF Register
    <2>3. CASE Acquire(o) \/ PrepareAgain(o)
      <3>1. 1 \in 1..Len(Needs[o])
        BY <2>1
      <3> QED BY <1>4, <2>1, <2>3, <3>1 DEF Acquire, PrepareAgain
    <2>4. CASE Release(o) \/ Trim(o)
      BY <1>5, <2>4 DEF Release, Trim
    <2> QED BY <1>6, <2>2, <2>3, <2>4 DEF Job, Cancel, EndJob
  <1>7. CASE Crash
    <2>1. Idle \in AcquireRecords /\ \A o \in Owners : Idle.next \in 1..Len(Needs[o])
      BY NeedsImages DEF Idle, AcquireRecords
    <2> QED BY <1>7, <2>1 DEF Crash
  <1>8. CASE Evict \/ LoseRemoval \/ SetWindows \/ initialize
    BY <1>1, <1>8 DEF Evict, Check, Remove, Forget, LoseRemoval, SetWindows, initialize
  <1>9. CASE Rests
    BY <1>1, <1>5, <1>9 DEF Rests
  <1> QED BY <1>3, <1>6, <1>7, <1>8, <1>9, NextSplits DEF ImageStep, JobStep

\* The eviction under way, the pool and the faults.
LEMMA OtherTypesKept ==
  ASSUME Types, Next
  PROVE  OtherTypes'
PROOF
  <1> USE SpaceAssumption DEF Types, OtherTypes, processVars, Leave, NoGc
  <1>1. ASSUME UNCHANGED <<gc, up>>, faults' = faults \/ (faults < MaxFaults /\ faults' = faults + 1)
        PROVE  OtherTypes'
    BY <1>1
  <1>2. ASSUME NEW i \in Images, \/ Work(i) \/ Prefetch(i) \/ TimesOut(i) \/ LosePull(i)
                                 \/ DockerPulls(i) \/ Rested(i) \/ DockerRemoves(i) \/ Tag(i)
        PROVE  OtherTypes'
    BY <1>1, <1>2 DEF Work, Reserve, Refuse, Pull, Pulled, Resolve, Finish, Prefetch, TimesOut, LosePull,
       DockerPulls, Rested, DockerRemoves, Tag
  <1>3. ASSUME NEW o \in Owners, Job(o) \/ Acquire(o) \/ Cancel(o) \/ EndJob(o) PROVE OtherTypes'
    BY <1>1, <1>3, JobLeaves
  <1>4. CASE Check
    BY <1>4 DEF Check
  <1>5. CASE Remove
    BY <1>5 DEF Remove
  <1>6. CASE Forget
    BY <1>6 DEF Forget
  <1>7. CASE LoseRemoval
    BY <1>7 DEF LoseRemoval
  <1>8. ASSUME Evicted PROVE OtherTypes'
    <2>1. PICK i \in Images : gc' = [of |-> i, at |-> "check"]
      BY <1>8 DEF Evicted, Evicts
    <2>2. UNCHANGED <<up, faults>>
      BY <1>8 DEF Evicted, Evicts
    <2> QED BY <2>1, <2>2
  <1>9. CASE SetWindows \/ Concluded
    BY <1>1, <1>9 DEF SetWindows, Concluded
  <1>10. CASE Crash
    <2>1. up' = FALSE /\ gc' = NoGc /\ faults < MaxFaults /\ faults' = faults + 1
      BY <1>10 DEF Crash
    <2>2. up' \in BOOLEAN
      BY <2>1
    <2>3. gc' \in [of : Images \cup {NoImage}, at : {"none", "check", "remove", "forget"}]
      BY <2>1
    <2>4. faults' \in 0..MaxFaults
      BY <2>1
    <2> QED BY <2>2, <2>3, <2>4
  <1>11. CASE initialize
    <2>1. up' = TRUE /\ UNCHANGED <<gc, faults>>
      BY <1>11 DEF initialize
    <2> QED BY <2>1
  <1> QED BY <1>2, <1>3, <1>4, <1>5, <1>6, <1>7, <1>8, <1>9, <1>10, <1>11, NextSplits
          DEF ImageStep, JobStep, Evict

\* So all of it stays well formed.
LEMMA TypesKept ==
  ASSUME Types, GcFits, Next
  PROVE  Types'
PROOF BY DaemonTypesKept, StateTypesKept, WorkTypesKept, AcquireTypesKept, OtherTypesKept DEF Types

-----------------------------------------------------------------------------
(* The eviction, and a pool that is down                                   *)

\* What is marked for removal is left so but by its eviction.
LEMMA GcFitsKept ==
  ASSUME IInv, Next
  PROVE  GcFits'
PROOF
  <1> USE DEF IInv, GcFits, Leave, NoGc, daemonVars, stateVars, processVars
  <1>0. Types /\ gc.at \in {"none", "check", "remove", "forget"}
    BY DEF Types, OtherTypes
  <1>1. ASSUME UNCHANGED <<gc, up>>,
               \A i \in Images : /\ image[i].state = "deleting" => image'[i].state = "deleting"
                                 /\ Present(i) => Present(i)'
        PROVE  GcFits'
    BY <1>1
  <1>2. ASSUME NEW i \in Images, Work(i) \/ Prefetch(i) \/ TimesOut(i) \/ LosePull(i) PROVE GcFits'
    <2>1. UNCHANGED <<gc, up, docker>>
      BY <1>2, WorkLeaves
    <2>2. \A j \in Images : image'[j].state = image[j].state
      <3>1. CASE Resolve(i)
        BY <3>1, ResolveKeeps DEF Resolve, Types, StateTypes
      <3>2. CASE Finish(i)
        BY <3>2, ReleasedKeeps DEF Finish, Types, StateTypes
      <3> QED BY <1>2, <3>1, <3>2 DEF Work, Reserve, Refuse, Pull, Pulled, Prefetch, TimesOut, LosePull
    <2> QED BY <1>1, <2>1, <2>2 DEF Present
  <1>3. ASSUME NEW i \in Images, DockerPulls(i) PROVE GcFits'
    BY <1>1, <1>3 DEF DockerPulls, Present, Types, DaemonTypes
  <1>4. ASSUME NEW i \in Images, DockerRemoves(i) PROVE GcFits'
    <2>1. gc.at # "none" => i # gc.of
      BY <1>4 DEF DockerRemoves, LingerFits
    <2> QED BY <1>4, <2>1 DEF DockerRemoves, Present, Types, DaemonTypes
  <1>5. ASSUME NEW i \in Images, Rested(i) PROVE GcFits'
    BY <1>1, <1>5 DEF Rested, Types, StateTypes, ImageRecords, Present
  <1>6. ASSUME NEW i \in Images, Tag(i) PROVE GcFits'
    BY <1>1, <1>6 DEF Tag, Present, Types, DaemonTypes
  <1>7. ASSUME NEW o \in Owners, Job(o) \/ Acquire(o) \/ Cancel(o) \/ EndJob(o) PROVE GcFits'
    <2>1. UNCHANGED <<gc, up, docker>>
      BY <1>7, JobLeaves
    <2>2. \A j \in Images : image'[j].state = image[j].state
      <3>1. CASE Register(o)
        BY <3>1, RegisterKeeps DEF Types, StateTypes
      <3>2. CASE Release(o)
        BY <3>2, ReleasedKeeps DEF Release, Types, StateTypes
      <3> QED BY <1>7, <3>1, <3>2 DEF Job, Acquire, PrepareAgain, Trim, Cancel, EndJob
    <2> QED BY <1>1, <2>1, <2>2 DEF Present
  <1>8. CASE Check
    BY <1>0, <1>8 DEF Check, Present, Types, OtherTypes
  <1>9. CASE Remove
    BY <1>9 DEF Remove, Types, OtherTypes
  <1>10. CASE Forget \/ LoseRemoval \/ Crash
    BY <1>10 DEF Forget, LoseRemoval, Crash
  <1>11. ASSUME Evicted PROVE GcFits'
    <2>1. PICK i \in Images : gc' = [of |-> i, at |-> "check"] /\ image' = [image EXCEPT ![i].state = "deleting"]
      BY <1>11 DEF Evicted, Evicts
    <2>2. up /\ UNCHANGED up
      BY <1>11 DEF Evicted, Evicts
    <2> QED BY <2>1, <2>2 DEF Types, StateTypes, ImageRecords
  <1>12. CASE SetWindows \/ Concluded
    BY <1>1, <1>12 DEF SetWindows, Concluded, Present
  <1>13. CASE initialize
    BY <1>13 DEF initialize
  <1> QED BY <1>2, <1>3, <1>4, <1>5, <1>6, <1>7, <1>8, <1>9, <1>10, <1>11, <1>12, <1>13, NextSplits
          DEF ImageStep, JobStep, Evict

\* Nothing begins while the pool is down.
LEMMA DownFitsKept ==
  ASSUME IInv, Next
  PROVE  DownFits'
PROOF
  <1> USE DEF IInv, DownFits, daemonVars, stateVars, processVars
  <1>1. CASE up'
    BY <1>1
  <1>2. CASE ~up' /\ up
    <2>1. Crash
      <3>1. \A i \in Images : ~(DockerPulls(i) \/ Rested(i) \/ DockerRemoves(i) \/ Tag(i))
        BY <1>2 DEF DockerPulls, Rested, DockerRemoves, Tag
      <3>2. ~(Evict \/ LoseRemoval \/ SetWindows \/ initialize \/ Evicted \/ Concluded)
        BY <1>2 DEF Evict, Evicted, Evicts, Concluded, Check, Remove, Forget, LoseRemoval, SetWindows, initialize
      <3> QED BY <1>2, <3>1, <3>2, WorkLeaves, JobLeaves, NextSplits DEF ImageStep, JobStep
    <2> QED BY <2>1 DEF Crash, NoWork, Idle, NoGc
  <1>3. CASE ~up' /\ ~up
    <2>1. UNCHANGED processVars
      <3>1. \A i \in Images : work[i].at = "none"
        BY <1>3
      <3>2. \A o \in Owners : acquire[o].at = "idle"
        BY <1>3
      <3>3. gc.at = "none"
        BY <1>3
      <3>4. ASSUME NEW i \in Images
            PROVE  ~(Work(i) \/ Prefetch(i) \/ TimesOut(i) \/ LosePull(i) \/ Rested(i))
        BY <1>3, <3>1 DEF Work, Reserve, Refuse, Pull, Pulled, Resolve, Finish, Prefetch, TimesOut, LosePull, Rested
      <3>5. ASSUME NEW o \in Owners
            PROVE  ~(Job(o) \/ Acquire(o) \/ Cancel(o) \/ EndJob(o))
        BY <1>3, <3>2 DEF Job, PrepareAgain, Register, Trim, Acquire, Cancel, EndJob, Acquiring
      <3>6. ~(Evict \/ LoseRemoval \/ SetWindows \/ Crash \/ initialize \/ Evicted)
        BY <1>3, <3>3 DEF Evict, Check, Remove, Forget, LoseRemoval, SetWindows, Crash, initialize,
              Evicted, Evicts, Concluded
      <3>7. Concluded /\ Rests => UNCHANGED processVars
        BY <3>2 DEF Concluded, Rests
      <3> QED BY <3>1, <3>4, <3>5, <3>6, <3>7, NextSplits
              DEF ImageStep, JobStep, DockerPulls, DockerRemoves, Tag
    <2> QED BY <1>3, <2>1
  <1> QED BY <1>1, <1>2, <1>3

-----------------------------------------------------------------------------
(* What Docker goes on with                                                *)

\* How a step changes the states of the images.
Kept(i) == image'[i].state = image[i].state

\* Jobs and preparations leave the state of every image, and what users it has but
\* for the job that registers.
LEMMA StatesLeft ==
  ASSUME Types,
         \/ \E i \in Images : Work(i) \/ Prefetch(i) \/ TimesOut(i) \/ LosePull(i)
         \/ \E o \in Owners : Job(o) \/ Acquire(o) \/ Cancel(o) \/ EndJob(o)
  PROVE  /\ \A i \in Images : Kept(i) /\ (image[i].known => image'[i].known)
         /\ UNCHANGED <<docker, lingering, gc, up>>
PROOF
  <1> USE DEF Kept, Types, StateTypes, daemonVars, stateVars
  <1>1. ASSUME NEW i \in Images, Work(i) \/ Prefetch(i) \/ TimesOut(i) \/ LosePull(i)
        PROVE  /\ \A j \in Images : Kept(j) /\ (image[j].known => image'[j].known)
               /\ UNCHANGED <<docker, lingering, gc, up>>
    <2>1. UNCHANGED <<docker, lingering, gc, up>>
      BY <1>1, WorkLeaves
    <2>2. CASE Resolve(i)
      BY <2>1, <2>2, ResolveKeeps DEF Resolve
    <2>3. CASE Finish(i)
      BY <2>1, <2>3, ReleasedKeeps DEF Finish
    <2> QED BY <1>1, <2>1, <2>2, <2>3 DEF Work, Reserve, Refuse, Pull, Pulled, Prefetch, TimesOut, LosePull
  <1>2. ASSUME NEW o \in Owners, Job(o) \/ Acquire(o) \/ Cancel(o) \/ EndJob(o)
        PROVE  /\ \A j \in Images : Kept(j) /\ (image[j].known => image'[j].known)
               /\ UNCHANGED <<docker, lingering, gc, up>>
    <2>1. UNCHANGED <<docker, lingering, gc, up>>
      BY <1>2, JobLeaves
    <2>2. CASE Register(o)
      BY <2>1, <2>2, RegisterKeeps
    <2>3. CASE Release(o)
      BY <2>1, <2>3, ReleasedKeeps DEF Release
    <2> QED BY <1>2, <2>1, <2>2, <2>3 DEF Job, Acquire, PrepareAgain, Trim, Cancel, EndJob
  <1> QED BY <1>1, <1>2

\* What may be removed yet is there, and stays marked.
LEMMA LingerFitsKept ==
  ASSUME IInv, Next
  PROVE  LingerFits'
PROOF
  <1> USE DEF IInv, LingerFits, Leave, NoGc, stateVars, processVars
  <1>0. Types
    OBVIOUS
  <1>1. ASSUME UNCHANGED up, lingering' \subseteq lingering,
               \A i \in lingering : Present(i)' /\ (i \in lingering' => image'[i].state = image[i].state)
        PROVE  LingerFits'
    BY <1>1
  <1>2. ASSUME NEW i \in Images, Work(i) \/ Prefetch(i) \/ TimesOut(i) \/ LosePull(i) PROVE LingerFits'
    BY <1>0, <1>2, StatesLeft DEF Kept, Present, Types, DaemonTypes
  <1>3. ASSUME NEW o \in Owners, Job(o) \/ Acquire(o) \/ Cancel(o) \/ EndJob(o) PROVE LingerFits'
    BY <1>0, <1>3, StatesLeft DEF Kept, Present, Types, DaemonTypes
  <1>4. ASSUME NEW i \in Images, DockerPulls(i) PROVE LingerFits'
    BY <1>4 DEF DockerPulls, Present, Types, DaemonTypes
  <1>5. ASSUME NEW i \in Images, DockerRemoves(i) PROVE LingerFits'
    BY <1>5 DEF DockerRemoves, Present, Types, DaemonTypes
  <1>6. ASSUME NEW i \in Images, Tag(i) PROVE LingerFits'
    BY <1>6 DEF Tag, Present, Types, DaemonTypes
  <1>7. ASSUME NEW i \in Images, Rested(i) PROVE LingerFits'
    BY <1>7 DEF Rested, Present, daemonVars, Types, StateTypes, DaemonTypes, ImageRecords
  <1>8. CASE Check \/ Forget
    <2>1. gc.of \notin lingering /\ gc.of \in Images /\ up
      BY <1>8 DEF Check, Forget, GcFits
    <2>2. \A i \in Images \ {gc.of} : image'[i] = image[i]
      BY <1>8 DEF Check, Forget, Types, StateTypes
    <2>3. UNCHANGED <<docker, lingering, up>>
      BY <1>8 DEF Check, Forget, daemonVars
    <2> QED BY <2>1, <2>2, <2>3 DEF Present, Types, DaemonTypes
  <1>9. CASE Remove
    <2>1. gc.of \notin lingering /\ gc.of \in Images /\ up
      BY <1>9 DEF Remove, GcFits
    <2>2. \A i \in Images \ {gc.of} : image'[i] = image[i] /\ docker'[i] = docker[i]
      BY <1>9 DEF Remove, Types, StateTypes, DaemonTypes
    <2>3. UNCHANGED <<lingering, up>>
      BY <1>9 DEF Remove
    <2> QED BY <2>1, <2>2, <2>3 DEF Present, Types, DaemonTypes
  <1>10. CASE LoseRemoval
    <2>1. gc.of \in Images /\ up /\ (gc.at = "remove" => Present(gc.of))
      BY <1>10 DEF LoseRemoval, GcFits
    <2>2. image' = [image EXCEPT ![gc.of].state = "uncertain"]
      BY <1>10 DEF LoseRemoval
    <2>3. UNCHANGED <<docker, up>> /\ lingering' = IF gc.at = "remove" THEN lingering \cup {gc.of} ELSE lingering
      BY <1>10 DEF LoseRemoval
    <2> QED BY <2>1, <2>2, <2>3 DEF Present, Types, DaemonTypes, StateTypes, ImageRecords
  <1>11. ASSUME Evicted PROVE LingerFits'
    <2>1. PICK i \in Images : i \in Images /\ (\E a \in BOOLEAN : i \in Candidates(a)) /\ image' = [image EXCEPT ![i].state = "deleting"]
      BY <1>11 DEF Evicted, Evicts
    <2>2. up /\ UNCHANGED <<docker, lingering, up>>
      BY <1>11 DEF Evicted, Evicts, daemonVars
    <2>3. i \notin lingering
      BY <2>1, <2>2 DEF Candidates
    <2> QED BY <2>1, <2>2, <2>3 DEF Present, Types, DaemonTypes, StateTypes
  <1>12. CASE SetWindows \/ Concluded
    BY <1>12 DEF SetWindows, Concluded, Present, daemonVars
  <1>13. CASE Crash
    BY <1>13 DEF Crash, Present, GcFits, Types, DaemonTypes
  <1>14. CASE initialize
    <2>1. \A i \in lingering : image'[i].state = "uncertain"
      BY <1>14 DEF initialize, Types, DaemonTypes, StateTypes, ImageRecords
    <2>2. UNCHANGED <<docker, lingering>>
      BY <1>14 DEF initialize, daemonVars
    <2> QED BY <2>1, <2>2 DEF Present
  <1> QED BY <1>2, <1>3, <1>4, <1>5, <1>6, <1>7, <1>8, <1>9, <1>10, <1>11, <1>12, <1>13, <1>14, NextSplits
          DEF ImageStep, JobStep, Evict

-----------------------------------------------------------------------------
(* Space                                                                   *)

\* What Docker pulls has its space set aside.
LEMMA PullsSetAside ==
  ASSUME Types, PullsFit
  PROVE  pulling \subseteq SetAside
PROOF BY DEF Types, DaemonTypes, PullsFit, PullFits, SetAside

\* Only work on an image itself moves a pull of it, and the space set aside for it.
LEMMA PullsFitKept ==
  ASSUME IInv, Next
  PROVE  PullsFit'
PROOF
  <1> USE DEF IInv, PullsFit, PullFits, Types, DaemonTypes, StateTypes, WorkTypes, daemonVars, stateVars, processVars
  <1>1. ASSUME UNCHANGED <<operations, work, up>>, pulling' \subseteq pulling
        PROVE  PullsFit'
    BY <1>1
  <1>2. ASSUME NEW i \in Images, Work(i) \/ Prefetch(i) \/ TimesOut(i) \/ LosePull(i) PROVE PullsFit'
    <2>0. up /\ UNCHANGED up
      BY <1>2 DEF DownFits, Work, Reserve, Refuse, Pull, Pulled, Resolve, Finish, Prefetch, TimesOut, LosePull
    <2>1. ASSUME NEW j \in Images \ {i} PROVE PullFits(j)'
      <3>1. work'[j] = work[j]
        <4>1. CASE Prefetch(i)
          BY <4>1, StartFits DEF Prefetch
        <4> QED BY <1>2, <4>1 DEF Work, Reserve, Refuse, Pull, Pulled, Resolve, Finish, TimesOut, LosePull, At, Ends
      <3>2. operations'[j] = operations[j]
        BY <1>2 DEF Work, Reserve, Refuse, Pull, Pulled, Resolve, Finish, Prefetch, TimesOut, LosePull
      <3>3. j \in pulling' => j \in pulling
        BY <1>2 DEF Work, Reserve, Refuse, Pull, Pulled, Resolve, Finish, Prefetch, TimesOut, LosePull
      <3> QED BY <2>0, <3>1, <3>2, <3>3
    <2>2. PullFits(i)'
      <3> USE DEF At, Ends, WorkRecords
      <3>1. CASE Reserve(i)
        BY <2>0, <3>1 DEF Reserve, Uncertain
      <3>2. CASE Refuse(i)
        BY <2>0, <3>2 DEF Refuse
      <3>3. CASE Pull(i)
        BY <2>0, <3>3 DEF Pull
      <3>4. CASE Pulled(i)
        BY <2>0, <3>4 DEF Pulled
      <3>5. CASE Resolve(i)
        BY <2>0, <3>5 DEF Resolve
      <3>6. CASE Finish(i)
        BY <2>0, <3>6 DEF Finish, NoWork
      <3>7. CASE Prefetch(i)
        BY <2>0, <3>7, StartFits DEF Prefetch
      <3>8. CASE TimesOut(i)
        BY <2>0, <3>8 DEF TimesOut
      <3>9. CASE LosePull(i)
        BY <2>0, <3>9 DEF LosePull
      <3> QED BY <1>2, <3>1, <3>2, <3>3, <3>4, <3>5, <3>6, <3>7, <3>8, <3>9 DEF Work
    <2> QED BY <2>1, <2>2
  <1>3. ASSUME NEW i \in Images, DockerPulls(i) \/ Rested(i) \/ DockerRemoves(i) \/ Tag(i) PROVE PullsFit'
    <2>1. CASE work' = [work EXCEPT ![i].outcome = "full"] /\ DockerPulls(i)
      BY <2>1 DEF DockerPulls, WorkRecords
    <2> QED BY <1>1, <1>3, <2>1 DEF DockerPulls, Rested, DockerRemoves, Tag
  <1>4. ASSUME UNCHANGED <<operations, pulling>>, up, UNCHANGED up,
               \A j \in Images : \/ work'[j] = work[j]
                                 \/ /\ work[j].at = "none"
                                    /\ work'[j].at \in {"resolve", "reserve"} /\ ~work'[j].slot
        PROVE  PullsFit'
    BY <1>4
  <1>5. ASSUME NEW o \in Owners, Job(o) \/ Acquire(o) \/ Cancel(o) \/ EndJob(o) PROVE PullsFit'
    <2>0. up /\ UNCHANGED <<operations, pulling, up>>
      <3>1. Acquire(o) \/ EndJob(o) => up
        BY DEF Acquire, EndJob
      <3>2. acquire[o].at # "idle" => up
        BY DEF DownFits
      <3>3. (Job(o) \/ Cancel(o)) => acquire[o].at # "idle"
        BY DEF Job, PrepareAgain, Register, Trim, Cancel, Acquiring
      <3> QED BY <1>5, <3>1, <3>2, <3>3, JobLeaves
    <2>1. acquire[o].next \in 1..Len(Needs[o]) /\ acquire[o].next \in Nat /\ Len(Needs[o]) \in Nat \ {0}
      BY NeedsImages DEF AcquireTypes
    <2>2. \/ UNCHANGED work
          \/ \E n \in 1..Len(Needs[o]), again \in BOOLEAN : Prepare(o, n, again)
      <3>1. CASE Register(o)
        <4>1. CASE acquire[o].next < Len(Needs[o])
          <5>1. acquire[o].next + 1 \in 1..Len(Needs[o])
            BY <2>1, <4>1
          <5> QED BY <3>1, <4>1, <5>1 DEF Register
        <4> QED BY <3>1, <4>1 DEF Register
      <3>2. CASE Acquire(o) \/ PrepareAgain(o)
        <4>1. 1 \in 1..Len(Needs[o])
          BY <2>1
        <4> QED BY <2>1, <3>2, <4>1 DEF Acquire, PrepareAgain
      <3> QED BY <1>5, <3>1, <3>2 DEF Job, Trim, Cancel, EndJob, Release
    <2> QED BY <1>4, <2>0, <2>2, PrepareFits
  <1>6. CASE Evict \/ LoseRemoval \/ SetWindows \/ Evicted \/ Concluded
    BY <1>1, <1>6 DEF Evict, Check, Remove, Forget, LoseRemoval, SetWindows,
              Evicted, Evicts, Concluded
  <1>7. CASE Crash
    BY <1>7 DEF Crash, NoWork
  <1>8. CASE initialize
    BY <1>8 DEF initialize, InterruptedOperations, DownFits
  <1> QED BY <1>2, <1>3, <1>5, <1>6, <1>7, <1>8, NextSplits DEF ImageStep, JobStep

\* Only a pull that begins sets space aside.
LEMMA AsideStep ==
  ASSUME IInv, Next
  PROVE  SetAside' \subseteq SetAside \/ \E i \in Images : Reserve(i) /\ SetAside' = SetAside \cup {i}
PROOF
  <1> USE DEF IInv, Types, StateTypes, SetAside
  <1>1. ASSUME UNCHANGED operations PROVE SetAside' \subseteq SetAside
    BY <1>1
  <1>2. ASSUME NEW i \in Images, Reserve(i) PROVE SetAside' = SetAside \cup {i}
    BY <1>2 DEF Reserve
  <1>3. ASSUME NEW i \in Images, Resolve(i) \/ Finish(i) \/ LosePull(i) PROVE SetAside' \subseteq SetAside
    <2>1. CASE Resolve(i)
      <3>1. work[i].slot => operations[i] # "none"
        BY <2>1 DEF Resolve, PullsFit, PullFits
      <3> QED BY <2>1, <3>1 DEF Resolve
    <2>2. CASE Finish(i)
      BY <2>2 DEF Finish
    <2>3. CASE LosePull(i)
      <3>1. operations[i] # "none"
        BY <2>3 DEF LosePull, PullsFit, PullFits
      <3> QED BY <2>3, <3>1 DEF LosePull
    <2> QED BY <1>3, <2>1, <2>2, <2>3
  <1>4. CASE ImageStep
    BY <1>1, <1>2, <1>3, <1>4 DEF ImageStep, Work, Refuse, Pull, Pulled, Prefetch, TimesOut, DockerPulls,
       Rested, DockerRemoves, Tag, stateVars
  <1>5. CASE JobStep
    BY <1>1, <1>5, JobLeaves DEF JobStep
  <1>6. CASE Evict \/ LoseRemoval \/ SetWindows \/ Crash \/ Evicted \/ Concluded
    BY <1>1, <1>6 DEF Evict, Check, Remove, Forget, LoseRemoval, SetWindows, Crash, Evicted, Evicts, Concluded,
       stateVars
  <1>7. CASE initialize
    BY <1>7 DEF initialize, InterruptedOperations
  <1> QED BY <1>4, <1>5, <1>6, <1>7, NextSplits

\* While no pull is in doubt, each that is counted has a slot.
LEMMA CountFitsKept ==
  ASSUME IInv, Next
  PROVE  CountFits'
PROOF
  <1>1. SetAside \subseteq Images /\ IsFiniteSet(SetAside) /\ Cardinality(SetAside) \in Nat
    <2>1. SetAside \subseteq Images
      BY DEF SetAside
    <2> QED BY <2>1, ImagesAssumption, FS_Subset, FS_CardinalityType
  <1>2. CASE SetAside' \subseteq SetAside
    <2>1. Cardinality(SetAside') <= Cardinality(SetAside) /\ Cardinality(SetAside') \in Nat
      BY <1>1, <1>2, FS_Subset, FS_CardinalityType
    <2> QED BY <1>1, <2>1, SpaceAssumption DEF IInv, CountFits
  <1>3. ASSUME NEW i \in Images, Reserve(i), SetAside' = SetAside \cup {i} PROVE CountFits'
    <2>1. up /\ ~Uncertain /\ Cardinality(Slots) < MaxPulls
      BY <1>3 DEF Reserve, IInv, DownFits
    <2>2. SetAside \subseteq Slots
      BY <2>1 DEF SetAside, Slots, Uncertain, IInv, PullsFit, PullFits, Types, StateTypes
    <2>3. IsFiniteSet(Slots) /\ Cardinality(Slots) \in Nat /\ Cardinality(SetAside) <= Cardinality(Slots)
      <3>1. IsFiniteSet(Slots)
        BY ImagesAssumption, FS_Subset DEF Slots
      <3> QED BY <2>2, <3>1, FS_Subset, FS_CardinalityType
    <2>4. Cardinality(SetAside \cup {i}) <= Cardinality(SetAside) + 1 /\ Cardinality(SetAside \cup {i}) \in Nat
      BY <1>1, AddOne
    <2>5. Cardinality(SetAside)' = Cardinality(SetAside \cup {i})
      BY <1>3
    <2> QED BY <1>1, <2>1, <2>3, <2>4, <2>5, SpaceAssumption DEF CountFits
  <1> QED BY <1>2, <1>3, AsideStep

\* Where the estimate covers an image, a pull begins only where there is space for all
\* that is there or set aside.
LEMMA ReserveHasRoom ==
  ASSUME Types, PullsFit, EstimateCovers, NEW i \in Images, work[i].at = "reserve", TRUE \in Room(Need(i))
  PROVE  Size(Used \cup (SetAside \cup {i})) <= Disk
PROOF
  <1>1. PICK partial \in SUBSET pulling :
          100 * Free(partial) >= ReservePercent * (Free(partial) + Occupied) + 100 * (Reserved + Need(i))
    BY DEF Room
  <1> DEFINE owned == {j \in Images : image[j].owned}
             left == Disk - Size(Used \cup partial)
  <1>2. /\ Used \subseteq Images /\ SetAside \subseteq Images /\ owned \subseteq Images
        /\ partial \subseteq SetAside /\ partial \subseteq Images
    BY PullsSetAside DEF Used, SetAside, Types, DaemonTypes
  <1>3. /\ Size(Used \cup partial) \in Nat /\ Size(owned) \in Nat /\ Size(SetAside) \in Nat /\ Size(Used) \in Nat
    BY <1>2, SizeUnion
  <1>4. Cardinality(SetAside) \in Nat
    BY <1>2, ImagesAssumption, FS_Subset, FS_CardinalityType
  <1>5. \A c, a, b \in Nat : a <= b => a * c <= b * c /\ b * c \in Nat
    OBVIOUS
  <1>6. Reserved \in Nat /\ Size(SetAside) <= Reserved
    BY <1>4, <1>5, SpaceAssumption DEF Reserved, Size, EstimateCovers
  <1>7. Occupied = Size(owned) /\ Need(i) = Estimate
    BY DEF Occupied, Need
  <1>8. left \in Int /\ Free(partial) \in Int
    BY <1>3, SpaceAssumption DEF Free
  <1>9. Occupied \in Nat /\ Reserved + Need(i) \in Nat
    BY <1>3, <1>6, <1>7, SpaceAssumption
  <1>10. Free(partial) >= Reserved + Estimate
    BY <1>1, <1>7, <1>8, <1>9, EnoughIsFree
  <1>11. left >= Reserved + Estimate
    BY <1>6, <1>8, <1>10, SpaceAssumption DEF Free
  <1>12. left >= Size(SetAside) + ImageSize
    BY <1>3, <1>6, <1>8, <1>11, SpaceAssumption DEF EstimateCovers
  <1>13. Size(Used) <= Size(Used \cup partial)
    BY <1>2, SizeSubset
  <1>14. Size(SetAside \cup {i}) <= Size(SetAside) + ImageSize /\ Size(SetAside \cup {i}) \in Nat
    BY <1>2, SizeUnion
  <1>15. Size(Used \cup (SetAside \cup {i})) <= Size(Used) + Size(SetAside \cup {i})
    BY <1>2, SizeUnion
  <1>16. Size(Used \cup (SetAside \cup {i})) \in Nat
    BY <1>2, SizeUnion
  <1> QED BY <1>3, <1>12, <1>13, <1>14, <1>15, <1>16, SpaceAssumption

\* What is there or set aside fits the disk.
LEMMA SpaceFitsKept ==
  ASSUME IInv, Next
  PROVE  SpaceFits'
PROOF
  <1> SUFFICES ASSUME EstimateCovers PROVE (Size(Used \cup SetAside) <= Disk)'
    BY DEF SpaceFits, EstimateCovers
  <1> USE DEF IInv, Types, DaemonTypes, StateTypes, daemonVars, stateVars, processVars
  <1> DEFINE Fits == (Size(Used \cup SetAside) <= Disk)'
  <1>0. Used \cup SetAside \subseteq Images
    BY DEF Used, SetAside
  <1>1. ASSUME (Used \cup SetAside)' \subseteq Used \cup SetAside PROVE Fits
    <2>1. Size((Used \cup SetAside)') <= Size(Used \cup SetAside)
      BY <1>0, <1>1, SizeSubset
    <2>2. Size((Used \cup SetAside)') \in Nat /\ Size(Used \cup SetAside) \in Nat
      BY <1>0, <1>1, SizeSubset
    <2>3. Size(Used \cup SetAside)' = Size((Used \cup SetAside)')
      BY DEF Size
    <2> QED BY <2>1, <2>2, <2>3, SpaceAssumption DEF SpaceFits
  <1>2. ASSUME \A i \in Images : /\ Present(i)' => Present(i) \/ operations[i] # "none"
                                 /\ operations'[i] # "none" => operations[i] # "none"
        PROVE  Fits
    BY <1>1, <1>2 DEF Used, SetAside
  <1>3. ASSUME NEW i \in Images, Reserve(i) PROVE Fits
    <2>1. TRUE \in Room(Need(i)) /\ work[i].at = "reserve"
      BY <1>3 DEF Reserve
    <2>2. Size(Used \cup (SetAside \cup {i})) <= Disk
      BY <2>1, ReserveHasRoom
    <2>3. Used' = Used /\ SetAside' = SetAside \cup {i}
      BY <1>3 DEF Reserve, Used, SetAside, Present
    <2> QED BY <2>2, <2>3 DEF SpaceFits, Size
  <1>4. ASSUME NEW i \in Images, Work(i) \/ Prefetch(i) \/ TimesOut(i) \/ LosePull(i) PROVE Fits
    <2>1. CASE Resolve(i)
      <3>1. UNCHANGED docker /\ (UNCHANGED operations \/ work[i].slot)
        BY <2>1 DEF Resolve
      <3>2. work[i].slot => operations[i] # "none"
        BY <2>1 DEF Resolve, PullsFit, PullFits
      <3>3. \A j \in Images \ {i} : operations'[j] = operations[j]
        BY <2>1 DEF Resolve
      <3> QED BY <1>2, <3>1, <3>2, <3>3 DEF Present
    <2>2. CASE Finish(i)
      BY <1>2, <2>2 DEF Finish, Present
    <2>3. CASE LosePull(i)
      <3>1. operations[i] # "none"
        BY <2>3 DEF LosePull, PullsFit, PullFits
      <3> QED BY <1>2, <2>3, <3>1 DEF LosePull, Present
    <2>4. CASE UNCHANGED <<docker, operations>>
      BY <1>2, <2>4 DEF Present
    <2> QED BY <1>3, <1>4, <2>1, <2>2, <2>3, <2>4 DEF Work, Refuse, Pull, Pulled, Prefetch, TimesOut
  <1>5. ASSUME NEW i \in Images, DockerPulls(i) PROVE Fits
    <2>1. operations[i] # "none"
      BY <1>5, PullsSetAside DEF DockerPulls, SetAside
    <2> QED BY <1>2, <1>5, <2>1 DEF DockerPulls, Present
  <1>6. ASSUME NEW i \in Images, DockerRemoves(i) PROVE Fits
    BY <1>2, <1>6 DEF DockerRemoves, Present
  <1>7. ASSUME NEW i \in Images, Tag(i) PROVE Fits
    BY <1>2, <1>7 DEF Tag, Present
  <1>8. ASSUME UNCHANGED <<docker, operations>> PROVE Fits
    BY <1>2, <1>8 DEF Present
  <1>9. ASSUME Remove PROVE Fits
    BY <1>2, <1>9 DEF Remove, Present
  <1>10. ASSUME initialize PROVE Fits
    BY <1>2, <1>10 DEF initialize, InterruptedOperations, Present
  <1>11. ASSUME NEW o \in Owners, Job(o) \/ Acquire(o) \/ Cancel(o) \/ EndJob(o) PROVE Fits
    BY <1>8, <1>11, JobLeaves
  <1>12. ASSUME Check \/ Forget \/ LoseRemoval \/ SetWindows \/ Crash \/ Evicted \/ Concluded PROVE Fits
    BY <1>8, <1>12 DEF Check, Forget, LoseRemoval, SetWindows, Crash, Evicted, Evicts, Concluded
  <1>13. ASSUME NEW i \in Images, Rested(i) PROVE Fits
    BY <1>8, <1>13 DEF Rested
  <1> HIDE DEF Fits
  <1>14. Fits
    BY <1>4, <1>5, <1>6, <1>7, <1>9, <1>10, <1>11, <1>12, <1>13, NextSplits DEF ImageStep, JobStep, Evict
  <1> QED BY <1>14 DEF Fits

-----------------------------------------------------------------------------
(* Images in use                                                           *)

Chosen(i) == \E a \in BOOLEAN : Evicts(i, a)

\* An image that is safe to use stays so, unless the evictor chooses it.
LEMMA SafeStays ==
  ASSUME IInv, Next, NEW i \in Images, Safe(i)
  PROVE  \/ Safe(i)' /\ (image[i].known => image'[i].known)
         \/ Chosen(i)
PROOF
  <1> USE DEF IInv, Safe, Leave, NoGc
  <1>0. /\ Types /\ image[i] \in ImageRecords /\ image \in [Images -> ImageRecords]
        /\ docker \in [Images -> SUBSET {"own", "other"}]
    BY DEF Types, StateTypes, DaemonTypes
  <1> DEFINE Stays == Safe(i)' /\ (image[i].known => image'[i].known)
  <1>1. ASSUME image'[i] = image[i], Present(i)', i \in lingering' => i \in lingering PROVE Stays
    BY <1>1
  <1>2. gc.at # "none" => gc.of # i /\ gc.of \in Images
    BY DEF GcFits
  <1>3. ASSUME NEW j \in Images, Work(j) \/ Prefetch(j) \/ TimesOut(j) \/ LosePull(j) PROVE Stays
    BY <1>0, <1>3, StatesLeft DEF Kept, Present
  <1>4. ASSUME NEW o \in Owners, Job(o) \/ Acquire(o) \/ Cancel(o) \/ EndJob(o) PROVE Stays
    BY <1>0, <1>4, StatesLeft DEF Kept, Present
  <1>5. ASSUME NEW j \in Images, DockerPulls(j) PROVE Stays
    BY <1>0, <1>1, <1>5 DEF DockerPulls, Present, stateVars
  <1>6. ASSUME NEW j \in Images, DockerRemoves(j) PROVE Stays
    BY <1>0, <1>1, <1>6 DEF DockerRemoves, Present, stateVars
  <1>7. ASSUME NEW j \in Images, Tag(j) PROVE Stays
    BY <1>0, <1>1, <1>7 DEF Tag, Present, stateVars
  <1>8. ASSUME NEW j \in Images, Rested(j) PROVE Stays
    <2>1. UNCHANGED <<docker, lingering>> /\ image' = [image EXCEPT ![j].state = "kept"]
      BY <1>8 DEF Rested, daemonVars
    <2> QED BY <1>0, <2>1 DEF Present, ImageRecords
  <1>9. ASSUME Check \/ Forget \/ Remove \/ LoseRemoval PROVE Stays
    <2>1. image'[i] = image[i]
      BY <1>0, <1>2, <1>9 DEF Check, Forget, Remove, LoseRemoval
    <2>2. docker'[i] = docker[i]
      BY <1>0, <1>2, <1>9 DEF Check, Forget, Remove, LoseRemoval, daemonVars
    <2>3. i \in lingering' => i \in lingering
      BY <1>2, <1>9 DEF Check, Forget, Remove, LoseRemoval, daemonVars
    <2> QED BY <1>1, <2>1, <2>2, <2>3 DEF Present
  <1>10. ASSUME Evicted PROVE Stays \/ Chosen(i)
    <2>1. PICK j \in Images : (\E a \in BOOLEAN : Evicts(j, a)) /\ image' = [image EXCEPT ![j].state = "deleting"]
      BY <1>10 DEF Evicted, Evicts
    <2>2. UNCHANGED <<docker, lingering>>
      BY <1>10 DEF Evicted, Evicts, daemonVars
    <2>3. CASE j = i
      BY <2>1, <2>3 DEF Chosen
    <2>4. CASE j # i
      BY <1>0, <1>1, <2>1, <2>2, <2>4 DEF Present
    <2> QED BY <2>3, <2>4
  <1>11. ASSUME SetWindows \/ Concluded PROVE Stays
    BY <1>1, <1>11 DEF SetWindows, Concluded, daemonVars, stateVars, Present
  <1>12. ASSUME Crash PROVE Stays
    BY <1>1, <1>2, <1>12 DEF Crash, stateVars, Present
  <1>13. ASSUME initialize PROVE Stays
    <2>1. image'[i] = image[i]
      BY <1>13 DEF initialize
    <2>2. UNCHANGED <<docker, lingering>>
      BY <1>13 DEF initialize, daemonVars
    <2> QED BY <1>1, <2>1, <2>2 DEF Present
  <1> HIDE DEF Stays
  <1>14. ASSUME \E j \in Images : \/ Work(j) \/ Prefetch(j) \/ TimesOut(j) \/ LosePull(j)
                                   \/ DockerPulls(j) \/ Rested(j) \/ DockerRemoves(j) \/ Tag(j)
        PROVE  Stays \/ Chosen(i)
    BY <1>3, <1>5, <1>6, <1>7, <1>8, <1>14
  <1>15. ASSUME \E o \in Owners : Job(o) \/ Acquire(o) \/ Cancel(o) \/ EndJob(o) PROVE Stays \/ Chosen(i)
    BY <1>4, <1>15
  <1>16. ASSUME Evicted PROVE Stays \/ Chosen(i)
    BY <1>10, <1>16
  <1>17. ASSUME Check \/ Forget \/ Remove \/ LoseRemoval \/ SetWindows \/ Concluded \/ Crash \/ initialize
        PROVE  Stays \/ Chosen(i)
    BY <1>9, <1>11, <1>12, <1>13, <1>17
  <1>18. Stays \/ Chosen(i)
    BY <1>14, <1>15, <1>16, <1>17, NextSplits DEF ImageStep, JobStep, Evict
  <1> QED BY <1>18 DEF Stays

\* An image gets a user where a job registers.
LEMMA UsersStep ==
  ASSUME IInv, Next, NEW i \in Images, image'[i].users # {}
  PROVE  \/ image[i].users # {}
         \/ \E o \in Owners : Register(o) /\ i = Needs[o][acquire[o].next]
PROOF
  <1> USE DEF IInv, Leave, stateVars
  <1>0. Types /\ image[i] \in ImageRecords /\ image \in [Images -> ImageRecords]
    BY DEF Types, StateTypes
  <1> DEFINE Fewer == image'[i].users \subseteq image[i].users
  <1>1. ASSUME NEW j \in Images, Work(j) \/ Prefetch(j) \/ TimesOut(j) \/ LosePull(j) PROVE Fewer
    <2>1. CASE Resolve(j)
      BY <1>0, <2>1, ResolveKeeps DEF Resolve
    <2>2. CASE Finish(j)
      BY <1>0, <2>2, ReleasedKeeps DEF Finish
    <2> QED BY <1>1, <2>1, <2>2 DEF Work, Reserve, Refuse, Pull, Pulled, Prefetch, TimesOut, LosePull
  <1>2. ASSUME NEW j \in Images, DockerPulls(j) \/ DockerRemoves(j) \/ Tag(j) \/ Rested(j) PROVE Fewer
    BY <1>0, <1>2 DEF DockerPulls, DockerRemoves, Tag, Rested, ImageRecords
  <1>3. ASSUME NEW o \in Owners, Job(o) \/ Acquire(o) \/ Cancel(o) \/ EndJob(o)
        PROVE  Fewer \/ (Register(o) /\ i = Needs[o][acquire[o].next])
    <2>1. CASE Register(o)
      <3>1. image' = [image EXCEPT ![Needs[o][acquire[o].next]].users = @ \cup {o}]
        BY <2>1 DEF Register
      <3> QED BY <1>0, <2>1, <3>1
    <2>2. CASE Release(o)
      BY <1>0, <2>2, ReleasedKeeps DEF Release
    <2> QED BY <1>3, <2>1, <2>2 DEF Job, Acquire, PrepareAgain, Trim, Cancel, EndJob
  <1>4. ASSUME Check \/ Remove \/ LoseRemoval PROVE Fewer
    BY <1>0, <1>4 DEF Check, Remove, LoseRemoval, ImageRecords
  <1>5. ASSUME Forget PROVE Fewer
    BY <1>0, <1>5 DEF Forget, Unknown
  <1>6. ASSUME Evicted PROVE Fewer
    <2>1. PICK j \in Images : image' = [image EXCEPT ![j].state = "deleting"]
      BY <1>6 DEF Evicted, Evicts
    <2> QED BY <1>0, <2>1 DEF ImageRecords
  <1>7. ASSUME SetWindows \/ Concluded \/ Crash PROVE Fewer
    BY <1>7 DEF SetWindows, Concluded, Crash
  <1>8. ASSUME initialize PROVE Fewer
    BY <1>0, <1>8 DEF initialize, Unknown, ImageRecords
  <1> HIDE DEF Fewer
  <1>9. Fewer \/ \E o \in Owners : Register(o) /\ i = Needs[o][acquire[o].next]
    <2>1. CASE \E j \in Images : \/ Work(j) \/ Prefetch(j) \/ TimesOut(j) \/ LosePull(j)
                                 \/ DockerPulls(j) \/ Rested(j) \/ DockerRemoves(j) \/ Tag(j)
      BY <1>1, <1>2, <2>1
    <2>2. CASE Check \/ Remove \/ Forget \/ LoseRemoval
      BY <1>4, <1>5, <2>2
    <2>3. CASE SetWindows \/ Concluded \/ Crash \/ initialize
      BY <1>7, <1>8, <2>3
    <2> QED BY <1>3, <1>6, <2>1, <2>2, <2>3, NextSplits
          DEF ImageStep, JobStep, Evict
  <1> QED BY <1>9 DEF Fewer

\* An image that has users stays safe: the evictor passes over it.
LEMMA UsersFitKept ==
  ASSUME IInv, Next
  PROVE  UsersFit'
PROOF
  <1> SUFFICES ASSUME NEW i \in Images, image'[i].users # {} PROVE Safe(i)'
    BY DEF UsersFit
  <1>1. CASE image[i].users # {}
    <2>1. Safe(i) /\ ~Chosen(i)
      BY <1>1 DEF IInv, UsersFit, Chosen, Evicts, Candidates
    <2> QED BY <2>1, SafeStays
  <1>2. CASE \E o \in Owners : Register(o) /\ i = Needs[o][acquire[o].next]
    <2>1. PICK o \in Owners : Register(o) /\ i = Needs[o][acquire[o].next]
      BY <1>2
    <2>2. Safe(i)
      BY <2>1 DEF Register, IInv, RegisterReady, Ready
    <2>3. Kept(i) /\ UNCHANGED <<docker, lingering>>
      BY <2>1, StatesLeft DEF Job, IInv
    <2> QED BY <2>2, <2>3 DEF Safe, Kept, Present
  <1> QED BY <1>1, <1>2, UsersStep

\* A preparation is over with success where the image was found.
LEMMA WorkReadyKept ==
  ASSUME IInv, Next
  PROVE  WorkReady'
PROOF
  <1> SUFFICES ASSUME NEW i \in Images, work'[i].at = "finish", work'[i].outcome = "ok" PROVE Ready(i)'
    BY DEF WorkReady
  <1> USE DEF IInv, Types, WorkTypes, processVars
  <1>1. CASE work'[i] = work[i]
    <2>1. Ready(i) /\ ~Chosen(i)
      BY <1>1 DEF WorkReady, Chosen, Evicts, Candidates
    <2> QED BY <2>1, SafeStays DEF Ready
  <1>2. CASE Resolve(i)
    <2>0. ASSUME ~Resolvable(i) PROVE FALSE
      <3>1. work' = [work EXCEPT ![i].at = "finish", ![i].outcome = "retry"]
        BY <1>2, <2>0 DEF Resolve, Ends
      <3> QED BY <3>1 DEF WorkRecords
    <2>10. Resolvable(i)
      BY <2>0
    <2>1. image' = [image EXCEPT ![i].known = TRUE, ![i].owned = @ \/ work[i].slot]
      BY <1>2, <2>10 DEF Resolve
    <2>2. image'[i].known /\ image'[i].state = image[i].state
      BY <2>1, ResolveKeeps DEF StateTypes
    <2>3. up
      BY <1>2 DEF Resolve, DownFits
    <2>4. i \notin lingering
      BY <2>10, <2>3 DEF Resolvable, LingerFits
    <2>5. image[i].state \in {"kept", "resting"}
      BY <2>10 DEF Resolvable, StateTypes, ImageRecords
    <2>6. UNCHANGED <<docker, lingering>>
      BY <1>2 DEF Resolve, daemonVars
    <2> QED BY <2>10, <2>1, <2>2, <2>4, <2>5, <2>6 DEF Ready, Safe, Resolvable, Present
  <1>3. work'[i] = work[i] \/ Resolve(i)
    <2>1. ASSUME NEW j \in Images, Work(j) \/ Prefetch(j) \/ TimesOut(j) \/ LosePull(j)
          PROVE  work'[i] = work[i] \/ Resolve(i)
      <3>1. CASE j = i /\ Prefetch(j)
        BY <3>1, StartFits DEF Prefetch
      <3>2. CASE j = i /\ Finish(j)
        BY <3>2 DEF Finish, NoWork
      <3>3. CASE j = i /\ (Refuse(j) \/ TimesOut(j) \/ LosePull(j))
        BY <3>3 DEF Refuse, TimesOut, LosePull, Ends, WorkRecords
      <3>4. CASE j = i /\ (Reserve(j) \/ Pull(j))
        <4>1. \/ work' = [work EXCEPT ![i].at = "pull", ![i].slot = TRUE]
              \/ work' = [work EXCEPT ![i].at = "pulling"]
          BY <3>4 DEF Reserve, Pull, At
        <4> QED BY <4>1 DEF WorkRecords
      <3>5. CASE j = i /\ Pulled(j)
        <4>1. work[i].at = "pulling"
          BY <3>5 DEF Pulled
        <4>2. CASE work' = [work EXCEPT ![i].at = "resolve"]
          BY <4>2 DEF WorkRecords
        <4>3. CASE work' = [work EXCEPT ![i].at = "pull", ![i].ref = @ + 1]
          BY <4>3 DEF WorkRecords
        <4>4. CASE work' = [work EXCEPT ![i].at = "finish", ![i].outcome = "failed"]
          BY <4>4 DEF WorkRecords
        <4>5. CASE work[i].outcome = "full" /\ work' = [work EXCEPT ![i].at = "finish"]
          BY <4>5 DEF WorkRecords
        <4> QED BY <3>5, <4>2, <4>3, <4>4, <4>5 DEF Pulled, At, Ends
      <3>6. CASE j # i
        <4>1. CASE Prefetch(j)
          BY <3>6, <4>1, StartFits DEF Prefetch
        <4> QED BY <2>1, <3>6, <4>1
                DEF Work, Reserve, Refuse, Pull, Pulled, Resolve, Finish, TimesOut, LosePull, At, Ends
      <3> QED BY <2>1, <3>1, <3>2, <3>3, <3>4, <3>5, <3>6 DEF Work
    <2>2. ASSUME NEW o \in Owners, Job(o) \/ Acquire(o) \/ Cancel(o) \/ EndJob(o)
          PROVE  work'[i] = work[i]
      <3>1. acquire[o].next \in 1..Len(Needs[o]) /\ acquire[o].next \in Nat /\ Len(Needs[o]) \in Nat \ {0}
        BY NeedsImages DEF AcquireTypes
      <3>2. ASSUME NEW n \in 1..Len(Needs[o]), NEW again \in BOOLEAN, Prepare(o, n, again)
            PROVE  work'[i] = work[i]
        BY <3>2, PrepareFits
      <3>3. CASE Register(o)
        <4>1. CASE acquire[o].next < Len(Needs[o])
          <5>1. acquire[o].next + 1 \in 1..Len(Needs[o])
            BY <3>1, <4>1
          <5> QED BY <3>2, <3>3, <4>1, <5>1 DEF Register
        <4> QED BY <3>3, <4>1 DEF Register
      <3>4. CASE Acquire(o) \/ PrepareAgain(o)
        <4>1. 1 \in 1..Len(Needs[o])
          BY <3>1
        <4> QED BY <3>1, <3>2, <3>4, <4>1 DEF Acquire, PrepareAgain
      <3> QED BY <2>2, <3>3, <3>4 DEF Job, Trim, Cancel, EndJob, Release
    <2>3. ~Crash
      BY DEF Crash, NoWork
    <2>4. CASE \E j \in Images : DockerPulls(j) \/ Rested(j) \/ DockerRemoves(j) \/ Tag(j)
      <3>1. ASSUME NEW j \in Images, work' = [work EXCEPT ![j].outcome = "full"] PROVE work'[i] = work[i]
        <4>1. j # i
          BY <3>1 DEF WorkRecords
        <4> QED BY <3>1, <4>1
      <3> QED BY <2>4, <3>1 DEF DockerPulls, Rested, DockerRemoves, Tag
    <2>5. CASE Evict \/ LoseRemoval \/ SetWindows \/ initialize \/ Evicted \/ Concluded
      BY <2>5 DEF Evict, Check, Remove, Forget, LoseRemoval, SetWindows, initialize,
              Evicted, Evicts, Concluded
    <2> QED BY <2>1, <2>2, <2>3, <2>4, <2>5, NextSplits DEF ImageStep, JobStep
  <1> QED BY <1>1, <1>2, <1>3

\* What a job was told is ready stays so until it registers: it demands the image, so
\* the evictor passes over it.
LEMMA RegisterReadyKept ==
  ASSUME IInv, Next
  PROVE  RegisterReady'
PROOF
  <1> SUFFICES ASSUME NEW o \in Owners, acquire'[o].at = "register"
               PROVE  Ready(Needs[o][acquire[o].next])' 
    BY DEF RegisterReady
  <1> USE DEF IInv, Types, processVars
  <1>1. PICK i \in Images : i = Needs[o][acquire[o].next]
    BY NeedsImages DEF AcquireTypes
  <1>2. acquire'[o] = acquire[o] \/ \E j \in Images : Finish(j)
    <2>1. ASSUME NEW j \in Images, Work(j) \/ Prefetch(j) \/ TimesOut(j) \/ LosePull(j)
          PROVE  acquire'[o] = acquire[o] \/ Finish(j)
      BY <2>1 DEF Work, Reserve, Refuse, Pull, Pulled, Resolve, Prefetch, TimesOut, LosePull
    <2>2. ASSUME NEW p \in Owners, Job(p) \/ Acquire(p) \/ Cancel(p) \/ EndJob(p)
          PROVE  acquire'[o] = acquire[o]
      <3>1. ASSUME NEW n, NEW again, Prepare(p, n, again) PROVE acquire'[o] = acquire[o]
        BY <3>1 DEF Prepare, AcquireTypes
      <3>2. CASE Register(p)
        BY <3>1, <3>2 DEF Register, Idle, AcquireTypes
      <3>3. CASE Release(p)
        BY <3>3 DEF Release, Idle, AcquireTypes
      <3>4. CASE Trim(p)
        BY <3>3, <3>4 DEF Trim, Idle, AcquireTypes
      <3> QED BY <2>2, <3>1, <3>2, <3>3, <3>4 DEF Job, Acquire, PrepareAgain, Cancel, EndJob
    <2>3. ~Crash
      BY DEF Crash, Idle
    <2>4. CASE \E j \in Images : DockerPulls(j) \/ Rested(j) \/ DockerRemoves(j) \/ Tag(j)
      BY <2>4 DEF DockerPulls, Rested, DockerRemoves, Tag
    <2>5. CASE Evict \/ LoseRemoval \/ SetWindows \/ initialize
      BY <2>5 DEF Evict, Check, Remove, Forget, LoseRemoval, SetWindows, initialize
    <2>6. Rests => acquire'[o] = acquire[o]
      BY DEF Rests, Idle, AcquireTypes
    <2> QED BY <2>1, <2>2, <2>3, <2>4, <2>5, <2>6, NextSplits DEF ImageStep, JobStep
  <1>3. CASE acquire'[o] = acquire[o]
    <2>1. Ready(i) /\ i \in demanded
      BY <1>1, <1>3, AcquiringDemands DEF RegisterReady
    <2>2. ~Chosen(i)
      BY <2>1 DEF Chosen, Evicts, Candidates
    <2>3. Ready(i)'
      BY <1>1, <2>1, <2>2, SafeStays DEF Ready
    <2>4. i = Needs[o][acquire'[o].next]
      BY <1>1, <1>3
    <2> QED BY <2>3, <2>4
  <1>4. CASE \E j \in Images : Finish(j)
    <2>1. PICK j \in Images : Finish(j)
      BY <1>4
    <2>2. CASE acquire'[o] = acquire[o]
      BY <1>3, <2>2
    <2>3. CASE acquire'[o] # acquire[o]
      <3>1. work[j].outcome = "ok" /\ o \in Waiters(j) /\ acquire'[o].next = acquire[o].next
        BY <2>1, <2>3 DEF Finish, Idle, AcquireTypes, AcquireRecords
      <3>2. Ready(j) /\ i = j /\ ~Chosen(j)
        BY <1>1, <2>1, <3>1 DEF Finish, WorkReady, Waiters, Chosen, Evicts, Candidates
      <3>3. Ready(j)'
        BY <3>2, SafeStays DEF Ready
      <3>4. j = Needs[o][acquire'[o].next]
        BY <1>1, <3>1, <3>2
      <3> QED BY <3>3, <3>4
    <2> QED BY <2>2, <2>3
  <1> QED BY <1>2, <1>3, <1>4

-----------------------------------------------------------------------------
(* The theorems                                                            *)

\* The empty pool.
LEMMA InitFits == Init => IInv
PROOF
  <1> SUFFICES ASSUME Init PROVE IInv
    OBVIOUS
  <1> USE DEF Init, Unknown, NoWork, Idle, NoGc
  <1>1. DaemonTypes /\ StateTypes
    BY DEF DaemonTypes, StateTypes, ImageRecords
  <1>2. WorkTypes
    BY ImagesAssumption DEF WorkTypes, WorkRecords
  <1>3. AcquireTypes
    BY NeedsImages DEF AcquireTypes, AcquireRecords
  <1>4. OtherTypes
    BY SpaceAssumption DEF OtherTypes
  <1>5. GcFits /\ DownFits /\ LingerFits /\ PullsFit
    BY DEF GcFits, DownFits, LingerFits, PullsFit, PullFits
  <1>6. CountFits /\ SpaceFits
    <2>1. Used \cup SetAside = {} /\ SetAside = {}
      BY DEF Used, SetAside, Present
    <2>2. Cardinality({}) = 0
      BY FS_EmptySet
    <2>3. Size({}) = 0
      BY <2>2, SpaceAssumption DEF Size
    <2>4. Size(Used \cup SetAside) = 0 /\ Cardinality(SetAside) = 0
      BY <2>1, <2>2, <2>3
    <2> HIDE DEF Init
    <2> QED BY <2>4, SpaceAssumption DEF SpaceFits, CountFits
  <1>7. UsersFit /\ WorkReady /\ RegisterReady
    BY DEF UsersFit, WorkReady, RegisterReady
  <1> QED BY <1>1, <1>2, <1>3, <1>4, <1>5, <1>6, <1>7 DEF IInv, Types

\* Every step keeps the invariant.
LEMMA NextFits == IInv /\ [Next]_vars => IInv'
PROOF
  <1> SUFFICES ASSUME IInv, [Next]_vars PROVE IInv'
    OBVIOUS
  <1>1. CASE Next
    BY <1>1, TypesKept, GcFitsKept, DownFitsKept, LingerFitsKept, PullsFitKept, CountFitsKept, SpaceFitsKept,
       UsersFitKept, WorkReadyKept, RegisterReadyKept DEF IInv
  <1>2. CASE UNCHANGED vars
    <2> USE <1>2 DEF IInv, vars, daemonVars, stateVars, processVars
    <2>1. Types'
      BY DEF Types, DaemonTypes, StateTypes, WorkTypes, AcquireTypes, OtherTypes
    <2>2. GcFits' /\ DownFits' /\ LingerFits' /\ PullsFit'
      BY DEF GcFits, DownFits, LingerFits, PullsFit, PullFits, Present
    <2>3. CountFits' /\ SpaceFits'
      BY DEF CountFits, SpaceFits, EstimateCovers, Size, Used, SetAside, Present
    <2>4. UsersFit' /\ WorkReady' /\ RegisterReady'
      BY DEF UsersFit, WorkReady, RegisterReady, Ready, Safe, Present
    <2> QED BY <2>1, <2>2, <2>3, <2>4
  <1> QED BY <1>1, <1>2

\* The invariant holds in every state the pool reaches.
THEOREM Invariance == Spec => []IInv
PROOF BY InitFits, NextFits, PTL DEF Spec

\* Records, operations, work and acquisitions are as the code knows them, also after
\* lost connections, crashes and restarts.
THEOREM TypeCorrect == Spec => []TypeOK
PROOF
  <1>1. IInv => TypeOK
    BY DEF IInv, Types, DaemonTypes, StateTypes, WorkTypes, AcquireTypes, OtherTypes, TypeOK,
           ImageRecords, WorkRecords, AcquireRecords
  <1> QED BY <1>1, Invariance, PTL

\* image-pool.cjs never evicts an image a job is registered for, and none is registered
\* for an image whose removal may still be under way in Docker.
THEOREM UsedStays == Spec => []UsedImageStays
PROOF
  <1>1. IInv => UsedImageStays
    BY DEF IInv, UsersFit, Safe, UsedImageStays
  <1> QED BY <1>1, Invariance, PTL

\* Between the step that resolves an image and the one that registers its job, nothing
\* evicts it.
THEOREM ResolvedStays == Spec => []ResolvedImageStays
PROOF
  <1>1. IInv => ResolvedImageStays
    BY DEF IInv, RegisterReady, Ready, Safe, ResolvedImageStays
  <1> QED BY <1>1, Invariance, PTL

\* What Docker pulls has its space set aside and stays within MaxPulls, whoever began the
\* pull and whether or not image-pool.cjs still has a slot for it.
THEOREM PullsStayCounted == Spec => []PullsAreCounted
PROOF
  <1>1. IInv => PullsAreCounted
    BY PullsSetAside DEF IInv, CountFits, PullsAreCounted
  <1> QED BY <1>1, Invariance, PTL

\* Where the estimator covers what an image takes, all that Docker pulls fits the disk with
\* what is there: no pull finds the disk full, whatever else is pulled at a time, kept,
\* or still pulled for a pool that died.
THEOREM EstimatedPullsFit == ASSUME EstimateCovers PROVE Spec => [](Size(Used \cup pulling) <= Disk)
PROOF
  <1>1. ASSUME IInv PROVE Size(Used \cup pulling) <= Disk
    <2>1. pulling \subseteq SetAside
      BY <1>1, PullsSetAside DEF IInv
    <2>2. Used \cup pulling \subseteq Used \cup SetAside /\ Used \cup SetAside \subseteq Images
      BY <2>1 DEF Used, SetAside
    <2>3. /\ Size(Used \cup pulling) <= Size(Used \cup SetAside)
          /\ Size(Used \cup pulling) \in Nat /\ Size(Used \cup SetAside) \in Nat
      BY <2>2, SizeSubset
    <2> QED BY <1>1, <2>3, SpaceAssumption DEF IInv, SpaceFits
  <1> QED BY <1>1, Invariance, PTL
=============================================================================
