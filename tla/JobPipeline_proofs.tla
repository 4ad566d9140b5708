------------------------- MODULE JobPipeline_proofs -------------------------
(***************************************************************************)
(* Proofs about the job pipeline, for every number of users, slots and     *)
(* jobs.                                                                   *)
(*                                                                         *)
(* The semaphore's own invariant SemInv comes first: its three lemmas say  *)
(* that acquire, release and a task's move to its next await preserve it,  *)
(* and each action of the pipeline is one of these or leaves the semaphore *)
(* alone.  Everything else builds on it.                                   *)
(***************************************************************************)
EXTENDS JobPipeline, FiniteSetTheorems, SequenceTheorems,
        WellFoundedInduction, TLAPS

(* The queue is in order of submission, and exactly the submitted jobs have *)
(* a task: what FirstComeFirstServed needs to be inductive.                 *)
Ordered ==
  /\ \A a, b \in DOMAIN queue : a < b => queue[a] < queue[b]
  /\ \A j \in Job : task[j] = "none" <=> j >= nextJob
  /\ FirstComeFirstServed

SemType ==
  /\ task \in [Job -> TaskPc]
  /\ running \in Nat
  /\ queue \in Seq(Job)
  /\ nextJob \in 1 .. MaxJobs + 1

SemInv == SemType /\ SlotAccounting /\ Ordered

----------------------------------------------------------------------------
(* Sets of jobs are finite, so counting them by adding and removing one at   *)
(* a time is sound.                                                          *)
LEMMA JobsFinite ==
  ASSUME NEW S \in SUBSET Job
  PROVE  IsFiniteSet(S)
<1>1. IsFiniteSet(Job)
  BY FS_Interval, LimitAssumption DEF Job
<1>2. QED
  BY <1>1, FS_Subset

(* Semaphore.acquire by a new task preserves the semaphore's invariant.      *)
LEMMA AcquireInv ==
  ASSUME SemInv, nextJob \in Job, nextJob' = nextJob + 1, Acquire(nextJob)
  PROVE  SemInv'
<1> DEFINE j == nextJob
<1>0. /\ task[j] = "none" /\ j \notin SlotHolders /\ j \notin Waiting
      /\ IsFiniteSet(SlotHolders) /\ IsFiniteSet(Waiting)
      /\ SlotHolders \in SUBSET Job /\ Waiting \in SUBSET Job
  BY JobsFinite DEF SemInv, SemType, Ordered, SlotHolders, Waiting, Holding, WithDir
<1>1. CASE running < MaxConcurrent
  <2>1. /\ running' = running + 1 /\ queue' = queue
        /\ task' = [task EXCEPT ![j] = "granted"]
    BY <1>1 DEF Acquire
  <2>2. SemType'
    BY <2>1, LimitAssumption DEF SemInv, SemType, Job, TaskPc, Holding
  <2>3. SlotHolders' = SlotHolders \cup {j} /\ Waiting' = Waiting
    BY <2>1, <1>0 DEF SemInv, SemType, SlotHolders, Waiting, Holding
  <2>4. Cardinality(SlotHolders') = Cardinality(SlotHolders) + 1
    BY <2>3, <1>0, FS_AddElement
  <2>5. queue = <<>>
    BY <1>1, LimitAssumption DEF SemInv, SemType, SlotAccounting
  <2>6. SlotAccounting'
    BY <1>1, <2>1, <2>3, <2>4, <2>5, LimitAssumption
    DEF SemInv, SemType, SlotAccounting
  <2>7. Waiting = {}
    BY <2>5 DEF SemInv, SlotAccounting
  <2>8. Ordered'
    BY <2>1, <2>3, <2>5, <2>7 DEF SemInv, SemType, Ordered, FirstComeFirstServed, Waiting, Job
  <2>9. QED
    BY <2>2, <2>6, <2>8 DEF SemInv
<1>2. CASE ~(running < MaxConcurrent)
  <2>1. /\ running' = running /\ queue' = Append(queue, j)
        /\ task' = [task EXCEPT ![j] = "waiting"]
    BY <1>2 DEF Acquire
  <2>2. /\ Len(queue') = Len(queue) + 1
        /\ \A i \in 1 .. Len(queue) : queue'[i] = queue[i]
        /\ queue'[Len(queue) + 1] = j
        /\ queue' \in Seq(Job) /\ queue' # <<>>
        /\ DOMAIN queue = 1 .. Len(queue) /\ DOMAIN queue' = 1 .. Len(queue) + 1
        /\ Len(queue) \in Nat
    BY <2>1, AppendProperties, LenProperties DEF SemInv, SemType
  <2>3. SemType'
    BY <2>1, <2>2, LimitAssumption DEF SemInv, SemType, Job, TaskPc
  <2>4. SlotHolders' = SlotHolders /\ Waiting' = Waiting \cup {j}
    BY <2>1, <1>0 DEF SemInv, SemType, SlotHolders, Waiting, Holding, WithDir
  <2>5. Cardinality(Waiting') = Cardinality(Waiting) + 1
    BY <2>4, <1>0, FS_AddElement
  <2>6. {queue'[i] : i \in DOMAIN queue'} = {queue[i] : i \in DOMAIN queue} \cup {j}
    BY <2>2
  <2>7. SlotAccounting'
    BY <1>2, <2>1, <2>2, <2>4, <2>5, <2>6, LimitAssumption
    DEF SemInv, SemType, SlotAccounting
  <2>8. \A i \in DOMAIN queue : queue[i] < j
    <3>1. SUFFICES ASSUME NEW i \in DOMAIN queue
                   PROVE  queue[i] < j
      OBVIOUS
    <3>2. queue[i] \in Job /\ task[queue[i]] = "waiting"
      BY DEF SemInv, SlotAccounting, Waiting
    <3>3. ~(queue[i] >= nextJob)
      BY <3>2 DEF SemInv, Ordered
    <3>4. QED
      BY <3>2, <3>3, LimitAssumption DEF SemInv, SemType, Job
  <2>9. \A a, b \in DOMAIN queue' : a < b => queue'[a] < queue'[b]
    BY <2>2, <2>8 DEF SemInv, Ordered
  <2>10. FirstComeFirstServed'
    BY <2>1 DEF SemInv, SemType, Ordered, FirstComeFirstServed, Job
  <2>11. \A k \in Job : task'[k] = "none" <=> k >= nextJob'
    BY <2>1 DEF SemInv, SemType, Ordered, Job
  <2>12. QED
    BY <2>3, <2>7, <2>9, <2>10, <2>11 DEF SemInv, Ordered
<1>3. QED
  BY <1>1, <1>2

(* A task that moves from one await to the next keeps its slot.              *)
LEMMA GotoInv ==
  ASSUME SemInv, NEW j \in Job, NEW pc \in Holding, task[j] \in Holding,
         nextJob' = nextJob, Goto(j, pc)
  PROVE  SemInv'
<1>1. /\ running' = running /\ queue' = queue
      /\ task' = [task EXCEPT ![j] = pc]
  BY DEF Goto, semVars
<1>2. pc \in TaskPc /\ pc \notin {"none", "waiting", "ended"} 
      /\ task[j] \notin {"none", "waiting", "ended"}
  BY DEF TaskPc, Holding, WithDir
<1>3. SlotHolders' = SlotHolders /\ Waiting' = Waiting
  BY <1>1, <1>2 DEF SemInv, SemType, SlotHolders, Waiting
<1>4. SemType' /\ SlotAccounting'
  BY <1>1, <1>2, <1>3 DEF SemInv, SemType, SlotAccounting
<1>5. Ordered'
  BY <1>1, <1>2 DEF SemInv, SemType, Ordered, FirstComeFirstServed
<1>6. QED
  BY <1>4, <1>5 DEF SemInv

(* Semaphore.release by the task at its end preserves the invariant.         *)
LEMMA ReleaseInv ==
  ASSUME SemInv, NEW j \in Job, task[j] \in Holding,
         nextJob' = nextJob, Release(j)
  PROVE  SemInv'
<1>0. /\ j \in SlotHolders /\ j \notin Waiting
      /\ task[j] \notin {"none", "waiting", "ended"}
      /\ IsFiniteSet(SlotHolders) /\ IsFiniteSet(Waiting)
      /\ SlotHolders \in SUBSET Job /\ Waiting \in SUBSET Job
  BY JobsFinite DEF SlotHolders, Waiting, Holding, WithDir
<1>1. CASE queue = <<>>
  <2>1. /\ running' = running - 1 /\ queue' = queue
        /\ task' = [task EXCEPT ![j] = "ended"]
    BY <1>1 DEF Release
  <2>2. SlotHolders' = SlotHolders \ {j} /\ Waiting' = Waiting
    BY <2>1, <1>0 DEF SemInv, SemType, SlotHolders, Waiting, Holding, WithDir
  <2>3. /\ Cardinality(SlotHolders') = Cardinality(SlotHolders) - 1
        /\ Cardinality(SlotHolders') \in Nat
    BY <2>2, <1>0, FS_RemoveElement, FS_CardinalityType
  <2>4. SlotAccounting' /\ running' \in Nat
    BY <1>1, <2>1, <2>2, <2>3, LimitAssumption DEF SemInv, SemType, SlotAccounting
  <2>5. SemType'
    BY <2>1, <2>4 DEF SemInv, SemType, TaskPc
  <2>6. Ordered'
    BY <2>1, <1>0 DEF SemInv, SemType, Ordered, FirstComeFirstServed
  <2>7. QED
    BY <2>4, <2>5, <2>6 DEF SemInv
<1>2. CASE queue # <<>>
  <2> DEFINE h == Head(queue)
  <2>1. /\ running' = running /\ queue' = Tail(queue)
        /\ task' = [task EXCEPT ![j] = "ended", ![h] = "granted"]
    BY <1>2 DEF Release
  <2>2. /\ Len(queue') = Len(queue) - 1 /\ Len(queue) \in Nat /\ Len(queue) > 0
        /\ \A i \in 1 .. Len(queue') : queue'[i] = queue[i + 1]
        /\ h = queue[1] /\ h \in Job
        /\ queue' \in Seq(Job)
        /\ DOMAIN queue = 1 .. Len(queue) /\ DOMAIN queue' = 1 .. Len(queue) - 1
    BY <1>2, <2>1, HeadTailProperties, LenProperties DEF SemInv, SemType
  <2>3. h \in Waiting /\ h # j /\ h \notin SlotHolders
    <3>1. 1 \in DOMAIN queue /\ h = queue[1]
      BY <2>2
    <3>2. h \in Waiting
      BY <3>1 DEF SemInv, SlotAccounting
    <3>3. QED
      BY <3>2, <1>0 DEF Waiting, SlotHolders, Holding, WithDir
  <2>4. /\ \A k \in Job : task'[k] = IF k = j THEN "ended"
                                     ELSE IF k = h THEN "granted" ELSE task[k]
        /\ task' \in [Job -> TaskPc]
    BY <2>1, <2>2, <2>3 DEF SemInv, SemType, TaskPc, Holding
  <2>5. SemType'
    BY <2>1, <2>2, <2>4 DEF SemInv, SemType
  <2>6. /\ SlotHolders' = (SlotHolders \ {j}) \cup {h}
        /\ Waiting' = Waiting \ {h}
    BY <2>2, <2>3, <2>4, <1>0 DEF SlotHolders, Waiting, Holding, WithDir
  <2>7. Cardinality(SlotHolders') = Cardinality(SlotHolders)
    <3>1. /\ IsFiniteSet(SlotHolders \ {j}) /\ h \notin SlotHolders \ {j}
          /\ Cardinality(SlotHolders \ {j}) = Cardinality(SlotHolders) - 1
          /\ Cardinality(SlotHolders) \in Nat
      BY <1>0, <2>3, FS_RemoveElement, FS_CardinalityType
    <3>2. Cardinality((SlotHolders \ {j}) \cup {h}) = Cardinality(SlotHolders \ {j}) + 1
      BY <3>1, FS_AddElement
    <3>3. QED
      BY <2>6, <3>1, <3>2
  <2>8. Cardinality(Waiting') = Cardinality(Waiting) - 1
    BY <2>3, <2>6, <1>0, FS_RemoveElement
  <2>9. {queue'[i] : i \in DOMAIN queue'} = Waiting \ {h}
    <3>1. \A i \in DOMAIN queue : i # 1 => queue[i] # h
      BY <2>2 DEF SemInv, SemType, Ordered, Job
    <3>2. {queue'[i] : i \in DOMAIN queue'} = {queue[i] : i \in 2 .. Len(queue)}
      <4>1. \A i \in 2 .. Len(queue) : i - 1 \in DOMAIN queue' /\ queue[i] = queue'[i - 1]
        BY <2>2
      <4>2. \A i \in DOMAIN queue' : i + 1 \in 2 .. Len(queue) /\ queue'[i] = queue[i + 1]
        BY <2>2
      <4>3. QED
        BY <4>1, <4>2
    <3>3. {queue[i] : i \in 2 .. Len(queue)} = {queue[i] : i \in DOMAIN queue} \ {h}
      BY <2>2, <3>1
    <3>4. QED
      BY <3>2, <3>3 DEF SemInv, SlotAccounting
  <2>10. SlotAccounting'
    BY <1>2, <2>1, <2>2, <2>6, <2>7, <2>8, <2>9 DEF SemInv, SemType, SlotAccounting
  <2>11. \A a, b \in DOMAIN queue' : a < b => queue'[a] < queue'[b]
    BY <2>2 DEF SemInv, Ordered
  <2>12. \A k \in Waiting \ {h} : h < k
    <3>1. ASSUME NEW k \in Waiting \ {h}
          PROVE  h < k
      <4>1. PICK i \in DOMAIN queue : queue[i] = k
        BY <3>1 DEF SemInv, SlotAccounting
      <4>2. i # 1 /\ 1 \in DOMAIN queue /\ 1 < i
        BY <4>1, <2>2
      <4>3. QED
        BY <4>1, <4>2, <2>2 DEF SemInv, Ordered
    <3>2. QED
      BY <3>1
  <2>13. FirstComeFirstServed'
    <3>1. SUFFICES ASSUME NEW i \in Job, NEW k \in Job, i < k, task'[i] = "waiting"
                   PROVE  task'[k] \in {"none", "waiting"}
      BY DEF FirstComeFirstServed
    <3>2. i \in Waiting \ {h} /\ task[i] = "waiting"
      BY <3>1, <2>4 DEF Waiting
    <3>3. k # h
      BY <3>1, <3>2, <2>2, <2>12 DEF Job
    <3>4. task[k] \in {"none", "waiting"}
      BY <3>1, <3>2 DEF SemInv, Ordered, FirstComeFirstServed
    <3>5. k # j
      BY <3>4, <1>0
    <3>6. QED
      BY <3>3, <3>4, <3>5, <2>4
  <2>14. \A k \in Job : task'[k] = "none" <=> k >= nextJob'
    <3>1. task[h] # "none" /\ task[j] # "none"
      BY <2>3, <1>0 DEF Waiting
    <3>2. QED
      BY <2>2, <2>4, <3>1 DEF SemInv, Ordered
  <2>15. QED
    BY <2>5, <2>10, <2>11, <2>13, <2>14 DEF SemInv, Ordered
<1>3. QED
  BY <1>1, <1>2

(* When the process dies, slots and waiters go with it.                      *)
LEMMA DieInv ==
  ASSUME SemInv, Die
  PROVE  SemInv'
<1>1. /\ running' = 0 /\ queue' = <<>> /\ nextJob' = nextJob
      /\ task' = [j \in Job |-> IF task[j] = "none" THEN "none" ELSE "ended"]
  BY DEF Die
<1>2. SlotHolders' = {} /\ Waiting' = {}
  BY <1>1 DEF SlotHolders, Waiting, Holding, WithDir
<1>3. SemType'
  BY <1>1 DEF SemInv, SemType, TaskPc
<1>4. SlotAccounting'
  BY <1>1, <1>2, FS_EmptySet, LimitAssumption DEF SlotAccounting
<1>5. Ordered'
  BY <1>1 DEF SemInv, SemType, Ordered, FirstComeFirstServed
<1>6. QED
  BY <1>3, <1>4, <1>5 DEF SemInv

(* What one step of a task does to the semaphore: it keeps its slot at its   *)
(* next await, or ends and releases it.                                      *)
LEMMA TaskStepShape ==
  ASSUME NEW j \in Job, TaskStep(j)
  PROVE  /\ nextJob' = nextJob /\ owner' = owner /\ UNCHANGED <<userVars, procVars>>
         /\ Up /\ task[j] \in Holding
         /\ Release(j) \/ \E pc \in Holding : Goto(j, pc)
<1> USE DEF Holding, WithDir, storeVars, diskVars, semVars
<1>1. CASE StartSwept(j) BY <1>1 DEF StartSwept
<1>2. CASE StartRefused(j) BY <1>2 DEF StartRefused, Fail
<1>3. CASE StartVetting(j) BY <1>3 DEF StartVetting
<1>4. CASE VetRefused(j) BY <1>4 DEF VetRefused, Fail
<1>5. CASE VetPage(j) BY <1>5 DEF VetPage
<1>6. CASE VetMedia(j) BY <1>6 DEF VetMedia
<1>7. CASE ExtractFound(j) BY <1>7 DEF ExtractFound
<1>8. CASE ExtractFailed(j) BY <1>8 DEF ExtractFailed, Fail
<1>9. CASE VetFound(j) BY <1>9 DEF VetFound
<1>10. CASE MakeDir(j) BY <1>10 DEF MakeDir
<1>11. CASE MakeDirFailed(j) BY <1>11 DEF MakeDirFailed, Fail
<1>12. CASE DownloadFailed(j) BY <1>12 DEF DownloadFailed
<1>13. CASE Discarded(j) BY <1>13 DEF Discarded, Fail
<1>14. CASE Downloaded(j) BY <1>14 DEF Downloaded
<1>15. CASE Uploaded(j) BY <1>15 DEF Uploaded
<1>16. CASE UploadFailed(j) BY <1>16 DEF UploadFailed
<1>17. CASE Removed(j) BY <1>17 DEF Removed
<1>18. QED
  BY <1>1, <1>2, <1>3, <1>4, <1>5, <1>6, <1>7, <1>8, <1>9, <1>10, <1>11, <1>12,
     <1>13, <1>14, <1>15, <1>16, <1>17 DEF TaskStep

(* The steps that are neither a submission, nor a task's, nor a death.       *)
OtherStep ==
  \/ \E u \in User : \/ Login(u) \/ SessionEnds(u)
                     \/ ConnectDarkreel(u) \/ DisconnectDarkreel(u) \/ DeleteUser(u)
  \/ \E j \in Job : GrowStale(j) \/ Purge(j)
  \/ SweepStale \/ BeginShutdown \/ Boot \/ UNCHANGED vars

(* The cases of a step: Submit, Die, a step of a task, or one of the others. *)
LEMMA NextCases ==
  ASSUME [Next]_vars
  PROVE  \/ \E u \in User : Submit(u)
         \/ \E j \in Job : TaskStep(j)
         \/ Die
         \/ OtherStep
BY DEF Next, OtherStep

(* The other steps leave the semaphore and the tasks alone.                  *)
LEMMA OtherStepShape ==
  ASSUME OtherStep
  PROVE  UNCHANGED <<task, running, queue, nextJob, owner>>
BY DEF OtherStep, Login, SessionEnds, ConnectDarkreel, DisconnectDarkreel, DeleteUser,
       GrowStale, Purge, SweepStale, BeginShutdown, Boot, vars, semVars, storeVars

(* Every step preserves the invariant of the semaphore (pipeline.ts 54-75).  *)
LEMMA SemInvStep == SemInv /\ [Next]_vars => SemInv'
<1> SUFFICES ASSUME SemInv, [Next]_vars
             PROVE  SemInv'
  OBVIOUS
<1>1. ASSUME NEW u \in User, Submit(u)
      PROVE  SemInv'
  BY <1>1, AcquireInv DEF Submit
<1>2. ASSUME NEW j \in Job, TaskStep(j)
      PROVE  SemInv'
  BY <1>2, TaskStepShape, GotoInv, ReleaseInv
<1>3. CASE Die
  BY <1>3, DieInv
<1>4. CASE OtherStep
  BY <1>4, OtherStepShape
  DEF SemInv, SemType, SlotAccounting, Ordered, FirstComeFirstServed, Waiting, SlotHolders
<1>5. QED
  BY <1>1, <1>2, <1>3, <1>4, NextCases

(* A fresh process has an empty semaphore.                                   *)
LEMMA SemInvInit == Init => SemInv
<1> SUFFICES ASSUME Init
             PROVE  SemInv
  OBVIOUS
<1>1. /\ task = [j \in Job |-> "none"] /\ running = 0 /\ queue = <<>> /\ nextJob = 1
  BY DEF Init
<1>2. SlotHolders = {} /\ Waiting = {}
  BY <1>1 DEF SlotHolders, Waiting, Holding, WithDir
<1>3. SemType
  BY <1>1, LimitAssumption DEF SemType, TaskPc
<1>4. SlotAccounting
  BY <1>1, <1>2, FS_EmptySet, LimitAssumption DEF SlotAccounting
<1>5. Ordered
  BY <1>1, LimitAssumption DEF Ordered, FirstComeFirstServed, Job
<1>6. QED
  BY <1>3, <1>4, <1>5 DEF SemInv

(* The strengthened invariant of the semaphore holds throughout.             *)
LEMMA SemInvariant == Spec => []SemInv
BY SemInvInit, SemInvStep, PTL DEF Spec

(* The semaphore of the pipeline never lets more than maxConcurrentDownloads *)
(* tasks past acquire, counts them exactly, and never keeps a slot idle      *)
(* while a job waits, for any number of jobs, crashes and sweeps.            *)
THEOREM SlotsAreAccounted == Spec => []SlotAccounting
<1>1. SemInv => SlotAccounting
  BY DEF SemInv
<1>2. QED
  BY <1>1, SemInvariant, PTL

(* Slots are granted in the order of submission (Semaphore.queue).           *)
THEOREM JobsAreServedInOrder == Spec => []FirstComeFirstServed
<1>1. SemInv => FirstComeFirstServed
  BY DEF SemInv, Ordered
<1>2. QED
  BY <1>1, SemInvariant, PTL

----------------------------------------------------------------------------
(* The store: a job in progress shows the status of the await its pipeline  *)
(* is at, which is what makes NoAbandonedJob and the job's lifecycle hold.  *)

Shows(pc) ==
  IF pc \in {"waiting", "granted", "vetting", "extracting", "vettingMedia"} THEN "extracting"
  ELSE IF pc \in {"mkdir", "downloading", "discarding"} THEN "downloading"
  ELSE IF pc = "uploading" THEN "encrypting"
  ELSE "settled"

StoreInv ==
  /\ status \in [Job -> Status]
  /\ owner \in [Job -> User]
  /\ stale \subseteq Job /\ \A j \in stale : Active(j)
  /\ \A j \in Job : task[j] = "none" => status[j] = "absent"
  /\ \A j \in Job : Active(j) => status[j] = Shows(task[j])

(* What a step of task j may do to the store.                                *)
Moved(j) ==
  /\ status' \in [Job -> Status]
  /\ stale' \subseteq stale /\ (j \in stale' => status'[j] = status[j])
  /\ \A k \in Job : k # j => status'[k] = status[k]
  /\ status'[j] # status[j] =>
       Active(j) /\ status'[j] # "absent" /\ status'[j] \in Lifecycle!After(status[j])
  /\ status'[j] \in ActiveStatus => status'[j] = Shows(task'[j])

(* The tasks after a release: one waiter at most is granted the slot.        *)
LEMMA ReleaseTask ==
  ASSUME SemInv, NEW j \in Job, task[j] \in Holding, Release(j)
  PROVE  /\ task'[j] = "ended"
         /\ \A k \in Job : k # j => \/ task'[k] = task[k]
                                    \/ task[k] = "waiting" /\ task'[k] = "granted"
<1>1. CASE queue = <<>>
  BY <1>1 DEF Release, SemInv, SemType
<1>2. CASE queue # <<>>
  <2> DEFINE h == Head(queue)
  <2>1. h \in Job /\ 1 \in DOMAIN queue /\ h = queue[1]
    BY <1>2, HeadTailProperties, LenProperties DEF SemInv, SemType
  <2>2. task[h] = "waiting"
    BY <2>1 DEF SemInv, SlotAccounting, Waiting
  <2>3. h # j
    BY <2>2 DEF Holding, WithDir
  <2>4. QED
    BY <1>2, <2>1, <2>2, <2>3 DEF Release, SemInv, SemType
<1>3. QED
  BY <1>1, <1>2

(* The tasks after a move to the next await.                                 *)
LEMMA GotoTask ==
  ASSUME SemInv, NEW j \in Job, NEW pc, Goto(j, pc)
  PROVE  task'[j] = pc /\ \A k \in Job : k # j => task'[k] = task[k]
BY DEF Goto, SemInv, SemType

(* JobStore.update.                                                          *)
LEMMA UpdateShape ==
  ASSUME StoreInv, NEW j \in Job, NEW s \in Status, Update(j, s)
  PROVE  /\ status' \in [Job -> Status]
         /\ status'[j] = IF Active(j) THEN s ELSE status[j]
         /\ \A k \in Job : k # j => status'[k] = status[k]
         /\ stale' \subseteq stale
         /\ j \in stale' => ~Active(j)
BY DEF StoreInv, Update

(* What a step of task j does to the store: it updates its own job, and a    *)
(* task that ends leaves that job settled.                                   *)
LEMMA TaskStepStore ==
  ASSUME SemInv, StoreInv, NEW j \in Job, TaskStep(j)
  PROVE  Moved(j)
<1> USE DEF Moved, Shows, ActiveStatus, TerminalStatus, Status, Active, Holding, WithDir,
            Lifecycle!After, Lifecycle!Settled
<1>0. /\ status \in [Job -> Status] /\ stale \subseteq Job
      /\ Active(j) => status[j] = Shows(task[j])
      /\ \A k \in stale : Active(k)
  BY DEF StoreInv
<1>a. ASSUME UNCHANGED <<status, stale>>, ~Active(j) \/ Shows(task'[j]) = Shows(task[j])
      PROVE  Moved(j)
  BY <1>0, <1>a
<1>b. ASSUME NEW s \in Status, Update(j, s), s # "absent",
             s \in ActiveStatus => s = Shows(task'[j]),
             Active(j) => s \in Lifecycle!After(status[j])
      PROVE  Moved(j)
  BY <1>0, <1>b, UpdateShape
<1>c. ASSUME Fail(j), task[j] \notin {"removing", "ended", "none"} PROVE Moved(j)
  <2>1. Update(j, "failed")
    BY <1>c DEF Fail
  <2>2. Active(j) => "failed" \in Lifecycle!After(status[j])
    BY <1>0
  <2>3. QED
    BY <2>1, <2>2, <1>b
<1>1. CASE StartSwept(j)
  BY <1>1, <1>a DEF StartSwept, storeVars
<1>2. CASE StartRefused(j)
  BY <1>2, <1>c DEF StartRefused
<1>3. CASE StartVetting(j)
  BY <1>3, <1>a, GotoTask DEF StartVetting, storeVars
<1>4. CASE VetRefused(j)
  BY <1>4, <1>c DEF VetRefused
<1>5. CASE VetPage(j)
  BY <1>5, <1>0, <1>b, GotoTask DEF VetPage
<1>6. CASE VetMedia(j)
  BY <1>6, <1>0, <1>b, GotoTask DEF VetMedia
<1>7. CASE ExtractFound(j)
  BY <1>7, <1>a, GotoTask DEF ExtractFound, storeVars
<1>8. CASE ExtractFailed(j)
  BY <1>8, <1>c DEF ExtractFailed
<1>9. CASE VetFound(j)
  BY <1>9, <1>0, <1>b, GotoTask DEF VetFound
<1>10. CASE MakeDir(j)
  BY <1>10, <1>a, GotoTask DEF MakeDir, storeVars
<1>11. CASE MakeDirFailed(j)
  BY <1>11, <1>c DEF MakeDirFailed
<1>12. CASE DownloadFailed(j)
  BY <1>12, <1>a, GotoTask DEF DownloadFailed, storeVars
<1>13. CASE Discarded(j)
  BY <1>13, <1>c DEF Discarded
<1>14. CASE Downloaded(j)
  <2>1. CASE ~Active(j)
    BY <1>14, <2>1, <1>a DEF Downloaded
  <2>2. CASE Active(j)
    <3>1. /\ task[j] = "downloading"
          /\ \/ Update(j, "failed") /\ Goto(j, "removing")
             \/ Update(j, "done") /\ Goto(j, "removing")
             \/ Update(j, "encrypting") /\ Goto(j, "uploading")
             \/ UNCHANGED <<status, stale>> /\ Goto(j, "discarding")
      BY <1>14, <2>2 DEF Downloaded
    <3>2. status[j] = "downloading"
      BY <2>2, <3>1, <1>0
    <3>3. CASE UNCHANGED <<status, stale>> /\ Goto(j, "discarding")
      BY <3>1, <3>3, <1>a, GotoTask
    <3>4. QED
      BY <3>1, <3>2, <3>3, <1>b, GotoTask
  <2>3. QED
    BY <2>1, <2>2
<1>15. CASE Uploaded(j)
  BY <1>15, <1>0, <1>b DEF Uploaded
<1>16. CASE UploadFailed(j)
  BY <1>16, <1>0, <1>b DEF UploadFailed
<1>17. CASE Removed(j)
  <2>1. ~Active(j)
    BY <1>17, <1>0 DEF Removed
  <2>2. QED
    BY <1>17, <2>1, <1>a DEF Removed, storeVars
<1>18. QED
  BY <1>1, <1>2, <1>3, <1>4, <1>5, <1>6, <1>7, <1>8, <1>9, <1>10, <1>11, <1>12,
     <1>13, <1>14, <1>15, <1>16, <1>17 DEF TaskStep

(* JobStore.evict deletes terminal jobs only.                                *)
LEMMA EvictShape ==
  ASSUME NEW st \in [Job -> Status]
  PROVE  /\ Evict(st) \in [Job -> Status]
         /\ \A i \in Job : \/ Evict(st)[i] = st[i]
                           \/ st[i] \in TerminalStatus /\ Evict(st)[i] = "absent"
<1> DEFINE gone(i) == /\ i \in {k \in Job : st[k] \in TerminalStatus}
                      /\ Cardinality({k \in {l \in Job : st[l] \in TerminalStatus} : k < i})
                           < Cardinality({k \in Job : st[k] # "absent"}) - MaxHistory
<1>1. Evict(st) = [i \in Job |-> IF gone(i) THEN "absent" ELSE st[i]]
  BY DEF Evict
<1>2. \A i \in Job : gone(i) => st[i] \in TerminalStatus
  OBVIOUS
<1> HIDE DEF gone
<1>3. QED
  BY <1>1, <1>2 DEF Status

(* A submission adds one job in extracting and evicts terminal ones.         *)
LEMMA SubmitStore ==
  ASSUME SemInv, StoreInv, NEW u \in User, Submit(u)
  PROVE  /\ nextJob \in Job /\ status[nextJob] = "absent" /\ status'[nextJob] = "extracting"
         /\ status' \in [Job -> Status]
         /\ \A i \in Job : i # nextJob =>
              \/ status'[i] = status[i]
              \/ status[i] \in TerminalStatus /\ status'[i] = "absent"
         /\ task'[nextJob] \in {"waiting", "granted"}
         /\ \A i \in Job : i # nextJob => task'[i] = task[i]
<1> DEFINE st == [status EXCEPT ![nextJob] = "extracting"]
<1>1. /\ nextJob \in Job /\ task[nextJob] = "none" /\ status[nextJob] = "absent"
      /\ status' = Evict(st) /\ Acquire(nextJob)
  BY LimitAssumption DEF Submit, SemInv, SemType, Ordered, StoreInv, Job
<1>2. st \in [Job -> Status] /\ st[nextJob] = "extracting"
  BY <1>1 DEF StoreInv, Status, ActiveStatus
<1>3. /\ task'[nextJob] \in {"waiting", "granted"}
      /\ \A i \in Job : i # nextJob => task'[i] = task[i]
  BY <1>1 DEF Acquire, SemInv, SemType
<1>4. \A i \in Job : i # nextJob => st[i] = status[i]
  BY <1>1 DEF StoreInv
<1> HIDE DEF st
<1>5. QED
  BY <1>1, <1>2, <1>3, <1>4, EvictShape DEF TerminalStatus

(* The other steps: the sweep fails stale jobs, the rest leaves the store.   *)
LEMMA OtherStepStore ==
  ASSUME StoreInv, OtherStep
  PROVE  /\ status' \in [Job -> Status]
         /\ stale' \subseteq Job
         /\ \A i \in Job : \/ status'[i] = status[i]
                           \/ Active(i) /\ status'[i] = "failed"
         /\ \A i \in stale' : status'[i] \in ActiveStatus
<1>1. CASE SweepStale
  BY <1>1 DEF SweepStale, StoreInv, Status, TerminalStatus, Active
<1>2. ASSUME NEW j \in Job, GrowStale(j)
      PROVE  UNCHANGED status /\ stale' \subseteq Job /\ \A i \in stale' : Active(i)
  BY <1>2 DEF GrowStale, StoreInv
<1>3. CASE OtherStep /\ ~SweepStale /\ ~\E j \in Job : GrowStale(j)
  <2>1. UNCHANGED <<status, stale>>
    BY <1>3 DEF OtherStep, Login, SessionEnds, ConnectDarkreel, DisconnectDarkreel,
         DeleteUser, Purge, BeginShutdown, Boot, vars, storeVars
  <2>2. QED
    BY <2>1 DEF StoreInv, Active
<1>4. QED
  BY <1>1, <1>2, <1>3 DEF StoreInv, Active

(* Every step preserves: the status a job shows matches its await.           *)
LEMMA StoreInvStep == SemInv /\ StoreInv /\ [Next]_vars => StoreInv'
<1> SUFFICES ASSUME SemInv, StoreInv, [Next]_vars
             PROVE  StoreInv'
  OBVIOUS
<1> USE DEF Active
<1>1. ASSUME NEW u \in User, Submit(u)
      PROVE  StoreInv'
  <2>1. /\ owner' \in [Job -> User] /\ stale' = stale
    BY <1>1 DEF Submit, StoreInv
  <2>2. \A i \in Job : i # nextJob => status'[i] = status[i] \/ status'[i] = "absent"
    BY <1>1, SubmitStore
  <2>3. \A i \in stale : status'[i] \in ActiveStatus
    BY <1>1, SubmitStore DEF StoreInv, ActiveStatus, TerminalStatus
  <2>4. \A i \in Job : task'[i] = "none" => status'[i] = "absent"
    BY <1>1, <2>2, SubmitStore DEF StoreInv
  <2>5. \A i \in Job : status'[i] \in ActiveStatus => status'[i] = Shows(task'[i])
    BY <1>1, <2>2, SubmitStore DEF StoreInv, Shows, ActiveStatus
  <2>6. QED
    BY <1>1, <2>1, <2>3, <2>4, <2>5, SubmitStore DEF StoreInv
<1>2. ASSUME NEW j \in Job, TaskStep(j)
      PROVE  StoreInv'
  <2>1. Moved(j) /\ owner' = owner
    BY <1>2, TaskStepStore, TaskStepShape
  <2>2. /\ task'[j] # "none"
        /\ \A k \in Job : k # j => \/ task'[k] = task[k]
                                   \/ task[k] = "waiting" /\ task'[k] = "granted"
    BY <1>2, TaskStepShape, GotoTask, ReleaseTask DEF Holding, WithDir
  <2>3. \A k \in Job : k # j => Shows(task'[k]) = Shows(task[k])
    BY <2>2 DEF Shows
  <2>4. QED
    BY <2>1, <2>2, <2>3 DEF Moved, StoreInv
<1>3. CASE Die
  BY <1>3 DEF Die, StoreInv, Status, ActiveStatus
<1>4. CASE OtherStep
  BY <1>4, OtherStepStore, OtherStepShape DEF StoreInv, ActiveStatus
<1>5. QED
  BY <1>1, <1>2, <1>3, <1>4, NextCases

(* The invariant that ties the store to the tasks holds throughout.          *)
LEMMA StoreInvariant == Spec => []StoreInv
<1>1. Init => StoreInv
  BY UserAssumption DEF Init, StoreInv, Active, Status, ActiveStatus
<1>2. QED
  BY <1>1, StoreInvStep, SemInvariant, PTL DEF Spec

(* No exit path of processJob or uploadStep leaves a job in progress behind  *)
(* without a pipeline that works on it.                                      *)
THEOREM NoJobIsAbandoned == Spec => []NoAbandonedJob
<1>1. SemInv /\ StoreInv => NoAbandonedJob
  BY DEF SemInv, SemType, StoreInv, NoAbandonedJob, Active, Shows, ActiveStatus,
         TaskPc, Holding, WithDir
<1>2. QED
  BY <1>1, SemInvariant, StoreInvariant, PTL

(* A job turns done only with its media in Darkreel or without a delegation. *)
THEOREM DoneMeansDelivered == Spec => NoPhantomSuccess
<1> DEFINE P == \A j \in Job : status[j] # "done" /\ status'[j] = "done"
                   => j \in darkreel' \/ owner[j] \notin delegation
<1>1. SemInv /\ StoreInv /\ [Next]_vars => [P]_vars
  <2> SUFFICES ASSUME SemInv, StoreInv, [Next]_vars, NEW i \in Job,
                      status[i] # "done", status'[i] = "done"
               PROVE  i \in darkreel' \/ owner[i] \notin delegation
    OBVIOUS
  <2>1. ASSUME NEW u \in User, Submit(u)
        PROVE  FALSE
    BY <2>1, SubmitStore
  <2>2. ASSUME NEW j \in Job, TaskStep(j)
        PROVE  i \in darkreel' \/ owner[i] \notin delegation
    <3>1. i = j
      BY <2>2, TaskStepStore DEF Moved
    <3>2. ~(\E s \in Status \ {"done"} : Update(j, s)) /\ ~UNCHANGED status
      BY <3>1, UpdateShape
    <3>3. {"failed", "extracting", "downloading", "encrypting"} \subseteq Status \ {"done"}
      BY DEF Status, ActiveStatus, TerminalStatus
    <3>4. ~Fail(j)
      BY <3>2, <3>3 DEF Fail
    <3>5. Uploaded(j) \/ Downloaded(j)
      BY <2>2, <3>2, <3>3, <3>4 DEF TaskStep, StartSwept, StartRefused, StartVetting,
         VetRefused, VetPage, VetMedia, ExtractFound, ExtractFailed, VetFound, MakeDir,
         MakeDirFailed, DownloadFailed, Discarded, UploadFailed, Removed, storeVars
    <3>6. CASE Uploaded(j)
      BY <3>1, <3>6 DEF Uploaded
    <3>7. CASE Downloaded(j)
      <4>1. Active(j) /\ "not-configured" \in DelegationState(owner[j])
        BY <3>2, <3>3, <3>7 DEF Downloaded
      <4>2. QED
        BY <3>1, <4>1 DEF DelegationState
    <3>8. QED
      BY <3>5, <3>6, <3>7
  <2>3. CASE Die
    BY <2>3 DEF Die
  <2>4. CASE OtherStep
    BY <2>4, OtherStepStore
  <2>5. QED
    BY <2>1, <2>2, <2>3, <2>4, NextCases
<1>2. QED
  BY <1>1, SemInvariant, StoreInvariant, PTL DEF Spec, NoPhantomSuccess

----------------------------------------------------------------------------
(* The store's size.  Eviction keeps it at maxHistory unless active jobs     *)
(* alone exceed that, and the per-user cap bounds those.                     *)

(* Counting a set by the owners of its elements: at most n for each user.    *)
LEMMA CountByOwner ==
  ASSUME NEW S \in SUBSET Job, NEW own \in [Job -> User], NEW n \in Nat,
         \A u \in User : Cardinality({j \in S : own[j] = u}) <= n
  PROVE  Cardinality(S) <= Cardinality(User) * n
<1> DEFINE Of(u) == {j \in S : own[j] = u}
<1>1. \A u \in User : IsFiniteSet(Of(u)) /\ Cardinality(Of(u)) \in Nat
  BY JobsFinite, FS_CardinalityType
<1>2. \A u \in User : \E g : g \in Injection(Of(u), 1 .. n)
  <2>1. SUFFICES ASSUME NEW u \in User
                 PROVE  \E g : g \in Injection(Of(u), 1 .. n)
    OBVIOUS
  <2> DEFINE C == Cardinality(Of(u))
  <2>a. C \in Nat /\ C <= n /\ IsFiniteSet(Of(u))
    BY <1>1
  <2> HIDE DEF C
  <2>2. C \in Nat /\ C <= n /\ IsFiniteSet(1 .. C) /\ Cardinality(1 .. C) = C
    BY <2>a, FS_Interval
  <2>3. ExistsBijection(Of(u), 1 .. C)
    BY <2>a, <2>2, FS_SameCardinalityBij DEF C
  <2>4. PICK g : g \in Bijection(Of(u), 1 .. C)
    BY <2>3 DEF ExistsBijection
  <2>5. g \in Injection(Of(u), 1 .. n)
    BY <2>2, <2>4 DEF Bijection, Injection, IsInjective, Surjection
  <2>6. QED
    BY <2>5
<1> DEFINE Rank == [u \in User |-> CHOOSE g : g \in Injection(Of(u), 1 .. n)]
           f == [j \in S |-> <<own[j], Rank[own[j]][j]>>]
<1>3. \A u \in User : Rank[u] \in Injection(Of(u), 1 .. n)
  BY <1>2
<1> HIDE DEF Rank
<1>4. f \in Injection(S, User \X (1 .. n))
  <2>1. \A j \in S : own[j] \in User /\ j \in Of(own[j])
    OBVIOUS
  <2>2. \A j \in S : Rank[own[j]][j] \in 1 .. n
    BY <1>3, <2>1 DEF Injection
  <2>3. f \in [S -> User \X (1 .. n)]
    BY <2>1, <2>2
  <2>4. ASSUME NEW a \in S, NEW b \in S, f[a] = f[b]
        PROVE  a = b
    <3>1. own[a] = own[b] /\ Rank[own[a]][a] = Rank[own[a]][b]
      BY <2>4
    <3>2. a \in Of(own[a]) /\ b \in Of(own[a])
      BY <3>1, <2>1
    <3>3. QED
      BY <3>1, <3>2, <1>3, <2>1 DEF Injection, IsInjective
  <2>5. QED
    BY <2>3, <2>4 DEF Injection, IsInjective
<1>5. /\ IsFiniteSet(User \X (1 .. n))
      /\ Cardinality(User \X (1 .. n)) = Cardinality(User) * n
  <2>1. IsFiniteSet(1 .. n) /\ Cardinality(1 .. n) = n
    BY FS_Interval
  <2>2. QED
    BY <2>1, FS_Product, UserAssumption
<1>6. QED
  BY <1>4, <1>5, FS_Injection

(* The oldest e of a set of jobs: either all of them or at least e.          *)
LEMMA OldestSuffice ==
  ASSUME NEW T \in SUBSET Job, NEW e \in Int,
         {i \in T : Cardinality({k \in T : k < i}) < e} # T
  PROVE  Cardinality({i \in T : Cardinality({k \in T : k < i}) < e}) >= e
<1> DEFINE Older(i) == {k \in T : k < i}
           D == {i \in T : Cardinality(Older(i)) < e}
           Late == {Older(i) : i \in T \ D}
<1>1. IsFiniteSet(T)
  BY JobsFinite
<1>2. \A i \in T : Older(i) \in FiniteSubsetsOf(T) /\ Cardinality(Older(i)) \in Nat
  BY <1>1, FS_Subset, FS_CardinalityType DEF FiniteSubsetsOf
<1>3. Late \subseteq FiniteSubsetsOf(T) /\ Late # {}
  BY <1>2
<1>4. PICK m \in T \ D : \A i \in T \ D : <<Older(i), Older(m)>> \notin StrictSubsetOrdering(T)
  <2>1. \E x \in Late : \A y \in Late : <<y, x>> \notin StrictSubsetOrdering(T)
    BY <1>3, WFMin, FS_StrictSubsetOrderingWellFounded
  <2>2. QED
    BY <2>1
<1>5. Older(m) \subseteq D
  <2>1. SUFFICES ASSUME NEW k \in T, k < m, k \notin D
                 PROVE  FALSE
    OBVIOUS
  <2>2. Older(k) \subseteq Older(m) /\ k \in Older(m) /\ k \notin Older(k)
    <3>1. \A i \in T : i \in Int
      BY DEF Job
    <3>2. k \in Int /\ m \in Int /\ k < m /\ ~(k < k)
      BY <2>1, <3>1
    <3>3. \A i \in T : i < k => i < m
      BY <3>1, <3>2
    <3>4. QED
      BY <2>1, <3>2, <3>3
  <2>3. <<Older(k), Older(m)>> \in StrictSubsetOrdering(T)
    BY <2>2 DEF StrictSubsetOrdering
  <2>4. QED
    BY <1>4, <2>1, <2>3
<1>6. IsFiniteSet(D) /\ Cardinality(D) \in Nat
  BY <1>1, FS_Subset, FS_CardinalityType
<1>7. Cardinality(Older(m)) <= Cardinality(D)
  BY <1>5, <1>6, FS_Subset
<1>8. Cardinality(Older(m)) >= e
  BY <1>2, <1>4
<1>9. QED
  BY <1>2, <1>6, <1>7, <1>8

(* JobStore.evict leaves maxHistory jobs, or the active ones.                *)
LEMMA EvictBound ==
  ASSUME NEW st \in [Job -> Status],
         Cardinality({i \in Job : Evict(st)[i] # "absent"}) > MaxHistory
  PROVE  {i \in Job : Evict(st)[i] # "absent"} \subseteq {i \in Job : st[i] \in ActiveStatus}
<1> DEFINE T == {i \in Job : st[i] \in TerminalStatus}
           P == {i \in Job : st[i] # "absent"}
           e == Cardinality(P) - MaxHistory
           D == {i \in T : Cardinality({k \in T : k < i}) < e}
           Q == {i \in Job : Evict(st)[i] # "absent"}
<1>1. Q = P \ D
  <2>1. Evict(st) = [i \in Job |-> IF i \in D THEN "absent" ELSE st[i]]
    BY DEF Evict
  <2> HIDE DEF D
  <2>2. QED
    BY <2>1
<1>2. T \in SUBSET Job /\ D \subseteq P /\ D \subseteq T
  BY DEF TerminalStatus
<1>3. /\ IsFiniteSet(P) /\ IsFiniteSet(D)
      /\ Cardinality(P) \in Nat /\ Cardinality(D) \in Nat /\ e \in Int
  <2>1. P \in SUBSET Job /\ D \in SUBSET Job
    BY <1>2
  <2> HIDE DEF P, D
  <2>2. /\ IsFiniteSet(P) /\ IsFiniteSet(D)
        /\ Cardinality(P) \in Nat /\ Cardinality(D) \in Nat
    BY <2>1, JobsFinite, FS_CardinalityType
  <2>3. QED
    BY <2>2, LimitAssumption
<1>4. P \cap D = D
  BY <1>2
<1>5. Cardinality(Q) = Cardinality(P) - Cardinality(D)
  <2> HIDE DEF P, D, Q
  <2>1. QED
    BY <1>1, <1>3, <1>4, FS_Difference
<1>6. Cardinality(D) < e
  BY <1>3, <1>5, LimitAssumption
<1>7. D = T
  <2>1. D # T => Cardinality(D) >= e
    BY <1>2, <1>3, OldestSuffice
  <2>2. QED
    BY <2>1, <1>3, <1>6
<1>8. \A i \in P \ T : st[i] \in ActiveStatus
  BY DEF Status
<1>9. QED
  BY <1>1, <1>7, <1>8

BoundInv == StoreBounded /\ \A u \in User : Cardinality(ActiveJobs(u)) <= MaxActive

(* A step that adds no job to the store and makes none active.               *)
LEMMA BoundKept ==
  ASSUME BoundInv, \A j \in Job : status'[j] # "absent" => status[j] # "absent",
         \A j \in Job : Active(j)' => Active(j), owner' = owner
  PROVE  BoundInv'
<1> DEFINE P == {j \in Job : status[j] # "absent"}
<1>1. P' \subseteq P /\ IsFiniteSet(P) /\ IsFiniteSet(P')
  BY JobsFinite
<1>2. Cardinality(P') <= Cardinality(P) /\ Cardinality(P) \in Nat /\ Cardinality(P') \in Nat
  BY <1>1, FS_Subset, FS_CardinalityType
<1>3. StoreBounded'
  BY <1>2, UserAssumption, FS_CardinalityType, LimitAssumption DEF BoundInv, StoreBounded
<1>4. ASSUME NEW u \in User
      PROVE  Cardinality(ActiveJobs(u))' <= MaxActive
  <2>1. ActiveJobs(u)' \subseteq ActiveJobs(u) /\ IsFiniteSet(ActiveJobs(u))
        /\ IsFiniteSet(ActiveJobs(u)')
    BY JobsFinite DEF ActiveJobs
  <2>2. /\ Cardinality(ActiveJobs(u)') <= Cardinality(ActiveJobs(u))
        /\ Cardinality(ActiveJobs(u)) \in Nat /\ Cardinality(ActiveJobs(u)') \in Nat
    BY <2>1, FS_Subset, FS_CardinalityType
  <2>3. QED
    BY <2>2, LimitAssumption DEF BoundInv
<1>5. QED
  BY <1>3, <1>4 DEF BoundInv

(* A submission: the cap admits the new job, the eviction makes room.        *)
LEMMA BoundSubmit ==
  ASSUME SemInv, StoreInv, BoundInv, NEW u \in User, Submit(u)
  PROVE  BoundInv'
<1>0. PICK n \in Job : n = nextJob
  BY SubmitStore
<1> DEFINE st == [status EXCEPT ![n] = "extracting"]
<1>1. /\ status[n] = "absent" /\ status' = Evict(st)
      /\ Cardinality(ActiveJobs(u)) < MaxActive
      /\ owner' = [owner EXCEPT ![n] = u] /\ owner' \in [Job -> User]
  BY <1>0, SubmitStore DEF Submit, StoreInv
<1>2. \A i \in Job : i # n => (Active(i)' <=> Active(i)) /\ owner'[i] = owner[i]
  BY <1>0, <1>1, SubmitStore DEF Active, ActiveStatus, TerminalStatus, StoreInv
<1>3. Active(n)' /\ ~Active(n) /\ owner'[n] = u
  <2>1. status'[n] = "extracting"
    BY <1>0, SubmitStore
  <2>2. Active(n)' /\ ~Active(n)
    BY <1>1, <2>1 DEF Active, ActiveStatus
  <2>3. QED
    BY <1>1, <2>2 DEF StoreInv
<1>4. ASSUME NEW v \in User
      PROVE  Cardinality(ActiveJobs(v))' <= MaxActive
  <2>1. IsFiniteSet(ActiveJobs(v)) /\ Cardinality(ActiveJobs(v)) \in Nat
    BY JobsFinite, FS_CardinalityType DEF ActiveJobs
  <2>2. CASE v = u
    <3>1. ActiveJobs(v)' = ActiveJobs(v) \cup {n} /\ n \notin ActiveJobs(v)
      BY <1>1, <1>2, <1>3, <2>2 DEF ActiveJobs, Active
    <3>2. Cardinality(ActiveJobs(v)') = Cardinality(ActiveJobs(v)) + 1
      BY <2>1, <3>1, FS_AddElement
    <3>3. QED
      BY <1>1, <2>1, <2>2, <3>2, LimitAssumption
  <2>3. CASE v # u
    <3>1. ActiveJobs(v)' = ActiveJobs(v)
      BY <1>1, <1>2, <1>3, <2>3 DEF ActiveJobs
    <3>2. QED
      BY <3>1 DEF BoundInv
  <2>4. QED
    BY <2>2, <2>3
<1>5. Cardinality({j \in Job : Active(j)'}) <= Cardinality(User) * MaxActive
  <2> DEFINE S == {j \in Job : Active(j)'}
  <2>1. \A v \in User : {j \in S : owner'[j] = v} = ActiveJobs(v)'
    BY DEF ActiveJobs
  <2>2. S \in SUBSET Job /\ \A v \in User : Cardinality({j \in S : owner'[j] = v}) <= MaxActive
    BY <1>4, <2>1
  <2> HIDE DEF S
  <2>3. Cardinality(S) <= Cardinality(User) * MaxActive
    BY <1>1, <2>2, CountByOwner, LimitAssumption
  <2>4. QED
    BY <2>3 DEF S
<1> DEFINE Q == {j \in Job : status'[j] # "absent"}
           A == {j \in Job : Active(j)'}
           c == Cardinality(User) * MaxActive
<1>6. c \in Nat /\ Cardinality(Q) \in Nat /\ IsFiniteSet(A) /\ Cardinality(A) \in Nat
  BY JobsFinite, UserAssumption, FS_CardinalityType, LimitAssumption
<1>7. Cardinality(Q) > MaxHistory => Q \subseteq A
  <2>1. st \in [Job -> Status] /\ Q = {i \in Job : Evict(st)[i] # "absent"}
    BY <1>1 DEF StoreInv, Status, ActiveStatus
  <2>2. \A i \in Job : st[i] \in ActiveStatus => i \in A
    <3>1. \A i \in Job : i # n => st[i] = status[i]
      BY <1>1 DEF StoreInv
    <3>2. \A i \in Job : i # n /\ status[i] \in ActiveStatus => Active(i)'
      BY <1>2 DEF Active
    <3>3. QED
      BY <3>1, <3>2, <1>3
  <2> HIDE DEF A, Q, st
  <2>3. QED
    BY <2>1, <2>2, EvictBound
<1>8. Cardinality(Q) <= MaxHistory \/ Cardinality(Q) <= c
  <2>1. CASE Cardinality(Q) > MaxHistory
    <3>1. Cardinality(Q) <= Cardinality(A)
      BY <1>6, <1>7, <2>1, FS_Subset
    <3>2. QED
      BY <1>5, <1>6, <3>1
  <2>2. QED
    BY <1>6, <2>1, LimitAssumption
<1>9. StoreBounded'
  BY <1>6, <1>8, LimitAssumption DEF StoreBounded
<1>10. QED
  BY <1>4, <1>9 DEF BoundInv

(* No step lets the store outgrow its bound.                                 *)
LEMMA BoundStep == SemInv /\ StoreInv /\ BoundInv /\ [Next]_vars => BoundInv'
<1> SUFFICES ASSUME SemInv, StoreInv, BoundInv, [Next]_vars
             PROVE  BoundInv'
  OBVIOUS
<1> DEFINE Kept == /\ \A j \in Job : status'[j] # "absent" => status[j] # "absent"
                   /\ \A j \in Job : Active(j)' => Active(j)
                   /\ owner' = owner
<1>0. Kept => BoundInv'
  BY BoundKept
<1>1. ASSUME NEW u \in User, Submit(u)
      PROVE  BoundInv'
  BY <1>1, BoundSubmit
<1>2. ASSUME NEW j \in Job, TaskStep(j)
      PROVE  Kept
  <2>1. Moved(j) /\ owner' = owner
    BY <1>2, TaskStepStore, TaskStepShape
  <2>2. QED
    BY <2>1 DEF Moved, Active, ActiveStatus
<1>3. ASSUME Die
      PROVE  Kept
  BY <1>3 DEF Die, Active, ActiveStatus
<1>4. ASSUME OtherStep
      PROVE  Kept
  BY <1>4, OtherStepStore, OtherStepShape DEF Active, ActiveStatus
<1>5. QED
  BY <1>0, <1>1, <1>2, <1>3, <1>4, NextCases

(* The store never holds more jobs than maxHistory, or than the users' caps  *)
(* together when that is more, although eviction takes settled jobs only and *)
(* runs only at a creation.                                                  *)
THEOREM StoreStaysBounded == Spec => []StoreBounded
<1>1. Init => BoundInv
  <2> SUFFICES ASSUME Init
               PROVE  BoundInv
    OBVIOUS
  <2>1. {j \in Job : status[j] # "absent"} = {} /\ \A u \in User : ActiveJobs(u) = {}
    BY DEF Init, ActiveJobs, Active, ActiveStatus
  <2>2. Cardinality(User) * MaxActive \in Nat
    BY UserAssumption, LimitAssumption, FS_CardinalityType
  <2>3. /\ Cardinality({j \in Job : status[j] # "absent"}) = 0
        /\ \A u \in User : Cardinality(ActiveJobs(u)) = 0
    BY <2>1, FS_EmptySet
  <2>4. QED
    BY <2>2, <2>3, LimitAssumption DEF BoundInv, StoreBounded
<1>2. BoundInv => StoreBounded
  BY DEF BoundInv
<1>3. QED
  BY <1>1, <1>2, BoundStep, SemInvariant, StoreInvariant, PTL DEF Spec

----------------------------------------------------------------------------
(* The job directories.  PlaintextOwned is inductive once it is known that   *)
(* only directories of ended tasks are on the purge's list or left behind,   *)
(* and that nothing runs while the process is down.                          *)

DirInv ==
  /\ dirs \subseteq Job /\ purging \subseteq Job /\ left \subseteq Job
  /\ phase \in {"up", "stopping", "down"}
  /\ Up => dirs = purging \cup {j \in Job : task[j] \in WithDir} \cup left
  /\ \A j \in purging \cup left : task[j] = "ended"
  /\ purging \cap left = {}
  /\ ~Up => /\ purging = {} /\ left = {}
            /\ \A j \in Job : task[j] \in {"none", "ended"}
            /\ \A j \in dirs : task[j] = "ended"

(* What a step of task j does to its directory.                              *)
LEMMA TaskStepDir ==
  ASSUME SemInv, DirInv, NEW j \in Job, TaskStep(j)
  PROVE  /\ purging' = purging
         /\ \/ /\ dirs' = IF task'[j] \in WithDir THEN dirs \cup {j} ELSE dirs \ {j}
               /\ left' = left
            \/ /\ task[j] \in WithDir /\ task'[j] = "ended"
               /\ dirs' = dirs /\ left' = left \cup {j}
<1> USE DEF diskVars, WithDir
<1>0. /\ j \in dirs <=> task[j] \in WithDir
      /\ Release(j) => task'[j] = "ended"
      /\ \A pc : Goto(j, pc) => task'[j] = pc
  BY TaskStepShape, ReleaseTask, GotoTask DEF DirInv, Holding
<1>1. CASE StartSwept(j) BY <1>0, <1>1 DEF StartSwept
<1>2. CASE StartRefused(j) BY <1>0, <1>2 DEF StartRefused, Fail
<1>3. CASE StartVetting(j) BY <1>0, <1>3 DEF StartVetting
<1>4. CASE VetRefused(j) BY <1>0, <1>4 DEF VetRefused, Fail
<1>5. CASE VetPage(j) BY <1>0, <1>5 DEF VetPage
<1>6. CASE VetMedia(j) BY <1>0, <1>6 DEF VetMedia
<1>7. CASE ExtractFound(j) BY <1>0, <1>7 DEF ExtractFound
<1>8. CASE ExtractFailed(j) BY <1>0, <1>8 DEF ExtractFailed, Fail
<1>9. CASE VetFound(j) BY <1>0, <1>9 DEF VetFound
<1>10. CASE MakeDir(j) BY <1>0, <1>10 DEF MakeDir
<1>11. CASE MakeDirFailed(j) BY <1>0, <1>11 DEF MakeDirFailed, Fail
<1>12. CASE DownloadFailed(j) BY <1>0, <1>12 DEF DownloadFailed
<1>13. CASE Discarded(j) BY <1>0, <1>13 DEF Discarded, Fail, RemoveDir
<1>14. CASE Downloaded(j) BY <1>0, <1>14 DEF Downloaded
<1>15. CASE Uploaded(j) BY <1>0, <1>15 DEF Uploaded
<1>16. CASE UploadFailed(j) BY <1>0, <1>16 DEF UploadFailed
<1>17. CASE Removed(j) BY <1>0, <1>17 DEF Removed, RemoveDir
<1>18. QED
  BY <1>1, <1>2, <1>3, <1>4, <1>5, <1>6, <1>7, <1>8, <1>9, <1>10, <1>11, <1>12,
     <1>13, <1>14, <1>15, <1>16, <1>17 DEF TaskStep

(* Every step preserves the ownership of the job directories.                *)
LEMMA DirInvStep == SemInv /\ DirInv /\ [Next]_vars => DirInv'
<1> SUFFICES ASSUME SemInv, DirInv, [Next]_vars
             PROVE  DirInv'
  OBVIOUS
<1> USE DEF Up
<1>1. ASSUME NEW u \in User, Submit(u)
      PROVE  DirInv'
  <2>1. /\ phase = "up" /\ UNCHANGED <<dirs, purging, left, phase>>
        /\ nextJob \in Job /\ Acquire(nextJob)
    BY <1>1 DEF Submit, diskVars, procVars
  <2>2. /\ task[nextJob] = "none" /\ task'[nextJob] \in {"waiting", "granted"}
        /\ \A i \in Job : i # nextJob => task'[i] = task[i]
    BY <2>1, LimitAssumption DEF Acquire, SemInv, SemType, Ordered, Job
  <2>3. {i \in Job : task'[i] \in WithDir} = {i \in Job : task[i] \in WithDir}
    BY <2>2 DEF WithDir
  <2>4. QED
    BY <2>1, <2>2, <2>3 DEF DirInv
<1>2. ASSUME NEW j \in Job, TaskStep(j)
      PROVE  DirInv'
  <2>1. /\ phase' = phase /\ phase # "down" /\ task[j] # "ended"
        /\ purging' = purging
        /\ \/ /\ dirs' = IF task'[j] \in WithDir THEN dirs \cup {j} ELSE dirs \ {j}
              /\ left' = left
           \/ /\ task[j] \in WithDir /\ task'[j] = "ended"
              /\ dirs' = dirs /\ left' = left \cup {j}
    BY <1>2, TaskStepShape, TaskStepDir DEF procVars, Holding, WithDir
  <2>2. \A k \in Job : k # j => \/ task'[k] = task[k]
                                \/ task[k] = "waiting" /\ task'[k] = "granted"
    BY <1>2, TaskStepShape, ReleaseTask, GotoTask
  <2>3. {k \in Job : task'[k] \in WithDir} \ {j} = {k \in Job : task[k] \in WithDir} \ {j}
    BY <2>2 DEF WithDir
  <2>4. j \notin purging \cup left /\ \A k \in purging \cup left : task'[k] = "ended"
    BY <2>1, <2>2 DEF DirInv
  <2>5. CASE left' = left
    BY <2>1, <2>3, <2>4, <2>5 DEF DirInv
  <2>6. CASE left' = left \cup {j} /\ dirs' = dirs /\ task[j] \in WithDir /\ task'[j] = "ended"
    <3>1. {k \in Job : task[k] \in WithDir} = {k \in Job : task'[k] \in WithDir} \cup {j}
      BY <2>3, <2>6 DEF WithDir
    <3>2. dirs' = purging' \cup {k \in Job : task'[k] \in WithDir} \cup left'
      BY <2>1, <2>6, <3>1 DEF DirInv
    <3>3. QED
      BY <2>1, <2>4, <2>6, <3>2 DEF DirInv
  <2>7. QED
    BY <2>1, <2>5, <2>6
<1>3. CASE Die
  <2>1. /\ purging' = {} /\ left' = {} /\ dirs' = dirs /\ phase' = "down" /\ phase # "down"
        /\ \A k \in Job : task'[k] = IF task[k] = "none" THEN "none" ELSE "ended"
    BY <1>3 DEF Die
  <2>2. QED
    BY <2>1 DEF DirInv, WithDir
<1>4. CASE Boot
  BY <1>4 DEF Boot, DirInv, WithDir
<1>5. ASSUME NEW d \in Job, Purge(d)
      PROVE  DirInv'
  BY <1>5 DEF Purge, RemoveDir, DirInv, WithDir, procVars
<1>6. CASE OtherStep /\ ~Boot /\ ~\E d \in Job : Purge(d)
  <2>1. task' = task
    BY <1>6, OtherStepShape
  <2>2. \/ BeginShutdown
        \/ UNCHANGED <<dirs, purging, left, phase>>
    BY <1>6 DEF OtherStep, Login, SessionEnds, ConnectDarkreel, DisconnectDarkreel, DeleteUser,
       GrowStale, SweepStale, vars, diskVars, procVars
  <2>3. CASE BeginShutdown
    BY <2>1, <2>3 DEF BeginShutdown, DirInv, diskVars
  <2>4. CASE UNCHANGED <<dirs, purging, left, phase>>
    BY <2>1, <2>4 DEF DirInv
  <2>5. QED
    BY <2>2, <2>3, <2>4
<1>7. QED
  BY <1>1, <1>2, <1>3, <1>4, <1>5, <1>6, NextCases

(* The invariant on the job directories holds throughout.                    *)
LEMMA DirInvariant == Spec => []DirInv
<1>1. Init => DirInv
  BY DEF Init, DirInv, Up, WithDir
<1>2. QED
  BY <1>1, DirInvStep, SemInvariant, PTL DEF Spec

(* Every job directory on disk belongs to exactly one of: the task that made *)
(* it, which will try to remove it, the purge of a start after a crash, and  *)
(* those whose removal failed in this run.                                   *)
THEOREM EveryDirectoryHasAnOwner == Spec => []PlaintextOwned
<1>1. DirInv => PlaintextOwned
  BY DEF DirInv, PlaintextOwned, WithDir
<1>2. QED
  BY <1>1, DirInvariant, PTL

----------------------------------------------------------------------------
(* The variables that the invariants above do not type.                      *)
RestType ==
  /\ session \subseteq User /\ delegation \subseteq User
  /\ darkreel \subseteq Job
  /\ crashes \in 0 .. MaxCrashes

(* The type invariant, with the three invariants above as its strengthening: *)
(* running stays in Nat only because every release pairs with an acquire.    *)
THEOREM TypeCorrect == Spec => []TypeOK
<1>1. Init => RestType
  BY LimitAssumption DEF Init, RestType
<1>2. RestType /\ [Next]_vars => RestType'
  <2> SUFFICES ASSUME RestType, [Next]_vars
               PROVE  RestType'
    OBVIOUS
  <2>1. ASSUME NEW j \in Job, TaskStep(j)
        PROVE  RestType'
    <3>1. UNCHANGED <<session, delegation, crashes>>
      BY <2>1, TaskStepShape DEF userVars, procVars
    <3>2. darkreel' \subseteq darkreel \cup {j}
      BY <2>1 DEF TaskStep, StartSwept, StartRefused, StartVetting,
         VetRefused, VetPage, VetMedia, ExtractFound, ExtractFailed, VetFound, MakeDir,
         MakeDirFailed, DownloadFailed, Discarded, Downloaded, Uploaded, UploadFailed, Removed
    <3>3. QED
      BY <3>1, <3>2 DEF RestType
  <2>2. CASE Die
    BY <2>2, LimitAssumption DEF Die, RestType
  <2>3. ASSUME NEW u \in User, Submit(u)
        PROVE  RestType'
    BY <2>3 DEF Submit, RestType, userVars, procVars
  <2>4. CASE OtherStep
    BY <2>4 DEF OtherStep, Login, SessionEnds, ConnectDarkreel, DisconnectDarkreel, DeleteUser,
       GrowStale, Purge, SweepStale, BeginShutdown, Boot, vars, userVars, procVars, RestType
  <2>5. QED
    BY <2>1, <2>2, <2>3, <2>4, NextCases
<1>3. SemInv /\ StoreInv /\ DirInv /\ RestType => TypeOK
  BY DEF SemInv, SemType, StoreInv, DirInv, RestType, TypeOK
<1>4. QED
  BY <1>1, <1>2, <1>3, SemInvariant, StoreInvariant, DirInvariant, PTL DEF Spec

----------------------------------------------------------------------------
(* The pipeline implements the safety part of JobLifecycle: what its owner   *)
(* sees of a job only moves forward, and only a settled job is forgotten     *)
(* while the process lives.  (That every job settles is checked by TLC.)     *)
THEOREM LifecycleRefined == Spec => Lifecycle!Init /\ [][Lifecycle!Next]_View
<1>1. Init => Lifecycle!Init
  BY LimitAssumption DEF Init, Lifecycle!Init, View, Job
<1>2. SemInv /\ StoreInv /\ [Next]_vars => [Lifecycle!Next]_View
  <2> SUFFICES ASSUME SemInv, StoreInv, [Next]_vars
               PROVE  Lifecycle!Progress \/ Lifecycle!Lose
    BY DEF Lifecycle!Next
  <2> USE DEF Status, ActiveStatus, TerminalStatus
  <2>0. /\ \A i \in Job : View[i] = IF status[i] # "absent" THEN status[i]
                                    ELSE IF i < nextJob THEN "gone" ELSE "unseen"
        /\ \A i \in Job : View'[i] = IF status'[i] # "absent" THEN status'[i]
                                     ELSE IF i < nextJob' THEN "gone" ELSE "unseen"
        /\ \A i \in Job : status[i] \in Status
        /\ nextJob \in Int /\ Job \subseteq Int
        /\ \A i \in Job : i >= nextJob => status[i] = "absent"
    BY LimitAssumption DEF View, SemInv, SemType, StoreInv, Ordered, Job
  <2>1. ASSUME NEW i \in Job, status'[i] = status[i], nextJob' = nextJob
        PROVE  View'[i] \in Lifecycle!After(View[i])
    BY <2>0, <2>1 DEF Lifecycle!After, Lifecycle!Settled
  <2>2. ASSUME NEW u \in User, Submit(u)
        PROVE  Lifecycle!Progress
    <3>1. nextJob' = nextJob + 1
      BY <2>2 DEF Submit
    <3>2. View'[nextJob] \in Lifecycle!After(View[nextJob])
      BY <2>0, <2>2, <3>1, SubmitStore DEF Lifecycle!After, Lifecycle!Settled
    <3>3. ASSUME NEW i \in Job, i # nextJob
          PROVE  View'[i] \in Lifecycle!After(View[i])
      <4>1. i < nextJob <=> i < nextJob'
        BY <2>0, <3>1, <3>3
      <4>2. \/ status'[i] = status[i]
            \/ status[i] \in TerminalStatus /\ status'[i] = "absent"
        BY <2>2, <3>3, SubmitStore
      <4>3. QED
        BY <2>0, <4>1, <4>2 DEF Lifecycle!After, Lifecycle!Settled
    <3>4. QED
      BY <3>2, <3>3 DEF Lifecycle!Progress
  <2>3. ASSUME NEW j \in Job, TaskStep(j)
        PROVE  Lifecycle!Progress
    <3>1. Moved(j) /\ nextJob' = nextJob
      BY <2>3, TaskStepStore, TaskStepShape
    <3>2. \A i \in Job : i # j => View'[i] \in Lifecycle!After(View[i])
      BY <3>1, <2>1 DEF Moved
    <3>3. View'[j] \in Lifecycle!After(View[j])
      BY <2>0, <2>1, <3>1 DEF Moved, Active
    <3>4. QED
      BY <3>2, <3>3 DEF Lifecycle!Progress
  <2>4. CASE Die
    <3>1. /\ nextJob' = nextJob
          /\ \A i \in Job : status'[i] = "absent"
      BY <2>4 DEF Die
    <3>2. QED
      BY <2>0, <3>1 DEF Lifecycle!Lose
  <2>5. CASE OtherStep
    <3>1. ASSUME NEW i \in Job
          PROVE  View'[i] \in Lifecycle!After(View[i])
      <4>1. /\ nextJob' = nextJob
            /\ \/ status'[i] = status[i]
               \/ Active(i) /\ status'[i] = "failed"
        BY <2>5, OtherStepStore, OtherStepShape
      <4>2. QED
        BY <2>0, <2>1, <4>1 DEF Active, Lifecycle!After, Lifecycle!Settled
    <3>2. QED
      BY <3>1 DEF Lifecycle!Progress
  <2>6. QED
    BY <2>2, <2>3, <2>4, <2>5, NextCases
<1>3. QED
  BY <1>1, <1>2, SemInvariant, StoreInvariant, PTL DEF Spec
----------------------------------------------------------------------------
(* The semaphore of the downloads as its callers see it: those that hold a   *)
(* slot, and those in its queue.  Its queue has no limit of its own, so the  *)
(* number of jobs is one.                                                    *)
Slots == INSTANCE SlotQueue WITH Client <- Job, Capacity <- MaxConcurrent,
                                 Places <- MaxJobs,
                                 holders <- SlotHolders, waiters <- queue

(* SlotQueue counts as this module does.                                     *)
LEMMA SlotsCount == \A S : Slots!Cardinality(S) = Cardinality(S)
BY DEF Slots!Cardinality, Cardinality

(* A task is in one place of the semaphore at most, and the one that is      *)
(* created next is in none.                                                  *)
LEMMA NewTaskIsNew ==
  ASSUME SemInv, nextJob \in Job
  PROVE  Slots!New(nextJob) /\ Len(queue) < MaxJobs
<1>1. /\ task[nextJob] = "none"
      /\ nextJob \notin SlotHolders /\ nextJob \notin Waiting
  BY DEF SemInv, SemType, Ordered, SlotHolders, Waiting, Holding, WithDir
<1>2. \A i \in 1 .. Len(queue) : queue[i] # nextJob
  BY <1>1, LenProperties DEF SemInv, SemType, SlotAccounting
<1>3. Len(queue) < MaxJobs
  <2>1. /\ IsFiniteSet(Job) /\ Cardinality(Job) = MaxJobs
        /\ Waiting \in SUBSET (Job \ {nextJob})
    BY <1>1, FS_Interval, LimitAssumption DEF Job, Waiting
  <2>2. /\ IsFiniteSet(Job \ {nextJob})
        /\ Cardinality(Job \ {nextJob}) = MaxJobs - 1
    BY <2>1, FS_RemoveElement
  <2>3. Cardinality(Waiting) <= MaxJobs - 1
    BY <2>1, <2>2, FS_Subset
  <2>4. QED
    BY <2>3, LenProperties, LimitAssumption DEF SemInv, SemType, SlotAccounting
<1>4. QED
  BY <1>1, <1>2, <1>3 DEF Slots!New

(* acquire by a new task takes a free slot that nobody waits for, or queues. *)
LEMMA AcquireRefines ==
  ASSUME SemInv, nextJob \in Job, Acquire(nextJob)
  PROVE  Slots!Take(nextJob) \/ Slots!Wait(nextJob)
<1> DEFINE j == nextJob
<1>0. /\ task[j] = "none" /\ j \notin SlotHolders
      /\ Slots!New(j) /\ Len(queue) < MaxJobs
  BY NewTaskIsNew DEF SemInv, SemType, Ordered, SlotHolders, Holding, WithDir
<1>1. CASE running < MaxConcurrent
  <2>1. /\ queue' = queue /\ task' = [task EXCEPT ![j] = "granted"]
    BY <1>1 DEF Acquire
  <2>2. SlotHolders' = SlotHolders \cup {j}
    BY <2>1, <1>0 DEF SemInv, SemType, SlotHolders, Holding
  <2>3. queue = <<>> /\ Cardinality(SlotHolders) < MaxConcurrent
    BY <1>1, LimitAssumption DEF SemInv, SemType, SlotAccounting
  <2>4. QED
    BY <1>0, <2>1, <2>2, <2>3, SlotsCount DEF Slots!Take
<1>2. CASE ~(running < MaxConcurrent)
  <2>1. queue' = Append(queue, j) /\ task' = [task EXCEPT ![j] = "waiting"]
    BY <1>2 DEF Acquire
  <2>2. SlotHolders' = SlotHolders
    BY <2>1, <1>0 DEF SemInv, SemType, SlotHolders, Holding, WithDir
  <2>3. Cardinality(SlotHolders) = MaxConcurrent
    BY <1>2, LimitAssumption DEF SemInv, SemType, SlotAccounting
  <2>4. QED
    BY <1>0, <2>1, <2>2, <2>3, SlotsCount DEF Slots!Wait
<1>3. QED
  BY <1>1, <1>2

(* release gives the slot to the task that waits longest, or leaves it free. *)
LEMMA ReleaseRefines ==
  ASSUME SemInv, NEW j \in Job, task[j] \in Holding, Release(j)
  PROVE  Slots!Return(j)
<1>0. j \in SlotHolders /\ task[j] \notin {"waiting", "ended"}
  BY DEF SlotHolders, Holding, WithDir
<1>1. CASE queue = <<>>
  <2>1. queue' = queue /\ task' = [task EXCEPT ![j] = "ended"]
    BY <1>1 DEF Release
  <2>2. SlotHolders' = SlotHolders \ {j}
    BY <2>1, <1>0 DEF SemInv, SemType, SlotHolders, Holding, WithDir
  <2>3. QED
    BY <1>0, <1>1, <2>1, <2>2 DEF Slots!Return
<1>2. CASE queue # <<>>
  <2> DEFINE h == Head(queue)
  <2>1. queue' = Tail(queue) /\ task' = [task EXCEPT ![j] = "ended", ![h] = "granted"]
    BY <1>2 DEF Release
  <2>2. 1 \in DOMAIN queue /\ h = queue[1] /\ h \in Job
    BY <1>2, HeadTailProperties, LenProperties DEF SemInv, SemType
  <2>3. h \in Waiting /\ h # j
    <3>1. h \in Waiting
      BY <2>2 DEF SemInv, SlotAccounting
    <3>2. QED
      BY <3>1, <1>0 DEF Waiting
  <2>4. \A k \in Job : task'[k] = IF k = j THEN "ended"
                                  ELSE IF k = h THEN "granted" ELSE task[k]
    BY <2>1, <2>2, <2>3 DEF SemInv, SemType
  <2>5. SlotHolders' = (SlotHolders \ {j}) \cup {h}
    BY <2>2, <2>3, <2>4 DEF SlotHolders, Holding, WithDir
  <2>6. QED
    BY <1>0, <1>2, <2>1, <2>5 DEF Slots!Return
<1>3. QED
  BY <1>1, <1>2

(* The semaphore of pipeline.ts keeps the promise of SlotQueue: who submits  *)
(* while a slot is free takes it, the others queue in the order in which     *)
(* they came, and a slot that a task gives back, whatever ended the task,    *)
(* goes to the head of the queue at once.  No sweep, eviction, session or    *)
(* delegation ever touches it.                                               *)
THEOREM SlotQueueRefined == Spec => Slots!Spec
<1>1. Init => Slots!Init
  BY DEF Init, Slots!Init, SlotHolders, Holding, WithDir
<1>2. SemInv /\ [Next]_vars => [Slots!Next]_<<SlotHolders, queue>>
  <2> SUFFICES ASSUME SemInv, [Next]_vars
               PROVE  Slots!Next \/ UNCHANGED <<SlotHolders, queue>>
    OBVIOUS
  <2>1. ASSUME NEW u \in User, Submit(u)
        PROVE  Slots!Next
    <3>1. nextJob \in Job /\ Acquire(nextJob)
      BY <2>1 DEF Submit
    <3>2. QED
      BY <3>1, AcquireRefines DEF Slots!Next
  <2>2. ASSUME NEW j \in Job, TaskStep(j)
        PROVE  Slots!Next \/ UNCHANGED <<SlotHolders, queue>>
    <3>1. task[j] \in Holding
      BY <2>2, TaskStepShape
    <3>2. ASSUME Release(j)
          PROVE  Slots!Next
      BY <3>1, <3>2, ReleaseRefines DEF Slots!Next
    <3>3. ASSUME NEW pc \in Holding, Goto(j, pc)
          PROVE  UNCHANGED <<SlotHolders, queue>>
      BY <3>1, <3>3 DEF Goto, semVars, SemInv, SemType, SlotHolders
    <3>4. QED
      BY <2>2, <3>2, <3>3, TaskStepShape
  <2>3. CASE Die
    <3>1. queue' = <<>> /\ SlotHolders' = {}
      BY <2>3 DEF Die, SlotHolders, Holding, WithDir
    <3>2. QED
      BY <3>1 DEF Slots!Next, Slots!Lose
  <2>4. CASE OtherStep
    BY <2>4, OtherStepShape DEF SlotHolders
  <2>5. QED
    BY <2>1, <2>2, <2>3, <2>4, NextCases
<1>3. QED
  BY <1>1, <1>2, SemInvariant, PTL DEF Spec, Slots!Spec
----------------------------------------------------------------------------
(* Every task comes nearer to its end.                                       *)

(* How far a task is: processJob has no way back to an earlier await.        *)
Rank(pc) == CASE pc = "none"       -> 0 [] pc = "waiting"      -> 1
              [] pc = "granted"    -> 2 [] pc = "vetting"      -> 3
              [] pc = "extracting" -> 4 [] pc = "vettingMedia" -> 5
              [] pc = "mkdir"      -> 6 [] pc = "downloading"  -> 7
              [] pc \in {"discarding", "uploading"} -> 8
              [] pc = "removing"   -> 9 [] pc = "ended"        -> 10

(* No step takes a task back, and an ended task stays ended, its directory   *)
(* gone once it is gone: whatever sweeps, sessions, crashes and starts do,   *)
(* no plaintext of a job comes back after its removal.                       *)
TasksMoveForward ==
  [][\A j \in Job : /\ task'[j] = task[j] \/ Rank(task'[j]) > Rank(task[j])
                    /\ task[j] = "ended" /\ j \notin dirs => j \notin dirs']_vars

(* A task that takes a step comes nearer to its end.                         *)
LEMMA TaskStepAdvances ==
  ASSUME SemInv, NEW j \in Job, TaskStep(j)
  PROVE  Rank(task'[j]) > Rank(task[j])
<1> USE DEF Rank
<1>0. /\ task[j] \in Holding
      /\ Release(j) => task'[j] = "ended"
      /\ \A pc : Goto(j, pc) => task'[j] = pc
  BY TaskStepShape, ReleaseTask, GotoTask
<1>a. Release(j) => Rank(task'[j]) > Rank(task[j])
  BY <1>0 DEF Holding, WithDir
<1>1. CASE StartSwept(j) BY <1>a, <1>1 DEF StartSwept
<1>2. CASE StartRefused(j) BY <1>a, <1>2 DEF StartRefused, Fail
<1>3. CASE StartVetting(j) BY <1>0, <1>3 DEF StartVetting
<1>4. CASE VetRefused(j) BY <1>a, <1>4 DEF VetRefused, Fail
<1>5. CASE VetPage(j) BY <1>0, <1>5 DEF VetPage
<1>6. CASE VetMedia(j) BY <1>0, <1>6 DEF VetMedia
<1>7. CASE ExtractFound(j) BY <1>0, <1>7 DEF ExtractFound
<1>8. CASE ExtractFailed(j) BY <1>a, <1>8 DEF ExtractFailed, Fail
<1>9. CASE VetFound(j) BY <1>0, <1>9 DEF VetFound
<1>10. CASE MakeDir(j) BY <1>0, <1>10 DEF MakeDir
<1>11. CASE MakeDirFailed(j) BY <1>a, <1>11 DEF MakeDirFailed, Fail
<1>12. CASE DownloadFailed(j) BY <1>0, <1>12 DEF DownloadFailed
<1>13. CASE Discarded(j) BY <1>a, <1>13 DEF Discarded, Fail
<1>14. CASE Downloaded(j)
  <2>1. task[j] = "downloading" /\ task'[j] \in {"removing", "uploading", "discarding"}
    BY <1>0, <1>14 DEF Downloaded
  <2>2. QED
    BY <2>1
<1>15. CASE Uploaded(j) BY <1>0, <1>15 DEF Uploaded
<1>16. CASE UploadFailed(j) BY <1>0, <1>16 DEF UploadFailed
<1>17. CASE Removed(j) BY <1>a, <1>17 DEF Removed
<1>18. QED
  BY <1>1, <1>2, <1>3, <1>4, <1>5, <1>6, <1>7, <1>8, <1>9, <1>10, <1>11, <1>12,
     <1>13, <1>14, <1>15, <1>16, <1>17 DEF TaskStep

(* The pipeline only moves forward: with the fairness of its awaits, what    *)
(* EveryTaskEnds rests on.                                                   *)
THEOREM PipelineMovesForward == Spec => TasksMoveForward
<1>1. ASSUME SemInv, DirInv, [Next]_vars, NEW j \in Job
      PROVE  /\ task'[j] = task[j] \/ Rank(task'[j]) > Rank(task[j])
             /\ task[j] = "ended" /\ j \notin dirs => j \notin dirs'
  <2>1. ASSUME NEW u \in User, Submit(u)
        PROVE  /\ task'[j] = task[j] \/ Rank(task'[j]) > Rank(task[j])
               /\ dirs' = dirs
    <3>1. nextJob \in Job /\ Acquire(nextJob) /\ dirs' = dirs
      BY <2>1 DEF Submit, diskVars
    <3>2. task[nextJob] = "none"
      BY <1>1, <3>1 DEF SemInv, SemType, Ordered
    <3>3. /\ task' = [task EXCEPT ![nextJob] = "granted"] \/ task' = [task EXCEPT ![nextJob] = "waiting"]
          /\ task \in [Job -> TaskPc]
      BY <1>1, <3>1 DEF Acquire, SemInv, SemType
    <3>4. CASE j = nextJob
      BY <3>1, <3>2, <3>3, <3>4 DEF Rank
    <3>5. CASE j # nextJob
      BY <3>1, <3>3, <3>5
    <3>6. QED
      BY <3>4, <3>5
  <2>2. ASSUME NEW k \in Job, TaskStep(k)
        PROVE  /\ task'[j] = task[j] \/ Rank(task'[j]) > Rank(task[j])
               /\ task[j] = "ended" /\ j \notin dirs => j \notin dirs'
    <3>1. CASE j = k
      <4>1. Rank(task'[j]) > Rank(task[j]) /\ task[j] # "ended"
        BY <1>1, <2>2, <3>1, TaskStepAdvances, TaskStepShape DEF Holding, WithDir
      <4>2. QED
        BY <4>1
    <3>2. CASE j # k
      <4>1. task'[j] = task[j] \/ (task[j] = "waiting" /\ task'[j] = "granted")
        BY <1>1, <2>2, <3>2, TaskStepShape, ReleaseTask, GotoTask
      <4>2. j \in dirs' <=> j \in dirs
        BY <1>1, <2>2, <3>2, TaskStepDir
      <4>3. QED
        BY <4>1, <4>2 DEF Rank
    <3>3. QED
      BY <3>1, <3>2
  <2>3. CASE Die
    <3>1. dirs' = dirs /\ task'[j] = IF task[j] = "none" THEN "none" ELSE "ended"
      BY <2>3 DEF Die
    <3>2. task[j] \in TaskPc
      BY <1>1 DEF SemInv, SemType
    <3>3. QED
      BY <3>1, <3>2 DEF Rank, TaskPc, Holding, WithDir
  <2>4. CASE OtherStep
    <3>1. task'[j] = task[j]
      BY <2>4, OtherStepShape
    <3>2. dirs' \subseteq dirs
      BY <2>4 DEF OtherStep, Login, SessionEnds, ConnectDarkreel, DisconnectDarkreel, DeleteUser,
         GrowStale, Purge, RemoveDir, SweepStale, BeginShutdown, Boot, vars, diskVars
    <3>3. QED
      BY <3>1, <3>2
  <2>5. QED
    BY <1>1, <2>1, <2>2, <2>3, <2>4, NextCases
<1>2. SemInv /\ DirInv /\ [Next]_vars
        => [\A j \in Job : /\ task'[j] = task[j] \/ Rank(task'[j]) > Rank(task[j])
                           /\ task[j] = "ended" /\ j \notin dirs => j \notin dirs']_vars
  BY <1>1
<1>3. QED
  BY <1>2, SemInvariant, DirInvariant, PTL DEF Spec, TasksMoveForward
=============================================================================
