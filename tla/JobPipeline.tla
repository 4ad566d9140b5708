---------------------------- MODULE JobPipeline ----------------------------
(***************************************************************************)
(* The job queue of ppvda: the in-memory job store with its stale sweep    *)
(* and eviction (jobs/store.ts), the FIFO semaphore and the per-job        *)
(* pipeline (jobs/pipeline.ts), the working directory that holds a job's   *)
(* plaintext (utils/fs.ts, downloader/index.ts), what the pipeline reads   *)
(* of the session and of the Darkreel delegation (auth/sessions.ts,        *)
(* server/routes/settings.ts), and the process's crashes, shutdowns and    *)
(* restarts (index.ts).                                                    *)
(*                                                                         *)
(* Node runs one callback at a time: each action below is the code between *)
(* two awaits, and task[j] names the await at which job j's pipeline is.   *)
(***************************************************************************)
EXTENDS Integers, Sequences, FiniteSets

CONSTANTS User,          \* user ids
          MaxConcurrent, \* opts.maxConcurrentDownloads: slots of the semaphore
          MaxActive,     \* MAX_ACTIVE_JOBS_PER_USER
          MaxHistory,    \* the store's maxHistory
          MaxJobs,       \* bound: how many jobs are ever submitted
          MaxCrashes     \* bound: how many times the process dies

ASSUME UserAssumption == IsFiniteSet(User) /\ User # {}
ASSUME LimitAssumption == /\ MaxConcurrent \in Nat \ {0}
                          /\ MaxActive \in Nat
                          /\ MaxHistory \in Nat
                          /\ MaxJobs \in Nat
                          /\ MaxCrashes \in Nat

Job == 1 .. MaxJobs      \* generateId never repeats: ids in order of creation

ActiveStatus   == {"extracting", "downloading", "encrypting"}
TerminalStatus == {"done", "failed"}
Status         == {"absent"} \cup ActiveStatus \cup TerminalStatus

\* Awaits at which the pipeline holds a slot, and those with a directory on disk.
WithDir == {"downloading", "discarding", "uploading", "removing"}
Holding == {"granted", "vetting", "extracting", "vettingMedia", "mkdir"} \cup WithDir
TaskPc  == {"none", "waiting", "ended"} \cup Holding

VARIABLES
  status,     \* JobStore.jobs: the status of a stored job, "absent" if not in the map
  owner,      \* the job's userId
  stale,      \* active jobs whose updatedAt is more than JOB_TIMEOUT_MS ago
  nextJob,    \* the next id
  task,       \* where the pipeline of each job is
  running,    \* Semaphore.running
  queue,      \* Semaphore.queue
  dirs,       \* job directories with plaintext on disk, named by the job that made them
  purging,    \* directories listed by purgeStaleJobDirs and not yet tried
  left,       \* directories this process tried to remove in vain: nobody tries again
  session,    \* users with a live session (its master key is in memory)
  delegation, \* users with a row in darkreel_delegations
  darkreel,   \* external: the jobs whose media the Darkreel server holds
  phase,      \* of the process
  crashes     \* how often it died

storeVars == <<status, owner, stale, nextJob>>
semVars   == <<running, queue>>
diskVars  == <<dirs, purging, left>>
userVars  == <<session, delegation>>
procVars  == <<phase, crashes>>
vars == <<storeVars, task, semVars, diskVars, userVars, darkreel, procVars>>

----------------------------------------------------------------------------
Active(j)      == status[j] \in ActiveStatus
ActiveJobs_Started(u) == {j \in Job : Active(j) /\ owner[j] = u /\ task[j] # "waiting"} \* mutant
ActiveJobs(u)  == {j \in Job : Active(j) /\ owner[j] = u}
Up             == phase # "down"

\* Mutant: a terminal job takes later updates.
Update_Revives(j, s) ==
  IF status[j] # "absent"
  THEN /\ status' = [status EXCEPT ![j] = s]
       /\ stale' = stale \ {j}
  ELSE UNCHANGED <<status, stale>>

\* JobStore.update: terminal states are final, a missing job is ignored.
Update(j, s) ==
  IF Active(j)
  THEN /\ status' = [status EXCEPT ![j] = s]
       /\ stale' = stale \ {j}
  ELSE UNCHANGED <<status, stale>>

\* JobStore.evict on the map st: drop the oldest terminal jobs above maxHistory.
Evict(st) ==
  LET terminal == {i \in Job : st[i] \in TerminalStatus}
      excess   == Cardinality({i \in Job : st[i] # "absent"}) - MaxHistory
      Older(i) == {k \in terminal : k < i}
  IN  [i \in Job |-> IF i \in terminal /\ Cardinality(Older(i)) < excess
                     THEN "absent" ELSE st[i]]

\* Mutant: one slot too many.
Acquire_OneMore(j) ==
  IF running <= MaxConcurrent
  THEN /\ running' = running + 1
       /\ task' = [task EXCEPT ![j] = "granted"]
       /\ UNCHANGED queue
  ELSE /\ queue' = Append(queue, j)
       /\ task' = [task EXCEPT ![j] = "waiting"]
       /\ UNCHANGED running

\* Semaphore.acquire by the new task j.
Acquire(j) ==
  IF running < MaxConcurrent
  THEN /\ running' = running + 1
       /\ task' = [task EXCEPT ![j] = "granted"]
       /\ UNCHANGED queue
  ELSE /\ queue' = Append(queue, j)
       /\ task' = [task EXCEPT ![j] = "waiting"]
       /\ UNCHANGED running

\* Mutants of release: the woken task is not counted, the newest waiter goes first,
\* and nobody is woken.
Release_Uncounted(j) ==
  /\ running' = running - 1
  /\ task' = [k \in Job |-> IF k = j THEN "ended"
                            ELSE IF queue # <<>> /\ k = Head(queue) THEN "granted" ELSE task[k]]
  /\ queue' = IF queue = <<>> THEN queue ELSE Tail(queue)
Release_Newest(j) ==
  IF queue = <<>>
  THEN running' = running - 1 /\ task' = [task EXCEPT ![j] = "ended"] /\ UNCHANGED queue
  ELSE /\ task' = [task EXCEPT ![j] = "ended", ![queue[Len(queue)]] = "granted"]
       /\ queue' = SubSeq(queue, 1, Len(queue) - 1)
       /\ UNCHANGED running
Release_NoWake(j) ==
  running' = running - 1 /\ task' = [task EXCEPT ![j] = "ended"] /\ UNCHANGED queue

\* The finally of submit: Semaphore.release hands the slot to the oldest waiter.
Release(j) ==
  IF queue = <<>>
  THEN /\ running' = running - 1
       /\ task' = [task EXCEPT ![j] = "ended"]
       /\ UNCHANGED queue
  ELSE /\ task' = [task EXCEPT ![j] = "ended", ![Head(queue)] = "granted"]
       /\ queue' = Tail(queue)
       /\ UNCHANGED running

\* The pipeline goes on to its next await.
Goto(j, pc) == task' = [task EXCEPT ![j] = pc] /\ UNCHANGED semVars

\* secureRemoveDir ignores every error: a file that cannot be erased, or one that a late
\* hop of a failed download opens meanwhile (module Transfer), stays with its directory.
RemoveDir(j) ==
  \/ dirs' = dirs \ {j} /\ UNCHANGED left
  \/ left' = left \cup {j} /\ UNCHANGED dirs

Fail_Silent(j) == Release(j) /\ UNCHANGED <<status, stale>>   \* mutant: an early return
\* The pipeline reports a failure and returns.
Fail(j) == Update(j, "failed") /\ Release(j)

----------------------------------------------------------------------------
Init ==
  /\ status = [j \in Job |-> "absent"]
  /\ owner = [j \in Job |-> CHOOSE u \in User : TRUE]   \* never read before Submit
  /\ stale = {} /\ nextJob = 1
  /\ task = [j \in Job |-> "none"]
  /\ running = 0 /\ queue = <<>>
  /\ dirs = {} /\ purging = {} /\ left = {}
  /\ session = {} /\ delegation = {} /\ darkreel = {}
  /\ phase = "up" /\ crashes = 0

(* submit: the cap, store.create with its eviction, and the start of the task. *)
Submit(u) ==
  LET j == nextJob IN
  /\ phase = "up" /\ u \in session /\ j \in Job
  /\ Cardinality(ActiveJobs(u)) < MaxActive
  /\ status' = Evict([status EXCEPT ![j] = "extracting"])
  /\ owner' = [owner EXCEPT ![j] = u]
  /\ nextJob' = j + 1
  /\ Acquire(j)
  /\ UNCHANGED <<stale, diskVars, userVars, darkreel, procVars>>

----------------------------------------------------------------------------
(* processJob and uploadStep, from one await to the next. *)

\* processJob up to its first await: isActive, the VPN gate, the URL's protocol.
\* The tunnel's health is an input here: modules about the VPN model it.
StartSwept(j) ==
  /\ Up /\ task[j] = "granted" /\ ~Active(j)
  /\ Release(j)
  /\ UNCHANGED <<storeVars, diskVars, userVars, darkreel, procVars>>

StartRefused(j) ==
  /\ Up /\ task[j] = "granted" /\ Active(j)   \* the VPN gate is shut, or the URL invalid
  /\ Fail(j)
  /\ UNCHANGED <<owner, nextJob, diskVars, userVars, darkreel, procVars>>

StartVetting(j) ==
  /\ Up /\ task[j] = "granted" /\ Active(j)
  /\ Goto(j, "vetting")
  /\ UNCHANGED <<storeVars, diskVars, userVars, darkreel, procVars>>

\* isPrivateUrl answered on the submitted URL.
VetRefused(j) ==
  /\ Up /\ task[j] = "vetting"                \* private, or a media URL of no known type
  /\ Fail(j)
  /\ UNCHANGED <<owner, nextJob, diskVars, userVars, darkreel, procVars>>

VetPage(j) ==
  /\ Up /\ task[j] = "vetting"
  /\ Update(j, "extracting") /\ Goto(j, "extracting")
  /\ UNCHANGED <<owner, nextJob, diskVars, userVars, darkreel, procVars>>

VetMedia(j) ==
  /\ Up /\ task[j] = "vetting"
  /\ Update(j, "downloading") /\ Goto(j, "mkdir")
  /\ UNCHANGED <<owner, nextJob, diskVars, userVars, darkreel, procVars>>

\* extractVideos returned or threw.
ExtractFound(j) ==
  /\ Up /\ task[j] = "extracting"
  /\ Goto(j, "vettingMedia")
  /\ UNCHANGED <<storeVars, diskVars, userVars, darkreel, procVars>>

ExtractFailed(j) ==
  /\ Up /\ task[j] \in {"extracting", "vettingMedia"}
  /\ Fail(j)
  /\ UNCHANGED <<owner, nextJob, diskVars, userVars, darkreel, procVars>>

\* isPrivateUrl accepted the media URL found on the page.
VetFound(j) ==
  /\ Up /\ task[j] = "vettingMedia"
  /\ Update(j, "downloading") /\ Goto(j, "mkdir")
  /\ UNCHANGED <<owner, nextJob, diskVars, userVars, darkreel, procVars>>

\* downloadVideo: makeJobDir, then the transfer into that directory.
MakeDir(j) ==
  /\ Up /\ task[j] = "mkdir"
  /\ dirs' = dirs \cup {j}
  /\ Goto(j, "downloading")
  /\ UNCHANGED <<storeVars, purging, left, userVars, darkreel, procVars>>

MakeDirFailed(j) ==
  /\ Up /\ task[j] = "mkdir"
  /\ Fail(j)
  /\ UNCHANGED <<owner, nextJob, diskVars, userVars, darkreel, procVars>>

DownloadFailed(j) ==
  /\ Up /\ task[j] = "downloading"
  /\ Goto(j, "discarding")
  /\ UNCHANGED <<storeVars, diskVars, userVars, darkreel, procVars>>

\* secureRemoveDir is through after an error, in downloadVideo's catch or in processJob's
\* finally; then the catch of processJob or of submit reports the error.
Discarded(j) ==
  /\ Up /\ task[j] = "discarding"
  /\ RemoveDir(j)
  /\ Fail(j)
  /\ UNCHANGED <<owner, nextJob, purging, userVars, darkreel, procVars>>

\* Mutant: no key in memory is taken for no delegation.
DelegationState_Conflated(u) ==
  IF u \notin delegation \cap session THEN {"not-configured"} ELSE {"ok", "decrypt-failed"}

\* getUserDarkreelDelegation: what the row and the session say at this moment.
DelegationState(u) ==
  IF u \notin delegation THEN {"not-configured"}
  ELSE IF u \notin session THEN {"session-expired"}
  ELSE {"ok", "decrypt-failed"}

\* The download returned: the isActive check, then uploadStep up to the upload.  In a
\* shutdown the database may be closed: then the query throws, past uploadStep.
Downloaded(j) ==
  /\ Up /\ task[j] = "downloading"
  /\ \/ ~Active(j) /\ Goto(j, "removing") /\ UNCHANGED <<status, stale>>
     \/ Active(j) /\ \E d \in DelegationState(owner[j]) :
            \/ d \in {"session-expired", "decrypt-failed"}
               /\ Update(j, "failed") /\ Goto(j, "removing")
            \/ d = "not-configured" /\ Update(j, "done") /\ Goto(j, "removing")
            \/ d = "ok" /\ Update(j, "encrypting") /\ Goto(j, "uploading")
     \/ Active(j) /\ phase = "stopping" /\ Goto(j, "discarding") /\ UNCHANGED <<status, stale>>
  /\ UNCHANGED <<owner, nextJob, diskVars, userVars, darkreel, procVars>>

\* uploadToDarkreel reported success, or an error; on an error the media may be stored.
Uploaded(j) ==
  /\ Up /\ task[j] = "uploading"
  /\ darkreel' = darkreel \cup {j}
  /\ Update(j, "done") /\ Goto(j, "removing")
  /\ UNCHANGED <<owner, nextJob, diskVars, userVars, procVars>>

UploadFailed(j) ==
  /\ Up /\ task[j] = "uploading"
  /\ darkreel' \in {darkreel, darkreel \cup {j}}
  /\ Update(j, "failed") /\ Goto(j, "removing")
  /\ UNCHANGED <<owner, nextJob, diskVars, userVars, procVars>>

\* Mutant: the path is read back from the store, which a settled job has lost.
Removed_StorePath(j) ==
  /\ Up /\ task[j] = "removing"
  /\ IF Active(j) THEN RemoveDir(j) ELSE UNCHANGED <<dirs, left>>
  /\ Release(j)
  /\ UNCHANGED <<storeVars, purging, userVars, darkreel, procVars>>

\* The finally of processJob is through; submit's finally releases the slot.
Removed(j) ==
  /\ Up /\ task[j] = "removing"
  /\ RemoveDir(j)
  /\ Release(j)
  /\ UNCHANGED <<storeVars, purging, userVars, darkreel, procVars>>

TaskStep(j) ==
  \/ StartSwept(j) \/ StartRefused(j) \/ StartVetting(j)
  \/ VetRefused(j) \/ VetPage(j) \/ VetMedia(j)
  \/ ExtractFound(j) \/ ExtractFailed(j) \/ VetFound(j)
  \/ MakeDir(j) \/ MakeDirFailed(j) \/ DownloadFailed(j) \/ Discarded(j)
  \/ Downloaded(j) \/ Uploaded(j) \/ UploadFailed(j) \/ Removed(j)

----------------------------------------------------------------------------
(* The store's timer. *)

\* An hour passes without an update of job j.
GrowStale(j) ==
  /\ Up /\ Active(j) /\ j \notin stale
  /\ stale' = stale \cup {j}
  /\ UNCHANGED <<status, owner, nextJob, task, semVars, diskVars, userVars, darkreel, procVars>>

\* sweepStale: every stale job fails in one pass.
SweepStale ==
  /\ Up /\ stale # {}
  /\ status' = [j \in Job |-> IF j \in stale THEN "failed" ELSE status[j]]
  /\ stale' = {}
  /\ UNCHANGED <<owner, nextJob, task, semVars, diskVars, userVars, darkreel, procVars>>

\* purgeStaleJobDirs takes the next directory of its listing, in the background.
Purge(d) ==
  /\ Up /\ d \in purging
  /\ RemoveDir(d)
  /\ purging' = purging \ {d}
  /\ UNCHANGED <<storeVars, task, semVars, userVars, darkreel, procVars>>

----------------------------------------------------------------------------
(* What other requests do to the user's session and delegation. *)

\* A login that was in its key derivation when sessions.clear ran still sets its session.
Login(u) ==
  /\ Up /\ u \notin session
  /\ session' = session \cup {u}
  /\ UNCHANGED <<storeVars, task, semVars, diskVars, delegation, darkreel, procVars>>

SessionEnds(u) ==      \* logout, expiry, a password change or a recovery
  /\ Up /\ u \in session
  /\ session' = session \ {u}
  /\ UNCHANGED <<storeVars, task, semVars, diskVars, delegation, darkreel, procVars>>

ConnectDarkreel(u) ==
  /\ phase = "up" /\ u \in session /\ u \notin delegation
  /\ delegation' = delegation \cup {u}
  /\ UNCHANGED <<storeVars, task, semVars, diskVars, session, darkreel, procVars>>

DisconnectDarkreel(u) ==
  /\ phase = "up" /\ u \in session /\ u \in delegation
  /\ delegation' = delegation \ {u}
  /\ UNCHANGED <<storeVars, task, semVars, diskVars, session, darkreel, procVars>>

DeleteUser(u) ==       \* the row cascades to the delegation, the sessions go too
  /\ Up /\ u \in session \cup delegation
  /\ session' = session \ {u}
  /\ delegation' = delegation \ {u}
  /\ UNCHANGED <<storeVars, task, semVars, diskVars, darkreel, procVars>>

----------------------------------------------------------------------------
(* The process. *)

\* The signal handler: sessions.clear, while the jobs go on until the exit.
BeginShutdown ==
  /\ phase = "up"
  /\ phase' = "stopping"
  /\ session' = {}
  /\ UNCHANGED <<storeVars, task, semVars, diskVars, delegation, darkreel, crashes>>

\* process.exit at the end of a shutdown, or a crash: memory is lost, the disk is not.
Die ==
  /\ Up /\ crashes < MaxCrashes
  /\ phase' = "down" /\ crashes' = crashes + 1
  /\ status' = [j \in Job |-> "absent"]
  /\ task' = [j \in Job |-> IF task[j] = "none" THEN "none" ELSE "ended"]
  /\ stale' = {} /\ running' = 0 /\ queue' = <<>>
  /\ purging' = {} /\ left' = {} /\ session' = {}
  /\ UNCHANGED <<owner, nextJob, dirs, delegation, darkreel>>

Boot_NoPurge ==        \* mutant
  /\ phase = "down"
  /\ phase' = "up"
  /\ UNCHANGED <<storeVars, task, semVars, diskVars, userVars, darkreel, crashes>>

\* main and createPipeline: the listing of purgeStaleJobDirs precedes every request.
Boot ==
  /\ phase = "down"
  /\ phase' = "up"
  /\ purging' = dirs
  /\ UNCHANGED <<storeVars, task, semVars, dirs, left, userVars, darkreel, crashes>>

Next ==
  \/ \E u \in User : Submit(u) \/ Login(u) \/ SessionEnds(u)
  \/ \E u \in User : ConnectDarkreel(u) \/ DisconnectDarkreel(u) \/ DeleteUser(u)
  \/ \E j \in Job : TaskStep(j) \/ GrowStale(j) \/ Purge(j)
  \/ SweepStale
  \/ BeginShutdown \/ Die \/ Boot

(* Every await of a task ends: lookups, extraction, transfer, upload and the   *)
(* removal are bounded by their timeouts; the purge runs on, and the container *)
(* restarts.  A shutdown that began comes to its exit.                         *)
Fairness ==
  /\ \A j \in Job : WF_vars(TaskStep(j)) /\ WF_vars(Purge(j))
  /\ WF_vars(Boot)
  /\ WF_vars(phase = "stopping" /\ Die)

Spec == Init /\ [][Next]_vars /\ Fairness
----------------------------------------------------------------------------
(* Properties *)

(* The types of the variables; with Release it says that no slot is given    *)
(* back twice (running stays a natural number).                              *)
TypeOK ==
  /\ status \in [Job -> Status]
  /\ owner \in [Job -> User]
  /\ stale \subseteq Job
  /\ nextJob \in 1 .. MaxJobs + 1
  /\ task \in [Job -> TaskPc]
  /\ running \in Nat
  /\ queue \in Seq(Job)
  /\ dirs \subseteq Job /\ purging \subseteq Job /\ left \subseteq Job
  /\ session \subseteq User /\ delegation \subseteq User
  /\ darkreel \subseteq Job
  /\ phase \in {"up", "stopping", "down"}
  /\ crashes \in 0 .. MaxCrashes

(* The semaphore counts exactly the tasks past acquire, never more than      *)
(* maxConcurrentDownloads; its queue holds exactly the waiting tasks, and    *)
(* nobody waits while a slot is free (Semaphore in pipeline.ts).             *)
Waiting      == {j \in Job : task[j] = "waiting"}
SlotHolders  == {j \in Job : task[j] \in Holding}
SlotAccounting ==
  /\ running = Cardinality(SlotHolders)
  /\ running <= MaxConcurrent
  /\ {queue[i] : i \in DOMAIN queue} = Waiting
  /\ Len(queue) = Cardinality(Waiting)
  /\ queue # <<>> => running = MaxConcurrent

(* Jobs get their slot in the order of submission: while a job waits, no job *)
(* submitted after it has been granted a slot, whatever was swept or evicted *)
(* in between.                                                               *)
FirstComeFirstServed ==
  \A i, k \in Job : i < k /\ task[i] = "waiting" => task[k] \in {"none", "waiting"}

(* The per-user cap and the eviction together bound the store's memory       *)
(* although eviction never removes an active job and runs only at creation.  *)
StoreBounded ==
  LET cap == Cardinality(User) * MaxActive
  IN  Cardinality({j \in Job : status[j] # "absent"})
        <= IF MaxHistory > cap THEN MaxHistory ELSE cap

(* A job its owner sees as in progress has a pipeline at work on it: no exit *)
(* path of processJob or uploadStep forgets to settle the job.               *)
NoAbandonedJob ==
  \A j \in Job : Active(j) => task[j] \in Holding \cup {"waiting"}

(* Every job directory on disk is going to be removed by someone, the task   *)
(* that made it or the purge of a later start and never by both, or its      *)
(* removal was tried and failed.  Jobs that were swept or evicted while they *)
(* ran are no exception (the comment on the finally of processJob).          *)
PlaintextOwned ==
  /\ Up => dirs = purging \cup {j \in Job : task[j] \in WithDir} \cup left
  /\ \A j \in purging : task[j] \notin WithDir
  /\ \A j \in left : task[j] = "ended" /\ j \notin purging

(* A job turns done only when the media is in Darkreel, or the owner had no  *)
(* delegation at that moment: no phantom success after a session that ended  *)
(* mid-job (the comment in uploadStep).                                      *)
NoPhantomSuccess ==
  [][\A j \in Job : status[j] # "done" /\ status'[j] = "done"
       => j \in darkreel' \/ owner[j] \notin delegation]_vars

(* Every task that was submitted comes to its end: it gets a slot and gives  *)
(* it back.                                                                  *)
EveryTaskEnds ==
  \A j \in Job : task[j] \in Holding \cup {"waiting"} ~> task[j] = "ended"

(* Plaintext on disk never just stays there: the run of the process that     *)
(* finds it erases it or fails to, and after a crash the next start tries     *)
(* again, what the last run failed to erase included.                         *)
RemovalTried ==
  \A j \in Job : j \in dirs ~> j \notin dirs \/ j \in left

(* Violated.  The comment on getUserDarkreelDelegation: without a delegation  *)
(* the job flow retains the downloaded file locally.  The finally of          *)
(* processJob removes it like any other.                                      *)
KeptWithoutDelegation ==
  [][\A j \in Job : j \in dirs /\ status[j] = "done" /\ j \notin darkreel => j \in dirs']_vars

(* What the owner of the jobs is promised: statuses only move forward, a      *)
(* settled job stays settled although its pipeline may still be at work, only *)
(* settled jobs are forgotten while the process lives, and every job settles. *)
View == [j \in Job |-> IF status[j] # "absent" THEN status[j]
                       ELSE IF j < nextJob THEN "gone" ELSE "unseen"]
Lifecycle == INSTANCE JobLifecycle WITH view <- View
JobsKeepTheirPromise == Lifecycle!Spec
=============================================================================
