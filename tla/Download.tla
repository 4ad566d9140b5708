------------------------------ MODULE Download ------------------------------
(***************************************************************************)
(* One job's file from the first request to the removal of its directory:  *)
(* downloader/index.ts, downloader/direct.ts with its redirects, retries   *)
(* and timers, and secureRemoveDir of utils/fs.ts.  Upload continues it    *)
(* between "downloaded" and "erasing".                                     *)
(*                                                                         *)
(* A hop is one request of downloadWithRedirects; a hop that redirected    *)
(* stays open while its body drains, and its error still rejects.          *)
(***************************************************************************)
EXTENDS Integers, Sequences, FiniteSets

CONSTANTS MaxHops, MaxRetries     \* maxRedirects, maxRetries

ASSUME DownloadAssumption == MaxHops \in Nat \ {0} /\ MaxRetries \in Nat

File  == {"temp", "final", "remux", "thumb"}
HopAt == {"resolving", "waiting", "draining", "opening", "closing", "writing", "over"}

VARIABLES
  phase,     \* the await the job's task is at
  attempt,   \* of downloadDirect
  hops,      \* every request so far, the last one is the current one
  first,     \* the first hop of this attempt
  orphaned,  \* a hop went on after its download was rejected
  dir,       \* the job's directory: "none", "made", "removed", or "left" by rmdir
  files,     \* its files: "absent", "empty" or "plain"
  list       \* what secureRemoveDir still has to erase, or <<>> before readdir

downloadVars == <<attempt, hops, first, orphaned>>
diskVars     == <<dir, files, list>>

DownloadInit ==
  /\ phase = "queued" /\ attempt = 0 /\ hops = <<>> /\ first = 1 /\ orphaned = FALSE
  /\ dir = "none" /\ files = [f \in File |-> "absent"] /\ list = <<>>

Present == {f \in File : files[f] # "absent"}

\* A file made now: only in a directory that is still there.
Made(f, c) == IF dir = "made" THEN [files EXCEPT ![f] = c] ELSE files

----------------------------------------------------------------------------
(* downloadVideo. *)

Start ==
  /\ phase = "queued"
  /\ dir' = "made" /\ hops' = <<"resolving">> /\ phase' = "fetching"
  /\ UNCHANGED <<attempt, first, orphaned, files, list>>

\* hls and dash: one run of ffmpeg, see MediaRoutes.
StartStream ==
  /\ phase = "queued"
  /\ dir' = "made" /\ files' = [files EXCEPT !["temp"] = "plain"] /\ phase' = "streaming"
  /\ UNCHANGED <<downloadVars, list>>

StreamEnds(ok) ==
  /\ phase = "streaming"
  /\ phase' = IF ok THEN "moving" ELSE "erasing"
  /\ UNCHANGED <<downloadVars, diskVars>>

\* moveFile, fileSize.
Moved ==
  /\ phase = "moving" /\ phase' = "downloaded"
  /\ files' = [files EXCEPT !["temp"] = "absent", !["final"] = "plain"]
  /\ UNCHANGED <<downloadVars, dir, list>>

MoveFails ==
  /\ phase = "moving" /\ phase' = "erasing"
  /\ UNCHANGED <<downloadVars, diskVars>>

----------------------------------------------------------------------------
(* downloadDirect and downloadWithRedirects. *)

Current == Len(hops)

\* The promise of this attempt is pending, and hop i is in its chain.
Awaited(i) == phase = "fetching" /\ i >= first

\* The current hop ends with an error; a file being opened is opened yet.
Ended ==
  /\ hops' = [hops EXCEPT ![Current] = IF @ = "opening" THEN "closing" ELSE "over"]
  /\ phase' = IF Awaited(Current) THEN "erasing" ELSE phase
  /\ UNCHANGED <<attempt, first, orphaned>>

\* safeResolveHost; a proxy resolves by itself.
Resolved ==
  /\ hops # <<>> /\ hops[Current] = "resolving"
  /\ hops' = [hops EXCEPT ![Current] = "waiting"]
  /\ UNCHANGED <<phase, attempt, first, orphaned, diskVars>>

Unresolved ==
  /\ hops # <<>> /\ hops[Current] = "resolving"
  /\ Ended
  /\ UNCHANGED diskVars

\* The next hop starts, or there were too many.
Redirected ==
  /\ hops # <<>> /\ hops[Current] = "waiting"
  /\ IF Current - first + 1 < MaxHops
     THEN /\ hops' = Append([hops EXCEPT ![Current] = "draining"], "resolving")
          /\ UNCHANGED phase
     ELSE /\ hops' = [hops EXCEPT ![Current] = "draining"]
          /\ phase' = IF Awaited(Current) THEN "erasing" ELSE phase
  /\ UNCHANGED <<attempt, first, orphaned, diskVars>>

Drained(i) ==
  /\ hops[i] = "draining"
  /\ hops' = [hops EXCEPT ![i] = "over"]
  /\ UNCHANGED <<phase, attempt, first, orphaned, diskVars>>

\* The connection breaks while it drains: req.on('error') rejects, and the hop
\* it led to goes on.
DrainBreaks(i) ==
  /\ hops[i] = "draining"
  /\ hops' = [hops EXCEPT ![i] = "over"]
  /\ phase' = IF Awaited(i) THEN "erasing" ELSE phase
  /\ orphaned' = (orphaned \/ (Awaited(i) /\ hops[Current] \notin {"draining", "over"}))
  /\ UNCHANGED <<attempt, first, diskVars>>

\* Mutant: one retry too many.
TooManyRequests_OneMore ==
  /\ hops # <<>> /\ hops[Current] = "waiting"
  /\ hops' = [hops EXCEPT ![Current] = "over"]
  /\ phase' = IF ~Awaited(Current) THEN phase
              ELSE IF attempt <= MaxRetries THEN "backoff" ELSE "erasing"
  /\ UNCHANGED <<attempt, first, orphaned, diskVars>>

\* 429: again after a while.
TooManyRequests ==
  /\ hops # <<>> /\ hops[Current] = "waiting"
  /\ hops' = [hops EXCEPT ![Current] = "over"]
  /\ phase' = IF ~Awaited(Current) THEN phase
              ELSE IF attempt < MaxRetries THEN "backoff" ELSE "erasing"
  /\ UNCHANGED <<attempt, first, orphaned, diskVars>>

Retried ==
  /\ phase = "backoff" /\ phase' = "fetching"
  /\ attempt' = attempt + 1 /\ first' = Len(hops) + 1
  /\ hops' = Append(hops, "resolving")
  /\ UNCHANGED <<orphaned, diskVars>>

\* createWriteStream, whose file is opened in the background.
Accepted ==
  /\ hops # <<>> /\ hops[Current] = "waiting"
  /\ hops' = [hops EXCEPT ![Current] = "opening"]
  /\ UNCHANGED <<phase, attempt, first, orphaned, diskVars>>

Opened ==
  /\ hops # <<>> /\ hops[Current] = "opening"
  /\ files' = Made("temp", "plain")
  /\ IF dir = "made" THEN hops' = [hops EXCEPT ![Current] = "writing"]
                     ELSE hops' = [hops EXCEPT ![Current] = "over"]
  /\ UNCHANGED <<phase, attempt, first, orphaned, dir, list>>

\* A destroyed stream's open completes all the same, and nothing is written.
ClosingOpened ==
  /\ hops # <<>> /\ hops[Current] = "closing"
  /\ files' = IF files["temp"] = "absent" THEN Made("temp", "empty") ELSE files
  /\ hops' = [hops EXCEPT ![Current] = "over"]
  /\ UNCHANGED <<phase, attempt, first, orphaned, dir, list>>

Finished ==
  /\ hops # <<>> /\ hops[Current] = "writing"
  /\ hops' = [hops EXCEPT ![Current] = "over"]
  /\ phase' = IF Awaited(Current) THEN "moving" ELSE phase
  /\ UNCHANGED <<attempt, first, orphaned, diskVars>>

\* An error status, a declared or received size above the cap, a broken
\* connection or a write error.
Broke ==
  /\ hops # <<>> /\ hops[Current] \in {"waiting", "opening", "writing"}
  /\ Ended
  /\ UNCHANGED diskVars

\* Mutant: the timer is cleared when the response arrives.
TimedOut_UntilResponse ==
  /\ hops # <<>> /\ hops[Current] = "waiting"
  /\ Ended
  /\ UNCHANGED diskVars

\* The hop's timer.
TimedOut ==
  /\ hops # <<>> /\ hops[Current] \in {"waiting", "opening", "writing"}
  /\ Ended
  /\ UNCHANGED diskVars

----------------------------------------------------------------------------
(* secureRemoveDir: after a failed download and at the end of every job. *)

\* Mutant: only the file the job knows of.
Listed_Known == Present \cap {"final"}

\* readdir.
Listed == Present

ListDir ==
  /\ phase = "erasing" /\ phase' = "unlinking"
  /\ list' = <<Listed>>
  /\ UNCHANGED <<downloadVars, dir, files>>

\* secureUnlink of one file.
EraseFile(f) ==
  /\ phase = "unlinking" /\ f \in list[1]
  /\ list' = <<list[1] \ {f}>>
  /\ files' = [files EXCEPT ![f] = "absent"]
  /\ UNCHANGED <<phase, downloadVars, dir>>

\* rmdir fails, without a word, when a file came meanwhile.
RemoveDir ==
  /\ phase = "unlinking" /\ list = <<{}>> /\ phase' = "over"
  /\ dir' = IF Present = {} THEN "removed" ELSE "left"
  /\ UNCHANGED <<downloadVars, files, list>>

----------------------------------------------------------------------------
(* What the network may do, and what happens by itself: the resolver answers, *)
(* timers run out, files open, the local steps go on.                         *)
NetworkStep == \/ Redirected \/ TooManyRequests \/ Accepted \/ Finished \/ Broke
               \/ \E i \in 1..Len(hops) : Drained(i) \/ DrainBreaks(i)
LocalStep   == \/ Start \/ StartStream \/ Resolved \/ Unresolved \/ Retried \/ TimedOut
               \/ \E ok \in BOOLEAN : StreamEnds(ok)
               \/ Moved \/ MoveFails \/ ListDir \/ RemoveDir \/ \E f \in File : EraseFile(f)
FileStep    == Opened \/ ClosingOpened

DownloadNext == NetworkStep \/ LocalStep \/ FileStep
=============================================================================
