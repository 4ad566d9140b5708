---------------------------- MODULE MediaRoutes ----------------------------
(***************************************************************************)
(* The routes that stream, thumbnail and extract media (server/routes/),   *)
(* the two bounded semaphores and the per-user limits they share           *)
(* (utils/semaphore.ts, routes/ffmpeg-concurrency.ts), ffmpeg's life in    *)
(* them (downloader/ffmpeg.ts) and the one browser that all extractions,   *)
(* those of jobs too, run in (extractor/index.ts).                         *)
(*                                                                         *)
(* A request is at an await of its handler; an action is the code from     *)
(* there to the next await, or what the client's hang-up does.  Kinds:     *)
(* "video" and "image" are /stream-download, "thumb" and "picture" are     *)
(* /thumbnail of a video and of an image, "extract" and "sse" are /extract *)
(* and /extract/stream, "job" is the extraction of a job.                  *)
(***************************************************************************)
EXTENDS Integers, Sequences, FiniteSets

CONSTANTS
  User, Req, None,
  FfmpegSlots, ExtractSlots,   \* MAX, MAX_CONCURRENT_EXTRACTIONS
  FfmpegQueue, ExtractQueue,   \* MAX_QUEUE, MAX_QUEUED_EXTRACTIONS
  StreamCap, ThumbCap, ExtractCap, SseCap   \* the caps per user

ASSUME MediaAssumption ==
  /\ IsFiniteSet(Req) /\ None \notin User \cup Req
  /\ FfmpegSlots \in Nat \ {0} /\ ExtractSlots \in Nat \ {0}
  /\ FfmpegQueue \in Nat /\ ExtractQueue \in Nat
  /\ {StreamCap, ThumbCap, ExtractCap, SseCap} \subseteq Nat \ {0}

Sem    == {"ffmpeg", "extraction"}
Limit  == {"stream", "thumb", "extract", "sse"}
Route  == {"direct", "proxy"}
Images == {"image", "picture"}
Media  == {"video", "thumb"}
Pages  == {"extract", "sse", "job"}
Kind   == Images \cup Media \cup Pages

Slots(s)    == IF s = "ffmpeg" THEN FfmpegSlots ELSE ExtractSlots
MaxQueue(s) == IF s = "ffmpeg" THEN FfmpegQueue ELSE ExtractQueue
Cap(l)      == CASE l = "stream" -> StreamCap [] l = "thumb" -> ThumbCap
                 [] l = "extract" -> ExtractCap [] l = "sse" -> SseCap
SemOf(k)    == IF k \in Media THEN "ffmpeg" ELSE "extraction"
LimitOf(k)  == CASE k \in {"video", "image"} -> "stream" [] k \in {"thumb", "picture"} -> "thumb"
                 [] k = "sse" -> "sse" [] OTHER -> "extract"

\* Past acquire, with a slot.
Held == {"granted", "staging", "spawning", "running", "sending", "erasing",
         "closing", "stopping", "launching", "browsing", "broken", "leaving"}
Await == {"vetting", "resolving", "fetching", "queued", "probing"} \cup Held

\* route: what resolveProxy decided (ffmpeg runs the same on both).  gone: the
\* client hung up, or the stream of /extract/stream is over; a stream gives back
\* its place with it.  seen: the user's streams that /extract/stream counted.
\* retry: ffmpeg may run again.
Request == [kind : Kind, user : User \cup {None}, route : Route, at : Await,
            gone : BOOLEAN, seen : Nat, retry : BOOLEAN]

ASSUME NoneAssumption == None \notin Request \cup Route

VARIABLES
  requests,         \* the requests under way
  running, queue,   \* of each BoundedSemaphore
  count,            \* the PerUserLimiters, and sseConnections
  dirs,             \* the requests whose workDir is on disk
  browser, launch,  \* routes of browserInstance and of browserLaunch, or None
  chromiums         \* Chromium processes alive

semVars  == <<running, queue>>
poolVars == <<browser, launch, chromiums>>
vars     == <<requests, semVars, count, dirs, poolVars>>

Init ==
  /\ requests = [r \in Req |-> None]
  /\ running = [s \in Sem |-> 0] /\ queue = [s \in Sem |-> <<>>]
  /\ count = [l \in Limit |-> [u \in User |-> 0]]
  /\ dirs = {} /\ browser = None /\ launch = None /\ chromiums = 0

----------------------------------------------------------------------------
(* Requests, limits and semaphores. *)

At(r, S)   == requests[r] # None /\ requests[r].at \in S
Is(r, S)   == requests[r] # None /\ requests[r].kind \in S
Goto(r, a) == requests' = [requests EXCEPT ![r].at = a]
MySem(r)   == SemOf(requests[r].kind)
MyLimit(r) == LimitOf(requests[r].kind)
Me(r)      == requests[r].user

\* The limiter's count when r is admitted.  /extract/stream writes what it read
\* before its await, plus one.
Admitted(r) == IF Is(r, {"sse"}) THEN requests[r].seen + 1 ELSE count[MyLimit(r)][Me(r)] + 1

\* Mutant: it does not stop at 0.
Lowered_Below(n) == n - 1

\* The release function of a limiter and of a stream: idempotent, never below 0.
Lowered(n) == IF n <= 1 THEN 0 ELSE n - 1

\* The limits, with r's place set to n.
With(r, n) == [count EXCEPT ![MyLimit(r)][Me(r)] = n]

\* Whether r still has a place to give back.
Counts(r) == /\ ~At(r, {"vetting"}) /\ ~Is(r, {"job"})
             /\ Is(r, {"sse"}) => ~requests[r].gone
Uncounted(r) == IF Counts(r) THEN With(r, Lowered(count[MyLimit(r)][Me(r)])) ELSE count

\* Mutant: a slot handed to the head of the queue is not counted.
Freed_Uncounted(r, new) ==
  LET s == MySem(r) IN
    /\ running' = [running EXCEPT ![s] = @ - 1]
    /\ IF queue[s] = <<>>
       THEN requests' = [requests EXCEPT ![r] = new] /\ UNCHANGED queue
       ELSE /\ queue' = [queue EXCEPT ![s] = Tail(@)]
            /\ requests' = [requests EXCEPT ![r] = new, ![Head(queue[s])].at = "granted"]

\* release(): the slot goes to the head of the queue, or back.  r becomes new.
Freed(r, new) ==
  LET s == MySem(r) IN
    IF queue[s] = <<>>
    THEN /\ running' = [running EXCEPT ![s] = @ - 1]
         /\ requests' = [requests EXCEPT ![r] = new]
         /\ UNCHANGED queue
    ELSE /\ queue' = [queue EXCEPT ![s] = Tail(@)]
         /\ requests' = [requests EXCEPT ![r] = new, ![Head(queue[s])].at = "granted"]
         /\ UNCHANGED running

\* The handler's finally: the slot, then the user's place.
LeaveSlot(r) == Freed(r, None) /\ count' = Uncounted(r)

----------------------------------------------------------------------------
(* The front of every handler. *)

\* r's handler runs to its await on isPrivateUrl; a page with a full count of
\* streams is refused before.
Arrive(r, k, u, p) ==
  /\ requests[r] = None /\ k # "job"
  /\ k = "sse" => count["sse"][u] < SseCap
  /\ requests' = [requests EXCEPT ![r] =
       [kind |-> k, user |-> u, route |-> IF k \in Media THEN "direct" ELSE p,
        at |-> "vetting", gone |-> FALSE,
        seen |-> IF k = "sse" THEN count["sse"][u] ELSE 0, retry |-> k = "video"]]
  /\ UNCHANGED <<semVars, count, dirs, poolVars>>

\* A private URL, or the limiter's tryAcquire returns null.
Refused(r) ==
  /\ At(r, {"vetting"})
  /\ requests' = [requests EXCEPT ![r] = None]
  /\ UNCHANGED <<semVars, count, dirs, poolVars>>

Admits(r) == At(r, {"vetting"}) /\ (Is(r, {"sse"}) \/ count[MyLimit(r)][Me(r)] < Cap(MyLimit(r)))

\* An image: a direct request resolves the host first.
AdmitImage(r) ==
  /\ Admits(r) /\ Is(r, Images)
  /\ requests[r].route = "proxy" => ~requests[r].gone
  /\ count' = With(r, Admitted(r))
  /\ Goto(r, IF requests[r].route = "direct" THEN "resolving" ELSE "fetching")
  /\ UNCHANGED <<semVars, dirs, poolVars>>

\* acquire with a free slot.
AdmitFree(r) ==
  /\ Admits(r) /\ ~Is(r, Images) /\ ~requests[r].gone
  /\ running[MySem(r)] < Slots(MySem(r))
  /\ running' = [running EXCEPT ![MySem(r)] = @ + 1]
  /\ count' = With(r, Admitted(r))
  /\ requests' = [requests EXCEPT ![r].at = "granted", ![r].seen = 0]
  /\ UNCHANGED <<queue, dirs, poolVars>>

\* acquire behind others.
AdmitQueued(r) ==
  /\ Admits(r) /\ ~Is(r, Images) /\ ~requests[r].gone
  /\ running[MySem(r)] >= Slots(MySem(r)) /\ Len(queue[MySem(r)]) < MaxQueue(MySem(r))
  /\ queue' = [queue EXCEPT ![MySem(r)] = Append(@, r)]
  /\ count' = With(r, Admitted(r))
  /\ requests' = [requests EXCEPT ![r].at = "queued", ![r].seen = 0]
  /\ UNCHANGED <<running, dirs, poolVars>>

\* Mutant: acquire fails before the try whose finally uncounts.
AdmitFails_Counts(r) ==
  /\ Admits(r) /\ ~Is(r, Images) /\ running[MySem(r)] >= Slots(MySem(r))
  /\ Len(queue[MySem(r)]) >= MaxQueue(MySem(r))
  /\ count' = With(r, Admitted(r))
  /\ requests' = [requests EXCEPT ![r] = None]
  /\ UNCHANGED <<semVars, dirs, poolVars>>

\* Counted and at once uncounted: the client has left, or the queue is full.
AdmitFails(r) ==
  /\ Admits(r)
  /\ \/ requests[r].gone /\ (Is(r, Images) => requests[r].route = "proxy")
     \/ /\ ~Is(r, Images) /\ running[MySem(r)] >= Slots(MySem(r))
        /\ Len(queue[MySem(r)]) >= MaxQueue(MySem(r))
  /\ count' = With(r, Lowered(Admitted(r)))
  /\ requests' = [requests EXCEPT ![r] = None]
  /\ UNCHANGED <<semVars, dirs, poolVars>>

\* A job's extraction has no user's limit and no client.
JobRequest(p, a) == [kind |-> "job", user |-> None, route |-> p, at |-> a,
                     gone |-> FALSE, seen |-> 0, retry |-> FALSE]
JobArrives(r, p) ==
  /\ requests[r] = None
  /\ \/ /\ running["extraction"] < ExtractSlots
        /\ running' = [running EXCEPT !["extraction"] = @ + 1]
        /\ requests' = [requests EXCEPT ![r] = JobRequest(p, "granted")]
        /\ UNCHANGED queue
     \/ /\ running["extraction"] >= ExtractSlots /\ Len(queue["extraction"]) < ExtractQueue
        /\ queue' = [queue EXCEPT !["extraction"] = Append(@, r)]
        /\ requests' = [requests EXCEPT ![r] = JobRequest(p, "queued")]
        /\ UNCHANGED running
  /\ UNCHANGED <<count, dirs, poolVars>>

----------------------------------------------------------------------------
(* Images: one request upstream, aborted with the client. *)

ImageResolved(r) ==
  /\ At(r, {"resolving"}) /\ ~requests[r].gone
  /\ Goto(r, "fetching")
  /\ UNCHANGED <<semVars, count, dirs, poolVars>>

\* Refused, failed, timed out, or sent; at "resolving" with a client that left,
\* the request is aborted before it starts.
ImageEnds(r) ==
  /\ At(r, {"resolving", "fetching"})
  /\ requests' = [requests EXCEPT ![r] = None] /\ count' = Uncounted(r)
  /\ UNCHANGED <<semVars, dirs, poolVars>>

----------------------------------------------------------------------------
(* ffmpeg: /stream-download stages a file, /thumbnail pipes one frame. *)

MediaStart(r) ==
  /\ At(r, {"granted"}) /\ Is(r, Media)
  /\ Goto(r, IF Is(r, {"video"}) THEN "staging" ELSE "spawning")
  /\ UNCHANGED <<semVars, count, dirs, poolVars>>

\* makeJobDir; runFfmpeg looks at the signal before it sets up the proxy.
Staged(r) ==
  /\ At(r, {"staging"})
  /\ dirs' = dirs \cup {r}
  /\ Goto(r, IF requests[r].gone THEN "erasing" ELSE "spawning")
  /\ UNCHANGED <<semVars, count, poolVars>>

\* No directory, so none to erase.
StagingFails(r) ==
  /\ At(r, {"staging"})
  /\ LeaveSlot(r)
  /\ UNCHANGED <<dirs, poolVars>>

\* The proxy listens and ffmpeg starts.  runFfmpegOnce listens for a hang-up only
\* from here: an earlier one is lost.  spawnFfmpegStream looks again and kills.
Spawned(r) ==
  /\ At(r, {"spawning"})
  /\ Goto(r, "running")
  /\ UNCHANGED <<semVars, count, dirs, poolVars>>

SpawnFails(r) ==
  /\ At(r, {"spawning"})
  /\ IF Is(r, {"video"}) THEN Goto(r, "erasing") /\ UNCHANGED <<semVars, count>>
                         ELSE LeaveSlot(r)
  /\ UNCHANGED <<dirs, poolVars>>

\* The codec is refused: once more without the filter, if the client is there.
FfmpegRetries(r) ==
  /\ At(r, {"running"}) /\ requests[r].retry
  /\ requests' = [requests EXCEPT ![r].retry = FALSE,
                    ![r].at = IF requests[r].gone THEN "erasing" ELSE "spawning"]
  /\ UNCHANGED <<semVars, count, dirs, poolVars>>

\* A complete file; it is piped to the client.
FfmpegDone(r) ==
  /\ At(r, {"running"}) /\ Is(r, {"video"})
  /\ Goto(r, "sending")
  /\ UNCHANGED <<semVars, count, dirs, poolVars>>

\* An error, a cap, the timeout or a live stream.
FfmpegFails(r) ==
  /\ At(r, {"running"}) /\ Is(r, {"video"})
  /\ Goto(r, "erasing")
  /\ UNCHANGED <<semVars, count, dirs, poolVars>>

\* The thumbnail's process closed, with a frame, without one, or killed.
ThumbnailEnds(r) ==
  /\ At(r, {"running"}) /\ Is(r, {"thumb"})
  /\ LeaveSlot(r)
  /\ UNCHANGED <<dirs, poolVars>>

Sent(r) ==
  /\ At(r, {"sending"})
  /\ Goto(r, "erasing")
  /\ UNCHANGED <<semVars, count, dirs, poolVars>>

\* Mutant: the slot and the request go, the directory stays.
Erased_Keeps(r) ==
  /\ At(r, {"erasing"})
  /\ LeaveSlot(r)
  /\ UNCHANGED <<dirs, poolVars>>

\* secureRemoveDir, release.
Erased(r) ==
  /\ At(r, {"erasing"})
  /\ dirs' = dirs \ {r} /\ LeaveSlot(r)
  /\ UNCHANGED poolVars

----------------------------------------------------------------------------
(* The browser. *)

\* The end of getBrowser.  It does not look at the route of the browser it
\* returns, nor of the launch it joins.
TakeBrowser(r) ==
  IF browser # None
  THEN Goto(r, IF chromiums > 0 THEN "browsing" ELSE "broken") /\ UNCHANGED launch
  ELSE Goto(r, "launching") /\ launch' = IF launch = None THEN requests[r].route ELSE launch

\* Mutant: browserInstance is reset before close() is awaited.
PageStart_Early(r) ==
  /\ At(r, {"granted"}) /\ Is(r, Pages)
  /\ IF browser # None /\ browser # requests[r].route
     THEN Goto(r, "closing") /\ browser' = None /\ UNCHANGED launch
     ELSE TakeBrowser(r) /\ UNCHANGED browser
  /\ UNCHANGED <<semVars, count, dirs, chromiums>>

\* getBrowser: a browser of another route is closed first.
PageStart(r) ==
  /\ At(r, {"granted"}) /\ Is(r, Pages)
  /\ IF browser # None /\ browser # requests[r].route
     THEN Goto(r, "closing") /\ UNCHANGED launch
     ELSE TakeBrowser(r)
  /\ UNCHANGED <<semVars, count, dirs, browser, chromiums>>

\* close() ends for all who wait for it.  The pages in it break.  The first who
\* waited, r, goes on to stop the proxy; the others find it stopping, and launch.
BrowserClosed(r) ==
  /\ At(r, {"closing"})
  /\ LET others == {q \in Req : At(q, {"closing"})} \ {r} IN
       /\ requests' = [q \in Req |->
            IF q = r THEN [requests[q] EXCEPT !.at = "stopping"]
            ELSE IF q \in others THEN [requests[q] EXCEPT !.at = "launching"]
            ELSE IF At(q, {"browsing"}) THEN [requests[q] EXCEPT !.at = "broken"]
            ELSE requests[q]]
       /\ launch' = IF others = {} THEN launch ELSE requests[r].route
  /\ browser' = None /\ chromiums' = 0
  /\ UNCHANGED <<semVars, count, dirs>>

ProxyStopped(r) ==
  /\ At(r, {"stopping"})
  /\ TakeBrowser(r)
  /\ UNCHANGED <<semVars, count, dirs, browser, chromiums>>

\* launchBrowser resolves: all who share it get a page.
Launched ==
  /\ launch # None
  /\ browser' = launch /\ launch' = None /\ chromiums' = chromiums + 1
  /\ requests' = [q \in Req |-> IF At(q, {"launching"})
                                THEN [requests[q] EXCEPT !.at = "browsing"] ELSE requests[q]]
  /\ UNCHANGED <<semVars, count, dirs>>

LaunchFails ==
  /\ launch # None /\ launch' = None
  /\ requests' = [q \in Req |-> IF At(q, {"launching"})
                                THEN [requests[q] EXCEPT !.at = "broken"] ELSE requests[q]]
  /\ UNCHANGED <<semVars, count, dirs, browser, chromiums>>

\* The Chromium process dies.  browserInstance stays as it is.
BrowserCrashes ==
  /\ chromiums > 0 /\ chromiums' = 0
  /\ requests' = [q \in Req |-> IF At(q, {"browsing"})
                                THEN [requests[q] EXCEPT !.at = "broken"] ELSE requests[q]]
  /\ UNCHANGED <<semVars, count, dirs, browser, launch>>

\* The page's media are found; its context closes.
PageScanned(r) ==
  /\ At(r, {"browsing"})
  /\ Goto(r, "leaving")
  /\ UNCHANGED <<semVars, count, dirs, poolVars>>

\* The page does not load, its context was closed, or there is no browser.  A
\* stream ends at once, before the slot is given back.
PageFails(r) ==
  /\ At(r, {"browsing", "broken"})
  /\ requests' = [requests EXCEPT ![r].at = "leaving",
                    ![r].gone = IF Is(r, {"sse"}) THEN TRUE ELSE @]
  /\ count' = IF Is(r, {"sse"}) THEN Uncounted(r) ELSE count
  /\ UNCHANGED <<semVars, dirs, poolVars>>

\* context.close() is over.  A stream still waits for its probes, without a slot.
ContextClosed(r) ==
  /\ At(r, {"leaving"})
  /\ IF Is(r, {"sse"}) /\ ~requests[r].gone
     THEN Freed(r, [requests[r] EXCEPT !.at = "probing"]) /\ UNCHANGED count
     ELSE LeaveSlot(r)
  /\ UNCHANGED <<dirs, poolVars>>

\* The last probe of a stream settles; the context may still be closing.
ProbesDone(r) ==
  /\ Is(r, {"sse"}) /\ At(r, {"leaving", "probing"}) /\ ~(At(r, {"leaving"}) /\ requests[r].gone)
  /\ requests' = [requests EXCEPT ![r] = IF At(r, {"probing"}) THEN None
                                         ELSE [requests[r] EXCEPT !.gone = TRUE]]
  /\ count' = Uncounted(r)
  /\ UNCHANGED <<semVars, dirs, poolVars>>

----------------------------------------------------------------------------
(* The client hangs up: clientGoneSignal. *)

\* Where a hang-up changes what r's handler does next.
LooksLater(r) ==
  CASE Is(r, {"sse"})   -> Await \ {"queued"}
    [] Is(r, {"video"}) -> {"vetting", "granted", "staging", "spawning"}
    [] Is(r, {"job"})   -> {}
    [] OTHER            -> {"vetting", "resolving", "browsing"}

\* Mutant: a stream's place is left to the end of its probes.
GoneNoted_Silent(r) ==
  /\ At(r, LooksLater(r)) /\ ~requests[r].gone
  /\ requests' = [requests EXCEPT ![r].gone = TRUE,
                    ![r].at = IF At(r, {"browsing"}) THEN "broken" ELSE @]
  /\ UNCHANGED <<semVars, count, dirs, poolVars>>

\* The code that runs now or next looks at the signal later, or loses it; a page
\* is closed, and a stream gives back its place.
GoneNoted(r) ==
  /\ At(r, LooksLater(r)) /\ ~requests[r].gone
  /\ requests' = [requests EXCEPT ![r].gone = TRUE,
                    ![r].at = IF At(r, {"browsing"}) THEN "broken" ELSE @]
  /\ count' = IF Is(r, {"sse"}) THEN Uncounted(r) ELSE count
  /\ UNCHANGED <<semVars, dirs, poolVars>>

\* Mutant: onAbort rejects and leaves the waiter in the queue.
GoneQueued_Stays(r) ==
  /\ At(r, {"queued"}) /\ ~Is(r, {"job"})
  /\ requests' = [requests EXCEPT ![r] = None] /\ count' = Uncounted(r)
  /\ UNCHANGED <<semVars, dirs, poolVars>>

\* queue.splice(i, 1).
Spliced(q, i) == [j \in 1..(Len(q) - 1) |-> IF j < i THEN q[j] ELSE q[j + 1]]

\* onAbort of the semaphore's waiter.
GoneQueued(r) ==
  /\ At(r, {"queued"}) /\ ~Is(r, {"job"})
  /\ \E i \in 1..Len(queue[MySem(r)]) :
       /\ queue[MySem(r)][i] = r
       /\ queue' = [queue EXCEPT ![MySem(r)] = Spliced(@, i)]
  /\ requests' = [requests EXCEPT ![r] = None] /\ count' = Uncounted(r)
  /\ UNCHANGED <<running, dirs, poolVars>>

\* The request upstream is destroyed.
GoneFetching(r) ==
  /\ At(r, {"fetching"})
  /\ requests' = [requests EXCEPT ![r] = None] /\ count' = Uncounted(r)
  /\ UNCHANGED <<semVars, dirs, poolVars>>

\* ffmpeg is killed, or the pipe to the client breaks.
GoneStreaming(r) ==
  /\ At(r, {"running", "sending"}) /\ Is(r, {"video"}) /\ ~requests[r].gone
  /\ requests' = [requests EXCEPT ![r].gone = TRUE, ![r].at = "erasing"]
  /\ UNCHANGED <<semVars, count, dirs, poolVars>>

----------------------------------------------------------------------------
FrontStep(r) == \/ \E k \in Kind, u \in User, p \in Route : Arrive(r, k, u, p)
                \/ \E p \in Route : JobArrives(r, p)
                \/ Refused(r) \/ AdmitImage(r) \/ AdmitFree(r) \/ AdmitQueued(r) \/ AdmitFails(r)
MediaStep(r) == \/ ImageResolved(r) \/ ImageEnds(r) \/ MediaStart(r) \/ Staged(r) \/ StagingFails(r)
                \/ Spawned(r) \/ SpawnFails(r) \/ FfmpegRetries(r) \/ FfmpegDone(r) \/ FfmpegFails(r)
                \/ ThumbnailEnds(r) \/ Sent(r) \/ Erased(r)
PageStep(r)  == \/ PageStart(r) \/ BrowserClosed(r) \/ ProxyStopped(r)
                \/ PageScanned(r) \/ PageFails(r) \/ ContextClosed(r) \/ ProbesDone(r)
GoneStep(r)  == GoneNoted(r) \/ GoneQueued(r) \/ GoneFetching(r) \/ GoneStreaming(r)

Next == \/ \E r \in Req : FrontStep(r) \/ MediaStep(r) \/ PageStep(r) \/ GoneStep(r)
        \/ Launched \/ LaunchFails \/ BrowserCrashes

Spec == Init /\ [][Next]_vars

----------------------------------------------------------------------------
(* Properties. *)

\* Every request is a record of a handler's state, every count a natural number.
TypeOK ==
  /\ requests \in [Req -> Request \cup {None}]
  /\ running \in [Sem -> Nat] /\ queue \in [Sem -> Seq(Req)]
  /\ count \in [Limit -> [User -> Nat]]
  /\ dirs \subseteq Req
  /\ {browser, launch} \subseteq Route \cup {None} /\ chromiums \in Nat

Holders(s) == {r \in Req : At(r, Held) /\ MySem(r) = s}

\* A semaphore's counter is the number of handlers that run on one of its slots,
\* never more than it has: no path of a handler (an abort racing the grant, a
\* failed start, a hang-up) keeps a slot, gives one back twice or runs without.
SlotsExact == \A s \in Sem : running[s] = Cardinality(Holders(s)) /\ running[s] <= Slots(s)

\* The waiters in a semaphore's queue are exactly the requests that wait, each
\* once, at most MaxQueue of them, and only while every slot is taken: the
\* splice of an aborted waiter and the shift of a granted one never lose or
\* double a waiter, and none waits beside a free slot.
QueueSound == \A s \in Sem :
  /\ \A i, j \in 1..Len(queue[s]) : queue[s][i] = queue[s][j] => i = j
  /\ \A r \in Req : (At(r, {"queued"}) /\ MySem(r) = s) <=> \E i \in 1..Len(queue[s]) : queue[s][i] = r
  /\ Len(queue[s]) <= MaxQueue(s)
  /\ queue[s] # <<>> => running[s] = Slots(s)

Mine(l, u) == {r \in Req : requests[r] # None /\ Counts(r) /\ MyLimit(r) = l /\ Me(r) = u}

\* A user's count is the number of his requests past tryAcquire, never above the
\* cap, on every path out of the handlers: a leaked place would lock the user
\* out of the route until a restart.
UserLimitsExact == \A l \in Limit \ {"sse"}, u \in User :
  count[l][u] = Cardinality(Mine(l, u)) /\ count[l][u] <= Cap(l)

\* A user whom /extract/stream refuses for too many streams has one open: the
\* count read before an await and written back later may drift, but never so
\* that the route stays closed to a user with no stream.
NobodyLockedOut == \A u \in User :
  /\ count["sse"][u] <= SseCap
  /\ count["sse"][u] = SseCap => Mine("sse", u) # {}

\* A staged file is on disk only while its request is under way: every end of
\* /stream-download, a hang-up during the setup or the transfer included,
\* comes past secureRemoveDir.
StagedErased ==
  dirs = {r \in Req : Is(r, {"video"}) /\ At(r, {"spawning", "running", "sending", "erasing"})}

\* At most one Chromium runs or starts, and it is the one browserInstance names;
\* a page is open only in a live browser, and whoever waits for a launch has one
\* to wait for.  Concurrent extractions, route changes and crashes neither leak
\* a browser nor leave a waiter behind.
OneBrowser ==
  /\ chromiums + (IF launch = None THEN 0 ELSE 1) <= 1
  /\ chromiums = 1 => browser # None
  /\ launch # None => browser = None
  /\ \A r \in Req : /\ At(r, {"browsing"}) => chromiums = 1
                    /\ At(r, {"launching"}) => launch # None
                    /\ At(r, {"closing"}) => browser # None

\* An extraction runs in a browser of its own route ("If proxy config changed,
\* close and relaunch", extractor/index.ts:101).  The code joins a launch under
\* way whatever its route, and does not look again after closeBrowser.
ProxyRespected == \A r \in Req : At(r, {"browsing"}) => browser = requests[r].route
=============================================================================
