# A TLA+ model of ppvda

ppvda is a self-hosted service: a logged-in user submits the URL of a page or of
a video; the server extracts the media URL with a headless browser, downloads
the media, seals it for the user's Darkreel library, uploads it and erases the
local plaintext. All its traffic may be forced through a Mullvad WireGuard
tunnel, which a privileged supervisor process sets up. This directory holds the
formal model of that program: what it does, what TLC checks about it and what
TLAPS proves about it. Paths below are relative to the repository's root.

## 1. Inventory

The server is one Node process (`src/`) beside one Go process
(`wg-supervisor/`). Node runs one callback at a time, so every piece of code
between two `await`s is atomic and every `await` is a point where any other
request, timer or signal may run. The supervisor serialises its commands with a
mutex, but runs concurrently with Node.

| Component | State | Operations | Talks to |
|---|---|---|---|
| Job store (`src/jobs/store.ts`) | map of jobs: owner, status, last update | create (evicts), update (terminal states are final), activeCount, isActive; a timer fails jobs without update for an hour | pipeline, job routes |
| Job pipeline (`src/jobs/pipeline.ts`) | semaphore (counter and queue), one task per job | submit, then per job: acquire, gate, vet, extract, vet, download, upload, remove, release | store, sessions, database, extractor, downloader, Darkreel client |
| Job directories (`src/utils/fs.ts`, `src/downloader/index.ts`) | directories with plaintext | make, erase, purge at start | pipeline, streaming routes |
| Sessions (`src/auth/sessions.ts`) | session id -> user, master key, creation time | set, get, delete, deleteAllForUser, expiry, clear | auth routes, pipeline |
| Authentication (`src/auth/index.ts`) | user rows, account limiter | register, login, logout, recover, change password, delete, bootstrap | sessions, database |
| Administration (`src/server/routes/admin.ts`, `vpn-permissions.ts`) | settings, per-user VPN permission | create and delete users, VPN switch and defaults | auth, Mullvad control |
| Darkreel delegation (`src/server/routes/settings.ts`) | a row per user | connect, disconnect, fetch for an upload | sessions, Darkreel |
| Darkreel client (`src/darkreel/`) | one upload at a time per job | token refresh, chunking, sealed upload | Darkreel server (external) |
| Bounded semaphore and ffmpeg limits (`src/utils/semaphore.ts`, `src/server/routes/ffmpeg-concurrency.ts`) | counter, bounded queue with abort, per-user counters | acquire, release | streaming, extraction, thumbnails |
| Streaming and extraction routes (`src/server/routes/`) | per-user SSE counts, request directories | extract, extract/stream, stream-download, thumbnail | browser pool, ffmpeg, VPN gate |
| Browser pool (`src/extractor/`) | the shared browser, its proxy, a launch in flight | get, launch, close | SSRF proxy |
| SSRF proxy (`src/utils/ssrf-proxy.ts`), URL checks (`src/utils/url.ts`) | active sockets; bypass addresses | connect, stop; classify | browser, everyone who fetches |
| Mullvad control (`src/mullvad/`) | active device and config, switching flag, health state, device file | setup, teardown, switch, health probes | Mullvad API (external), supervisor |
| Supervisor (`wg-supervisor/`) | tunnel, kill switch, pinned bypass hosts, relay cache | BRINGUP, TEARDOWN, ADD_ROUTES, GATEWAY | kernel, Mullvad relay list |
| Process (`src/index.ts`) | up, stopping, down | bootstrap, start, shutdown on a signal | everything |

What is hard in it: tasks that outlive the state they read (sessions, the store's
entry, the health state, counts read before an `await`), jobs that a timer
settles under a running task, plaintext on disk across crashes, the order of the
shutdown, commands that go on after their caller timed out, and devices that are
registered with an external account. What makes the components correct:

- **Store, pipeline, directories**: slots are accounted and given in order; a job
  shown in progress is being worked on; statuses only move forward; no success
  without delivery; every plaintext directory has an owner that erases it;
  memory is bounded; every job ends.
- **Authentication**: an account keeps its one master key through every change of
  password; no session opened before a change or a recovery survives it; names are
  unique; a delegation has its account; the limiters limit.
- **Routes, ffmpeg limits, streams**: counters equal the requests in progress;
  limits hold; a client that left frees its place; a staged file goes.
- **Browser pool**: at most one browser; no extraction runs in a browser launched
  for another proxy.
- **Mullvad control and supervisor**: no route outside the tunnel except the
  relay and the bypass hosts; gated work only while healthy; every registered
  device is removed in the end, and no other.
- **Download and Darkreel client**: the chunks partition the file; keys outlive the
  code that uses them; no plaintext stays; every transfer ends.

`PROJECT.json` lists each hazard at its line, with the properties that cover it, or
why none does.

## 2. Plan

1. `JobLifecycle`, `JobPipeline`, `JobPipeline_proofs` — done.
2. `Supervisor`, `VpnControl`, `VpnControl_proofs` — done.
3. `Accounts`, `Accounts_proofs` — done.
4. `MediaRoutes`, `MediaRoutes_proofs`: the routes, the semaphores and limits they
   share, and the browser pool — done.
5. `Download`, `Upload`, `Upload_proofs`, `Transfer`, `Transfer_proofs`: one job's
   media from the site to Darkreel — done.
6. `Startup`, `Startup_proofs`: the process over several runs, the device it
   registers, overlapping signals — done.
7. `SlotQueue`: the abstract specification of both kinds of semaphore, which the jobs
   and the media routes are proved to implement — done.
8. Left: the VPN permissions of users, the sockets of the SSRF proxy, the age of
   the supervisor's relay list.

`JobPipeline` sees a download and an upload as one await each; `Transfer` is what
happens within them. `JobPipeline`'s extraction is a "job" request of
`MediaRoutes`. `VpnControl` sees one run of the container, `Startup` the sequence
of them.

## 3. What is modelled

### JobLifecycle: the promise

The abstract specification: `view[j]` is what the owner of a job sees through
the API. `After` says which status may follow which; `Lose` is a crash (the
store is in memory only); `EveryJobSettles` is the promise that nothing stays in
progress.

### SlotQueue: the semaphores' promise

What `acquire` and `release` are for, whoever calls them: `holders` and `waiters`,
and a slot that is free is taken (`Take`), a slot that is not is waited for in a
queue of limited length (`Wait`), a returned one goes to the longest waiter
(`Return`), a waiter may leave (`GiveUp`), and a death of the process ends it all
(`Lose`). There is no counter: that the code's one agrees with the callers is what
the refinement shows. `Semaphore` of `src/jobs/pipeline.ts` never gives up;
`BoundedSemaphore` does, and its module has no death of the process. The running
system is checked by TLC through `SlotAccounting`, `SlotsExact` and `QueueSound`;
the refinements themselves are proved (section 5).

### JobPipeline: the code

| State | In the code |
|---|---|
| `status`, `owner` | `JobStore.jobs`; `"absent"` is not in the map |
| `stale` | the active jobs whose `updatedAt` is over an hour old; which ones is left open, so the sweep can hit any subset |
| `nextJob` | `generateId`, and the order of `createdAt` and of the map |
| `task[j]` | the `await` at which the pipeline of job `j` is: `waiting` (`sem.acquire`), `granted`, `vetting` (`isPrivateUrl`), `extracting`, `vettingMedia`, `mkdir` (`makeJobDir`), `downloading`, `discarding` (removal after a failed download), `uploading`, `removing` (the `finally`), `ended` |
| `running`, `queue` | the fields of `Semaphore` |
| `dirs`, `purging` | directories on disk; those the purge of this start has listed and not yet tried |
| `left` | directories this process has tried to remove in vain; nobody tries again before the next start |
| `session`, `delegation` | whether `getKeyForUser` finds a key; whether the user has a row |
| `darkreel` | external: the media the Darkreel server holds |
| `phase`, `crashes` | of the process; how often it died |

Each action is the code between two awaits, with every store update, the release
of the slot in the `finally`, and the eviction in `create` inside it. `Submit` is
`Pipeline.submit`; `TaskStep` collects the steps of one task; `SweepStale` the
timer; `Purge` one directory of `purgeStaleJobDirs`; `BeginShutdown`, `Die` and
`Boot` the process. A login may complete during a shutdown, because its key
derivation was running when the sessions were cleared.

Abstractions. The outcome of the VPN gate, of URL checks, extraction and
transfer is an input, with success and failure both possible. A user's sessions
are one bit (`getKeyForUser` takes any). Deleting a user drops both bits. An
upload that reports an error may have stored the media. `secureRemoveDir` swallows
every error, so `RemoveDir` may leave the directory, on every exit and in the purge:
a file that cannot be unlinked, or one that a late hop of a rejected download has
opened after the listing (`orphaned` in `Transfer`). During a shutdown the database
may be closed when a download returns; its query then throws through the `finally`
to the catch of `submit`, which fails the job. The
listing of the purge is taken at start, before any request: the code begins it
synchronously in `createPipeline`, before the server listens. Jobs of the API
listing, timestamps and messages are left out.

Its properties, each aimed at a hazard of `PROJECT.json`:

- `SlotAccounting`, `FirstComeFirstServed`: the semaphore.
- `StoreBounded`: eviction never removes an active job and runs only at creation;
  the store is bounded by the larger of `maxHistory` and the active jobs.
- `NoAbandonedJob`: no exit of the pipeline leaves a job in progress.
- `PlaintextOwned`, `RemovalTried`: a running process accounts for every directory on
  disk, across sweeps, evictions and crashes: the task or the purge will remove it, or
  the removal was tried and failed; and in the end each one is tried. That a removal
  succeeds is not claimed: a directory in `left` stays until the next start, whose
  purge tries again and may fail again.
- `NoPhantomSuccess`: `done` means delivered, or no delegation at that moment.
- `JobsKeepTheirPromise`: the pipeline implements `JobLifecycle`, its liveness
  included. `EveryTaskEnds`: every task gets a slot and ends.

### Supervisor: the privileged process

`wg-supervisor/main.go` runs one command at a time. `Supervisor` models the
network namespace it changes (`wg`, the default `route`, `relayRoutes`, the hosts
`routed` around the tunnel, the kill switch's `rules`, `resolv`, `conf`), its memory
(`endpoint`, `pinnedHosts` as `pinned`, `bypassIPs` as `exempted`, `tunnelUp`) and the
socket: `calls` wait for `opMu`, in any order; `replies` are
read by the caller that waits for them, or lost when it gave up.

TEARDOWN and ADD_ROUTES are one action each; BRINGUP has a step for the policy
(`doBringup` up to `applyKillSwitch`), for `wg-quick up` and for the resolver,
each with its failure, so that health probes and other callers see the network in
between. Any subprocess may fail or be killed at its 30 s timeout half way
through; the failing actions say which parts may have happened. So may the writes: a
TEARDOWN clears `tunnelUp` and answers with success, but need not have restored the
resolver (the error of the write is dropped) nor removed the config (`secureUnlink`
returns early when it cannot open it). `resolv = "other"` is Docker's resolver or what
a failed write left. `AddRoutes` resolves, routes, pins and exempts: a host whose
routes fail half way is skipped and counts as not routed, and `ExemptHosts`, which
puts the accumulated exceptions into the firewall, may fail after the rest is done.
`WgQuickDown` is
`wg-quick down` with its PreDown, which does nothing without the config file:
that is how a TEARDOWN after a failed one leaves an interface behind.

Abstractions. A host stands for its addresses and is a DNS name (an IPv4 literal
needs no resolver). `/etc/hosts` is left out: it decides which address a bypass host's
name gives, not what may leave. A config file that was overwritten half way counts as
the old one or the new one. The gateway captured at boot is assumed known.
Validation and the relay list are one refusal that may happen any time; success
needs the pinned addresses of `api.mullvad.net`. Of the rules, only the relay and
the exceptions are kept; one policy stands for IPv4 and IPv6.

### VpnControl: Node's side

`VpnControl` extends `Supervisor` with `main` (where `main()` or the signal
handler waits), `switchPc` (where `switchMullvadCountry` waits), the `switching`
flag, the bypass addresses Node knows (`bypassIPs` of `src/utils/url.ts`), the
`health` state and the probes under way. `Setup` is
`setupMullvad` and the first health check, `Switch` a country switch, `Probes`
`checkInterface` and `checkRouting` with the gate's staleness, `Shutdown` the
signal handler. A call may end in its answer or by giving up, while its request
still waits or runs in the supervisor; several such leftovers may pile up. A
routing probe's answer may be read after the tunnel went down. A switch whose
client disconnected may go on while the server closes.

One run of the container: it ends with `phase = "down"`, which ends the
supervisor too, and a new one starts in a fresh network namespace. So the system
really stops, and its configurations say `CHECK_DEADLOCK FALSE`. A crash of Node,
a second signal, the device's registration and its file are in `Startup`; a crash of the supervisor is
not modelled.

- `KillSwitchFirst`: no interface, no changed default route and no request served
  without the kill switch, across failures and late commands.
- `FlagFollowsTunnel`: `tunnelUp`, by which lookups of bypass hosts are sent through
  the tunnel, is set only while the interface, the default route over it, the relay's
  own route and Mullvad's resolver are in place. The converse is not claimed and does
  not hold: after a failed TEARDOWN any of them may still be there with the flag down.
- `BypassesAgree`: the five places that name a bypass agree whatever fails: the
  firewall exempts only what is in `bypassIPs`, that is what is pinned, each pinned host
  has all its routes, and neither a reply nor Node names another host.
- `GateShutsWithoutTunnel`, `GateReopens`: the gate follows the tunnel in the end;
  `SwitchTerminates`: a switch always lets the next one start.

### Accounts: users, sessions, delegations, limiters

`Accounts` models `src/auth/`, the tables of `src/db/index.ts`, the deletion of
users and the Darkreel connection. A handler runs alone between two awaits, so
each handler is split exactly at the awaits around which it holds state: key
derivations and the exchange of the authorization code. A request remembers what
its handler read before (its account, key, recovery code, session) and uses it
after, whatever happened to the row in between.

| State | Code |
|---|---|
| `users`, `used`, `version` | the table `users`; ids taken (`randomUUID`); the number of the latest credentials |
| `delegations` | the table `darkreel_delegations`: per user, the key the token is encrypted with |
| `sessions` | `SessionStore.sessions` |
| `requests` | the handlers at an `await` |
| `loginFailures`, `recoverFailures` | the two `AccountLimiter`s: failures in the current window |

| Actions | Code |
|---|---|
| `RegisterStart`, `Registered`, `RegisterFails` | `POST /auth/register`, `POST /admin/users`: the name is looked up before the derivation, the `INSERT` decides after it |
| `LoginHopeless`, `LoginStart`, `LoginLegacy`, `LoginRefused`, `LoginVerified`, `LoginDone`, `LoginUpgraded` | `POST /auth/login`; a legacy password is checked without an await, its upgrade writes after two |
| `RecoverRefused`, `RecoverStart`, `Recovered` | `POST /auth/recover`; a wrong code is counted without an await |
| `ChangeStart`, `DeleteStart`, `Refused`, `Changed`, `Deleted`, `AdminDelete` | `POST /auth/change-password`, `DELETE /auth/account`, `DELETE /admin/users/:id` |
| `ConnectStart`, `Connected`, `ConnectFails`, `Disconnect` | `/settings/darkreel` |
| `SessionEnds`, `WindowEnds`, `Restart` | logout or expiry; a limiter's entry expires, or is evicted; the process starts again on the same database |

A password or a code is the number of the request that set it, and a presented
secret is right or wrong by choice. Of an account, `gen` is the latest credentials its
owner set and `pass` those its password is of. They differ only after the upgrade of
a legacy account that started before a change and wrote after it, which puts the old
password back. A login remembers the `pass` of the row it read and checked; its
session keeps it, with the account's `gen` when it was opened. So a session
opened late, after a change its login did not see, has `pass # gen`. Left out: the cryptography (a right secret
decrypts), the switch that allows registration (an administrator can always
register a user), which administrator deletes, and the VPN permissions that the
deletion also clears.

- `KeysSurvive`: row, sessions and delegation of an account hold its one master key,
  whatever overlaps.
- `SessionsFollowCredentials`: a change or recovery ends every session opened before
  it; those that logins under way still open late are fewer than the requests at a time,
  and no login that starts afterwards opens one. The one exception, an old password
  that a legacy upgrade put back (`pass # gen`), is a hazard of its own
  (`src/auth/index.ts:446`); the property fails without it.
- `NamesUnique`, `ConnectsToAccounts`, `GuessesBounded`: names, delegations and the
  limiters, across the awaits between a check and what relies on it.

### MediaRoutes: routes, semaphores, limits, browser

A request is at an `await` of its handler; an action is the code from there to the
next one, or what the client's hang-up does at that moment.

| State | Code |
|---|---|
| `requests[r]` | a handler under way: its kind (`video` and `image` are `/stream-download`, `thumb` and `picture` `/thumbnail`, `extract` and `sse` the two extraction routes, `job` the extraction of a job), user, proxy decision `route`, await `at`, whether its client left (`gone`), the count `/extract/stream` has read (`seen`), whether ffmpeg may run again (`retry`) |
| `running`, `queue` | both `BoundedSemaphore`s: `ffmpegRouteSem` and `extractionSem` |
| `count` | the `PerUserLimiter`s, and the map `sseConnections` |
| `dirs` | work directories of `/stream-download` |
| `browser`, `launch`, `chromiums` | `browserInstance`, `browserLaunch` (as the route they are for); Chromium processes |

| Actions | Code |
|---|---|
| `Arrive`, `Refused`, `AdmitImage`, `AdmitFree`, `AdmitQueued`, `AdmitFails`, `JobArrives` | each handler up to its slot: the URL check, `tryAcquire` or the streams' count, `acquire` |
| `ImageResolved`, `ImageEnds` | an image that is passed on |
| `MediaStart`, `Staged`, `StagingFails`, `Spawned`, `SpawnFails`, `FfmpegRetries`, `FfmpegDone`, `FfmpegFails`, `ThumbnailEnds`, `Sent`, `Erased` | the life of a request with an ffmpeg slot |
| `PageStart`, `BrowserClosed`, `ProxyStopped`, `Launched`, `LaunchFails`, `BrowserCrashes` | `getBrowser`, `closeBrowser`, `launchBrowser`, and the death of Chromium |
| `PageScanned`, `PageFails`, `ContextClosed`, `ProbesDone` | an extraction in the browser and the end of a stream |
| `GoneNoted`, `GoneQueued`, `GoneFetching`, `GoneStreaming` | the client hangs up: `clientGoneSignal`, the close of a stream, and who listens to it at that await |

`Freed` is `release()` with its synchronous grant to the head of the queue;
`Uncounted` the release functions of limits and streams. Left out: what ffmpeg and
the page produce, timeouts as such (each shows as the failure it causes), the VPN
gate (a refusal before anything is taken), and the browser's own SSRF proxy.

- `SlotsExact`, `QueueSound`, `UserLimitsExact`: on every path of every handler,
  and for an abort that races a grant.
- `NobodyLockedOut`: the stream count read before an `await` and written after it
  may be too low, never so high that a user with no stream is refused.
- `StagedErased`, `OneBrowser`: files and browsers are not leaked.

### Download, Upload, Transfer: one job's media

`Download` is `downloadVideo`, `downloadDirect` with its redirects, retries and
timers, and `secureRemoveDir`; `Upload` is `uploadStep`, `uploadFile` and
`darkreelPost`; `Transfer` puts them together.

| State | Code |
|---|---|
| `phase` | the `await` of the job's task |
| `attempt`, `hops`, `first` | retries; each request of `downloadWithRedirects` with where it is; the first one of this attempt |
| `dir`, `files`, `list` | the job's directory, its files, and what `secureRemoveDir` has yet to unlink |
| `orphaned` | history: a rejected download left a hop under way |
| `layout`, `segments`, `remuxed`, `fragmented` | the file's boxes, and what `uploadFile` makes of it |
| `keys`, `body`, `sent`, `open`, `reply`, `settled` | the file's keys, the generator `multipartBody`, the frames it produced, the request and its answer |
| `outcome` | of the upload, as the job reports it |

A redirected hop stays open while its body drains, and its error still rejects the
download; a write stream opens its file in the background. The two make late
files, which `secureRemoveDir` may or may not list. In `Upload`, the request's
body, the server's answer, the timer and socket errors run beside each other. The
server may answer at any time with any status: a 2xx that comes before the body has
ended counts as stored, as in `darkreelPost`, which asks for the status only.
`Scan`, `Merge`, `FixedSegments` and `Ciphertext` are the code's algorithms over
files given as sequences of boxes. The two loops, of `scanFMP4Segments` over the
boxes (`Walk`) and of `mergeSegments` over the segments (`Merged`), are recursive
functions of the number of rounds. TLC checks the results against what the server
and its player need over all `Layouts`; the proofs do for every file. An empty
file, and one that is none, is refused before it is scanned.

`Mib` bytes to a bucket and `Overhead` bytes of header and tag are parameters; TLC
takes small ones instead of 2^20 and 34. Left out: the cryptography, metadata, ffmpeg and ffprobe, whose
results are inputs, and deletions that fail.

- `KeysOutliveBody`: no chunk is encrypted with zeroed keys, however the call
  ended.
- `SentIsTheFile`, `FragmentsStartAtMoof`: what is sent is the file from its first
  byte on, cut where the player can start, and the last flag is on the chunk that ends
  it and on no other. That the whole body was read before a 2xx is up to Darkreel, and
  no property claims it.
- `PlaintextGone`: nothing readable is left when the job is over. `orphaned` is the
  exception, and a hazard of its own (`src/downloader/direct.ts:197`).
- `TransferEnds`: whatever the site and Darkreel do, the job's slot is free again.

### Startup: one instance, run after run

| State | Code |
|---|---|
| `phase` | where `main()` waits; `down` is no process |
| `admin`, `codeFile` | the user table is not empty; the recovery code was written |
| `registered` | the account's devices at Mullvad (external) |
| `file` | `mullvad-devices.json` |
| `active`, `own`, `remaining`, `copy` | `activeDevice`, and the lists `removeStaleOwnDevices` and `forgetOwnDevice` hold across their awaits |
| `pc` | each caller of `deregisterDevice`: the failed set-up, and a handler per signal |
| `leaked` | history: registered, and then lost by a reply, a crash or the file |

`Boot` to `Healthy` are `main()`; `Signalled` to `Stopped` the signal handlers and
`deregisterDevice`. Every call to Mullvad may be refused, or may take effect and
lose its reply; the file may be unreadable for once (`Load(FALSE)`, the empty list
of `loadOwnDevices`); the process may crash anywhere.

- `ForeignStay`: no device of the operator's is ever removed.
- `LeaksExplained`: a device the server registered is in the file until it is
  removed; the exceptions are named, by `leaked` and `Held`.
- `LeftoversGo`: an instance that keeps being started removes what it recorded.

## 4. The runs

| Run | Bounds | What it shows |
|---|---|---|
| `jobs_safety` | 1 user, 4 jobs, 2 slots, at most 3 active, history 1, a shutdown | the invariants but `PlaintextOwned`, and `NoPhantomSuccess`; 3.6 million states |
| `jobs_liveness` | 1 user, 3 jobs, 1 slot, at most 3 active, history 1, 1 crash or shutdown | `PlaintextOwned`, the refinement of `JobLifecycle`, `EveryTaskEnds`, `RemovalTried`; 119 000 states |
| `jobs_retained` | 1 user, 2 jobs, 1 slot, 1 crash | a disagreement, below |
| `vpn_control` | 1 relay, 1 bypass host, no switch starts after 4 requests | the VPN's invariants, gate and switch; 344 000 states |
| `accounts_safety` | 2 accounts, names, sessions and requests, limit 1, 3 writes of credentials, failures counted for one name at a time | the invariants of `Accounts`; 980 000 states up to symmetry |
| `accounts_codes` | 1 account, 2 requests | a disagreement, below |
| `media_safety` | 1 user, 3 requests, 1 ffmpeg slot, 2 extraction slots, queues of 1, caps 1 and 2 | the invariants of `MediaRoutes`; 770 000 states up to symmetry |
| `media_proxy` | the same | a disagreement, below |
| `transfer` | 2 requests per attempt, 1 retry, 45 files of up to 3 fragments, the empty one among them, 3 chunks | the properties of `Transfer`, liveness included; 333 000 states |
| `startup` | 3 devices of its own, 1 other, 3 per account, 2 signals | the properties of `Startup`, liveness included; 44 000 states |
| `vpn_bypass`, `vpn_shutdown` | 1 relay, 2 bypass hosts | disagreements, below |

Why the bounds are enough: two slots and four jobs give two holders and two
waiters, so order, hand-over and concurrent tasks all occur; history 1 below the
cap makes eviction work on some jobs and fail on others. The semaphore and the store
live in memory, so a crash only ends what `jobs_safety` looks at; its tasks run through
a shutdown instead. Directories survive: in `jobs_liveness` one crash gives every
combination of old ones, failed removals and new jobs. Users only meet in the semaphore
and the store, where the job's owner plays no part except in the cap, so one
user with more jobs finds more than two with fewer; the proofs cover any number.
`MaxJobs` and `MaxCrashes` bound counters the code does not bound.

`MaxCalls` is the only bound on the VPN. The start takes three requests, so one
country switch follows it, or two when the first ends early; with the shutdown that
makes up to eight requests, of which any that was given up on may still be pending.
One relay is enough for what is asked: a switch to the relay in use makes the same
calls, and the supervisor's memory is never compared with the wish for a country. One
host is resolved, routed, pinned or skipped as any other. The theorems cover every set
of relays and hosts, and any number of switches; the two runs of disagreements use
two hosts, because one lost host beside a known one is what they show.

The handlers of `Accounts` interfere in pairs: one request at its await, one that
commits meanwhile, and either may be of any kind. Two requests over two accounts
and two names give every such pair, of one account and of two; three writes
(`MaxVersion`) give one that makes an account and two that race. Two sessions are
one that a change ends and one that it opens. Ids, names, sessions and requests
are interchangeable, so the run uses their symmetry (it checks no liveness). The
limiters keep a count per name and no handler looks at another name's, so the run is
constrained to behaviours in which one name at a time has failures (`OneNameLimited`);
without that it has 2.6 million states and passes too.

Three requests on the routes are one with a slot, one that waits and one that comes
or leaves; with one ffmpeg slot and a queue of one, the third is refused. Extraction
has two slots, so that two pages share the browser or fight over its route while a
third waits. Caps of 1 make refusals happen beside a full and an empty queue, and let
two streams that have read the same count both pass; `ThumbCap` is 2. A stream that
writes back a count which others have lowered since needs a cap of 2: the run has
found nothing there either (1.6 million states), and the theorem covers every cap, so
the configuration keeps 1. Users meet only in the semaphores and the browser, where the owner plays no
part; the proofs cover any number.

Two requests per attempt are one redirect that is followed and one that is refused;
one retry has both sides of the limit. `Layouts` has files with and
without fragments, with a rest that is no box, and fragments that join, fill or
exceed a chunk; three chunks are one less than some of them need. In `startup`, a
device in use, one left over and one lost fill the account's limit together with
the operator's own, so a start that finds no room also occurs.

Deadlock is checked in every passing run but the VPN's: there is always something
the system can do, a login, a request or a start if nothing else. `Transfer` ends,
and says so with the stuttering step `Over`.

### Fairness

Weak fairness of each task's next step: every await of a task is bounded by a
timeout of the code (DNS, browser, `downloadTimeoutMs`, `drkUploadTimeoutMs`) or
is local disk work; `Transfer` shows for the download and the upload that these
timers are enough, although a `Retry-After` may make the wait long. Weak fairness of
the purge, which runs in the background; of `Boot`, because the service is
started again (`restart: unless-stopped`, or the operator after a stop); and of
the exit once a shutdown began (`process.exit`, or the container runtime's kill).
Nothing is assumed of users, sessions, the sweep or crashes.

For the VPN, weak fairness of the supervisor's commands (every subprocess has a
timeout of 30 s), of the steps of a country switch and of the shutdown (an RPC
gives up after 60 s, `fetch` has its own limits), of the start of each probe (a
timer) and of its end (a `stat`; a request aborted after its limit). An RPC whose
connection closes inside a response would never end; that is listed as a hazard
(`src/mullvad/supervisor-rpc.ts:125`). Nothing is assumed of the start, of
administrators and signals, or of the probes' outcome. `GateReopens` assumes in
its premise that probes stop failing and answers arrive in time.

For a transfer, weak fairness of the local steps, among them the timers, the
resolver and the subprocesses (`LocalStep`, `UploadStep`), and of files that open.
The site and Darkreel may be silent for ever, and the system need not take the
request's next part (`NetworkStep` and `ServerStep` have no fairness).

For `Startup`, weak fairness of `main()` (it is started again, and each of its
calls ends) and of the handlers; strong fairness of a readable file, a listing and
a removal that succeed. The code gives each of these calls one try per start, so
"if tried for ever, it succeeds for once" is an assumption about Mullvad and the
disk; without it a leftover stays, as it should. `LeftoversGo` says in its premise
that the process keeps ending: it removes leftovers only at a start. Nothing is
assumed of creations, signals and crashes. `MediaRoutes` has no liveness and no
fairness.

### Disagreements

`jobs_retained`: `KeptWithoutDelegation` is the comment at
`src/server/routes/settings.ts:198-200`: without a delegation "uploading to Darkreel is
a no-op and the job flow retains the downloaded file locally". `uploadStep` marks the
job done, and the `finally` of `processJob` removes the directory as it always does.

`vpn_bypass`: `BypassesKnown` is the supervisor's comment at
`wg-supervisor/main.go:489`, "every bypass it routes is one Node asked for and
knows to keep extraction traffic away from". `routeBypasses` replaces Node's set
by the hosts of the last reply, and does nothing when the reply is lost; the
supervisor pins a host for good. So a reply lost at start, or a route that fails
in a later one, leaves an exemption Node does not know.

`vpn_shutdown`: `ShutdownDeregisters` is the README's "On shutdown, deregisters
the device from Mullvad". `stopVpnHealthCheck` clears the state a probe under way
dereferences; the rejected promise has no handler, and the process exits before
`teardownMullvad`.

`accounts_codes`: `OldCodesFail` is the README's "Recovery codes are rotated on
every password change and recovery — the old code is invalidated and a new one is
displayed". The handler compares the code with the row it read, awaits two key
derivations and writes by id. Two recoveries with one code that overlap, a form
sent twice for instance, both succeed, and the code shown with the first reply is
already replaced by the second's.

`media_proxy`: `ProxyRespected` is the comment at `src/extractor/index.ts:101`, "If
proxy config changed, close and relaunch". `getBrowser` compares the proxy only with
that of a finished browser: an extraction that comes while one of the other setting
is being launched shares that launch, and one that waited for a close does not look
again. The page is then loaded through the other route.

Statements of the repository that are wider than the code, without a run of their own.
The properties that pass say what holds instead:

- `src/server/routes/settings.ts:206-209` names a user who "changed their password
  without re-connecting" as the usual cause of `decrypt-failed`. `Changed` and
  `Recovered` keep the master key (`src/auth/index.ts:664-686`), so the token stays
  readable: `KeysSurvive`.
- `README.md:303`: 10 failed attempts per username. Logins under way pass the check
  together: `GuessesBounded` has the overshoot.
- `README.md:319`: 3 `/extract/stream` requests per user. The count is read before an
  await and written after it, so more can be open: `NobodyLockedOut` only says that
  the lost count refuses nobody for ever.
- `README.md:190` and `src/mullvad/index.ts:30-34`: a device left by a crash is removed
  on the next start. Not one whose creation was not recorded, or whose record was lost:
  `LeaksExplained` names the cases.
- `README.md:304`: password changes and recovery invalidate all existing sessions. They
  do, but a login that checked the old password before may open one right after:
  `SessionsFollowCredentials` counts them.

## 5. What is proved

### Jobs

`JobPipeline_proofs` proves for every set of users, every limit and any number of
jobs and crashes, from `UserAssumption` (a finite, non-empty set) and
`LimitAssumption` (limits are natural numbers, at least one slot):

| Theorem | Property |
|---|---|
| `SlotsAreAccounted` | `SlotAccounting` |
| `JobsAreServedInOrder` | `FirstComeFirstServed` |
| `NoJobIsAbandoned` | `NoAbandonedJob` |
| `DoneMeansDelivered` | `NoPhantomSuccess` |
| `EveryDirectoryHasAnOwner` | `PlaintextOwned` |
| `StoreStaysBounded` | `StoreBounded` |
| `TypeCorrect` | `TypeOK` |
| `LifecycleRefined` | the safety part of `JobsKeepTheirPromise` |

The argument has four inductive invariants, one on top of the other.

- `SemInv`: `SlotAccounting` is not inductive by itself. A release grants the
  *head* of the queue, so it needs that the queue is sorted and without
  duplicates, holds exactly the waiting tasks, and that ids from `nextJob` on
  have no task; `FirstComeFirstServed` is part of it for the same reason.
- `StoreInv`: the status of an active job is the one its task's await shows
  (`Shows`). That is what makes a later `Update` a step forward of
  `JobLifecycle`, and what ties every active job to a task at work.
- `DirInv`: the directories are those of tasks at an await with a directory, those
  being purged and those a failed removal left; the three are disjoint, and the last
  belong to ended tasks.
- `BoundInv`: `StoreBounded` needs the cap of every user. A submission is the only
  step that adds a job. If eviction leaves more than `MaxHistory` jobs, it dropped
  every settled one (`EvictBound`), because the oldest `e` jobs of a set are at least
  `e` or all of them (`OldestSuffice`); and the active ones are at most the cap of
  each owner (`CountByOwner`, an injection into users times `1 .. MaxActive`).

Each is preserved by a step of a task, a submission, a death of the process, or
one of the remaining steps, which leave it alone; `TaskStepShape`,
`TaskStepStore` and `TaskStepDir` say once what a task's step does to each part.

Two theorems rest on these and add no invariant:

| Theorem | What it says |
|---|---|
| `SlotQueueRefined` | `Spec => Slots!Spec`: the semaphore implements `SlotQueue`, with the tasks past `acquire` as holders |
| `PipelineMovesForward` | `TasksMoveForward`: a task that changes has a higher `Rank`, and the removed directory of an ended task never comes back |

For the first, `SemInv` gives what the code's counter leaves open: `running` is the
number of holders, so the test in `acquire` is `SlotQueue`'s, and the head of the
queue is a waiter. `AcquireRefines` and `ReleaseRefines` treat the two steps that
touch the semaphore, every other step leaves it alone. For the second,
`TaskStepAdvances` says that each step of a task raises its rank, the refusals and
failures included: a task takes at most ten steps, which is, with the fairness of the
runs, why `EveryTaskEnds` holds. TLC checks that conclusion.

Only model-checked of the jobs: everything with liveness, `EveryJobSettles` included, which is beyond the prover.

### VPN

`VpnControl_proofs` proves for every set of relays and bypass hosts and any number
of country switches (`MaxCalls` is arbitrary), from `SupervisorAssumption`
(`api.mullvad.net` is a bypass host, `None` is none of the values it stands beside)
and `VpnAssumption` (the two callers on Node's side):

| Theorem | Property |
|---|---|
| `KillSwitchPrecedesTunnel` | `KillSwitchFirst` |
| `FlagIsTrue` | `FlagFollowsTunnel` |
| `BypassStoresAgree` | `BypassesAgree` |
| `TypeCorrect` | `TypeOK` |

`KillSwitchFirst` needs that a BRINGUP past its policy has rules (`KillInv`), and
that rules, once made, are never "no rules", which needs a well-formed request and
the exempted hosts' type. `FlagFollowsTunnel` needs that a BRINGUP before its
resolver step has a new interface with its routes and the flag still down (`FlagInv`):
a failed `wg-quick down` there cannot contradict the flag, and `wg-quick up` succeeds
only without an interface, which a set flag excludes. `BypassesAgree` follows from
`MemoryInv` and `ToldInv`, which need that pins never go: a late command installs
rules, and a late reply reaches Node, from a time when there were fewer. The pairing of requests and
responses in `TypeOK` needs that a caller outside a call waits for nothing
(`WaitInv`), and that a switch runs only under its flag. Each part is shown once for
the steps of Node, which leave the network alone (`NodeLeavesNetwork`), and once for
the commands. The three liveness properties are only model-checked.

### Accounts

`Accounts_proofs` proves for every set of accounts, names and sessions, every finite
set of requests and any bound on credentials, from `AccountsAssumption` (the limit
is at least one, there is a request, `None` is no id) and `NoneAssumption`:

| Theorem | Property |
|---|---|
| `KeysAreKept` | `KeysSurvive` |
| `SessionsAreCurrent` | `SessionsFollowCredentials` |
| `NamesStayUnique` | `NamesUnique` |
| `DelegationsHaveAccounts` | `ConnectsToAccounts` |
| `OvershootIsBounded` | `GuessesBounded` |
| `TypeCorrect` | `TypeOK` |

`KeysSurvive` is not inductive: the handlers write the key they *remember*, and open
sessions for accounts that may be gone. `KeyInv` adds that a request past its first
await remembers an id once taken and its own key, and that sessions belong to ids
once taken, so that a new account meets no session of its id. A lemma per helper
(`AwaitKeeps`, `DoneKeeps`, `OpenedKeeps`, `WithoutKeeps`, `UpdatedKeeps`) says what
it keeps of `KeyInv`. On top of it, `StepKinds` sorts the steps into quiet ones,
registrations, openings, recoveries and erasures, and each relation between the
stores is shown once per kind. For `SessionsFollowCredentials`, `OpenedStep` shows its
first half by kind. The second is a count: `PassInv` says that a password is of the
latest credentials or, `0`, of the legacy ones, and that only upgrades write the latter
back. A login that starts reads the current `pass`, so while that is the latest it is
never late; a late one that ends is exchanged for one late session at most; and a change
ends all sessions and is itself one of the requests, so fewer than all are late logins
(`LateBound`). The premise that there is a request at all (`Req # {}`) is for that bound.
`ConnectsToAccounts` needs that a new session never
takes the id of one that a request under way knows. `GuessesBounded` is not inductive
either: `GuessInv` gives each login that may still fail a place in the bound, which
it takes when it starts and leaves to the counter when it fails.

### Media routes

`MediaRoutes_proofs` proves for every set of users, every finite set of requests and
all limits, from `MediaAssumption` (limits are natural, slots and caps at least one)
and `NoneAssumption`:

| Theorem | Property |
|---|---|
| `SlotsAreExact` | `SlotsExact` |
| `QueuesAreSound` | `QueueSound` |
| `UserLimitsAreExact` | `UserLimitsExact` |
| `NobodyIsLockedOut` | `NobodyLockedOut` |
| `StagedFilesGo` | `StagedErased` |
| `OneBrowserAtMost` | `OneBrowser` |
| `TypeCorrect` | `TypeOK` |

`MediaInvariant` is the inductive invariant `MediaInv`: `Shape` and a part for each of
the four pieces of state.

- `Shape`: a handler waits only where one of its kind can, and the count that
  `/extract/stream` has read is below the cap. Without it a release could serve the
  wrong semaphore, and a stale count could exceed the cap.
- `SemInv`: `SlotsExact` and `QueueSound` need each other: a release hands its slot to
  the head of the queue, which must be a waiter of this semaphore and only one, and a
  slot is returned only when nobody waits.
- `PlaceInv`: `UserLimitsExact` and `NobodyLockedOut`.
- `DirInv`: `StagedErased`. `PoolInv`: `OneBrowser`.

What a request counts for in each part is a function of its record; so one lemma says
that a part is kept when no record changes what it counts for, and a few say what a
slot or place taken, passed on or returned does (the arithmetic of `Cardinality` is in
them only). Each action is then one lemma of each part.

`SlotQueuesRefined` says that both `BoundedSemaphore`s implement `SlotQueue`, with the
hang-ups of waiters as `GiveUp`. The counter does the work here too: when a step
changes one request and `SemInv` holds before and after it, the change of `running`
tells whether that request came to hold a slot, left one, or neither (`OneRecord`), so
the steps that only go on need nothing but their counter. `TakeStep`, `WaitStep`,
`ReturnStep` and `GiveUpStep` are the four moves of `SlotQueue`; a lemma per group of
actions picks the one it makes, on its semaphore, and none on the other.

### Transfers

`Upload_proofs` proves what the algorithms of the upload compute, for every file: any
number of boxes of any size, any tail, and any size of a bucket that is larger than
its overhead (`UploadAssumption`, which also says that files are layouts and the
server takes at least one chunk):

| Theorem | What it says |
|---|---|
| `ScanTiles` | the segments of a scanned file leave no gap and do not overlap (`Tiles`); the first ends at the first moof, each other one starts at a moof and holds no second one |
| `MergeTiles` | merging keeps that, but for fragments joined within one bucket, and leaves the init segment alone |
| `FixedTiles` | so do chunks of a fixed size, of an empty file too |
| `CiphertextHolds` | the bucket holds its chunk with the overhead, and one bucket is enough up to `ChunkData` |

`Walk` and `Merged` are recursive functions, and what they are for every file needs
induction. The library states its induction and recursion theorems over an operator,
which the provers cannot instantiate; but it also has well-founded orderings, whose
definition quantifies over sets. `Least` (a set of naturals that is not empty has a
least element), `Induction` (over a set of naturals) and `Recursion` (a function that
is chosen to satisfy its defining equation does, because one that does exists) are
proved from it, for functions on `0 .. n`. `WalkRises` and `MoofsRise` then say that
the moofs found increase and lie within the file, and `MergedTiles` that after every
round the chunks tile the segments merged so far.

`Transfer_proofs` proves, for every file, from `UploadAssumption` and
`DownloadAssumption` (at least one request per attempt, a natural number of retries):

| Theorem | Property |
|---|---|
| `KeysLiveLongEnough` | `KeysOutliveBody` |
| `NoPlaintextStays` | `PlaintextGone` |
| `TheFileIsSent` | `SentIsTheFile` |
| `FragmentsArePlayable` | `FragmentsStartAtMoof` |
| `TypeCorrect` | `TypeOK` |

`TransferInvariant` is the inductive invariant `TransferInv`, in four parts.

- `HopInv`: every request but the last has been redirected or has failed, and the last
  is at work only while its download is awaited, unless the download was orphaned.
  So only an orphaned hop can write a file once the job has gone on.
- `FileInv`: while the files of the last listing are unlinked, whatever is readable
  is on that list; with `HopInv` nothing can be added to it.
- `KeyInv`: which awaits precede the keys, which have them, and that a body is under
  way only at the await of the post.
- `SentInv`: the frames sent are the first ones of the plan, and a body that was sent
  to its end has them all. It says nothing of the answer.

`PlanInvariant` is a second one on top of it, `PlanInv`: once there are segments they
tile the file that is sent, whichever of the three ways it was cut, number at most
`MaxChunks` when there are keys, and the body is never past the last one. With
`SentInv`, which says that the frames are the plan's first ones, it gives
`TheFileIsSent` and `FragmentsArePlayable`.

### Startup

`Startup_proofs` proves for every set of devices and signals and any account limit,
from `StartupAssumption` (`NoDevice` is no device, `main` no signal):

| Theorem | Property |
|---|---|
| `RegisteredAreRecorded` | `LeaksExplained` |
| `ForeignDevicesStay` | `ForeignStay` |
| `TypeCorrect` | `TypeOK` |

`DevicesAreKnown` is the invariant `DeviceInv`: the three properties, `OwnOnly` and
`Loaded`. `OwnOnly` says that whatever the server lists, holds or is about to remove
is its own. `Loaded` says what the lists held across an `await` still cover of
the file: a list is saved over the file, so what it lacks must be removed or leaked.

### Only model-checked

Every invariant of every passing run is proved, and so are the action property
`NoPhantomSuccess` and the safety part of `JobsKeepTheirPromise`. All liveness stays
with TLC, because fairness and ENABLED are out of the prover's reach:
`EveryJobSettles` within `JobsKeepTheirPromise`, `EveryTaskEnds`, `RemovalTried`,
the gate and the switch (`GateShutsWithoutTunnel`, `GateReopens`,
`SwitchTerminates`), `TransferEnds`, `LeftoversGo`.

## 6. What is not modelled

- **URL checks, proxying**: whether an address is private is a table and an input of
  the modules that ask. `SsrfProxy` relays sockets; its one race, a connection that
  opens while it stops, ends at an idle timeout.
- **HTTP server, schemas, configuration, web UI, deployment scripts**: wiring and
  validation without state, a front end that only uses the API, and shell.
- **Within the modelled parts**: VPN permissions and settings (rows that are read and
  written in one step), the page scan, the parsing of ffprobe's output, cryptography,
  the relay list's age, a crash of the supervisor.

Each is listed with its reason in `PROJECT.json`.
