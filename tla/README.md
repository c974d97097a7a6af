# A TLA+ model of parakeet-api

parakeet-api is a transcription service: an HTTP API (Go) that keeps uploads and
a queue of jobs in memory, and workers (Python) that lease jobs from it, run
speech recognition on their audio and report the result. This directory holds
TLA+ modules that model the code under `src/`, TLC configurations that check
them on small instances, and proofs, checked by TLAPS, of theorems about them
for every value of their constants.

Contents: [the system](#the-system), [the modules](#the-modules),
[the runs](#the-runs), [the proofs](#the-proofs),
[what the checks found](#what-the-checks-found),
[what is not modelled](#what-is-not-modelled), [the plan](#the-plan).

## The system

### Components, their state and their operations

| Component | Source | State | Operations |
| --- | --- | --- | --- |
| Store | `internal/store/store.go` | under one mutex: uploads, jobs, counters per status, used storage, a sequence number; files in `DATA_DIR/audio` | `New`, `Save`, `DiscardUpload`, `Submit`, `Get`, `Delete`, `Claim`, `Heartbeat`, `Audio`, `Finish`, `Cleanup`, `Counts` |
| Server | `internal/api/server.go`, `lock.go` | the lock of `DATA_DIR`, the listener, the janitor's goroutine | `Run`, `janitor`, shutdown |
| HTTP front | `internal/api/api.go` | upload slots, deadlines and pace of each body | `ServeHTTP`, `bodyReader`, `fail` |
| Client endpoints | `handlers.go`, `openai.go`, `audio.go` | per request: the upload it owns, the job it waits for | `/v2/upload`, `/v2/transcript`, `/v1/audio/transcriptions`, URL download |
| Worker endpoints | `handlers.go` | none of their own | claim, heartbeat, audio, complete |
| Worker | `parakeet_api/worker.py` | per job: cancel event, progress, last renewal; the HTTP call of each of its two tasks | `run`, `execute`, `renew`, `post`, `health`, shutdown |
| Engine | `engine.py`, `chunking.py`, `alignment.py`, `formats.py` | the window, the transcript so far, counters of seams | `transcribe`, `windows`, `words_from_result`, `merge_words` |
| Captions, responses | `internal/formats/formats.go` | none | `Group`, `Captions`, `NewVerbose` |
| Result rules | `internal/formats/result.go` | none | `valid`, `DecodeObject` |

### How they interact

A client uploads audio (`Save`), submits it (`Submit`) and polls the job, or
sends one synchronous request that does all three. A worker polls `Claim`; with
a job comes a token, the lease. Two tasks then run side by side in the worker:
`execute` fetches the audio, runs the engine in a thread and reports with
`Finish`; `renew` sends `Heartbeat` every third of the lease. They share the
`cancel` event and the time of the last progress. The API fences a worker out by
its token: `leased` refuses a call whose job is not processing, has another
token, or whose lease is over. Meanwhile the janitor runs `Cleanup` every 30
seconds. A restart of the API loses every job and wipes the audio. The deployment
restarts a worker whose `/health` says that it makes no progress, and starts a new
API beside one that is still stopping; a lock on `DATA_DIR` keeps the two apart.

### What is hard

* **Interleaving.** `Save` holds the mutex twice and writes its file in between;
  `Cleanup` sweeps the directory after it has let the mutex go; `Audio` opens a
  file after it. Any number of handlers run at once.
* **Stale readings.** `Submit`, `Claim`, `Heartbeat`, `Finish` and `Cleanup` read
  the clock before they wait for the mutex.
* **Partial failure.** A failed `os.Remove` is ignored nearly everywhere.
* **An unreliable network.** Requests and answers between workers and API are
  lost, late, or sent twice; a call that the client has given up may still be
  handled.
* **Timeouts.** The lease, the client's timeout, the renewal period, the stall
  watchdog and the limits of age and retention run against each other.
* **Ends.** `Shutdown` waits 30 seconds for handlers and then leaves them running;
  the deferred calls of `Run` end the janitor and give the lock back, in that order.
* **Bounds.** The quota, the queue limit, the attempt limit, the edges of the
  audio windows.

`PROJECT.json` lists these as hazards, each at its line, with the properties
that cover it. What makes each component correct:

* Store: the accounting (quota, counters, links) is exact after every critical
  section; audio that is needed is on disk; a lease is exclusive and fenced;
  attempts are bounded; outcomes are final; what is abandoned drains.
* Worker: it keeps its lease as long as its renewals are answered, stops soon
  after it lost it, counts a job as completed only if its result is stored,
  and is not restarted while it works; with a worker that lives, every job ends.
* Engine: all of the audio is heard, merging touches only the overlap, and the
  result always passes both validators.
* Captions: all words, once and in order, inside the limits, shown while spoken.
* Client endpoints: a synchronous request leaves nothing behind, on
  every way out, and is ended by nobody but its client.
* Server: one process at a time uses `DATA_DIR`, and one that is told to stop ends.

## The modules

| Module | Models | Notes |
| --- | --- | --- |
| `Store` | `store.go` | one action per critical section, or per effect on the file system outside of it |
| `JobLifecycle` | what the queue promises | abstract: no clocks, leases, uploads or storage; `Store` implements it |
| `Server` | `janitor`, restarts | `Store` with a janitor and fairness; where liveness is stated |
| `Processes` | `Run`, `lockDataDir`, the wipe, `main` | several processes on one data directory |
| `Workers` | `worker.py`, the worker endpoints, the network | composes with `Store`: every request runs one of its actions |
| `Requests` | the synchronous request, the upload and the URL, upload slots | composes with `Store`: each request is a process beside workers and janitor |
| `Seams` | `merge_words`, `recovered` | operators only |
| `Transcribe` | `Engine.transcribe`, `windows`, `words_from_result`, `Result` | the loop over the windows, on `Seams` |
| `Captions` | `Group`, `Captions`, `valid` | what the API makes of a result, on `Transcribe` |
| `MCStore`, `MCServer`, `MCProcesses`, `MCWorkers`, `MCRequests`, `MCTranscribe` | | instances for TLC |
| `StoreProofs`, `StoreAccountingProofs`, `ServerProofs`, `ProcessesProofs`, `WorkersProofs`, `WorkersTimeProofs`, `RequestsProofs`, `TranscribeProofs` | | theorems and proofs |

Operators whose name begins with `Mut` are deliberate bugs. No specification
uses them: each shows that a property would notice if the code had that bug.

### Store

The variables are the fields of `Store`: `job` and `upload` are its maps, with a
record for every identifier, so that one that does not exist yet (`unborn`) and
one that was removed (`gone`) can be told apart. `file` gives each upload's file
its modification time, or `Absent`. A `Save` that is still running is a state of
its upload: `reserved`, `writing`, `written`, `dropped`, then `stored` or `gone`.
`sweep` holds the local variables of the one `Cleanup` that may be running.

A token is the number of the attempt it was issued to; 0 is the empty token. A
worker may call with any token ever issued for a job. A method that answers with
an error and changes nothing is no step. `now`, where the code reads it before
`Lock`, is a parameter `t` of the action, at most `Skew` behind `clock`.

`Claim` visits a map in an arbitrary order and requeues lapsed jobs on its way;
since nothing else looks in between, the action computes the sets of lapsed,
exhausted and waiting jobs at once and leases the oldest of the waiting ones.
`CleanupLocked` is the critical section of `Cleanup`, and `CleanupList`,
`CleanupEntry`, `CleanupRemove`, `CleanupReturn` the sweep: the decision about a
file and its removal are two steps, because a `Save` may create or commit
between them. Removals fail at will if `RemovalMayFail` is set.

`SaveWrite` refreshes the modification time of the file; `Tick` does not pass
`started + MaxSave` while a Save runs: `pace.add` ends a transfer after an hour,
and `StaleAge` is 3700 s (`MaxSave <= StaleAge` is an assumption of the module,
and the proofs need it).

### Processes

Each process goes through `Run`: `starting` (it takes the lock, or is refused),
`locked` (`New` wipes the audio, or fails half-way), `wiped` (it listens, or
fails), `serving`, `draining` (`Shutdown`), and then the deferred calls from last
to first: `leaving` (`stopJanitor`), `waiting` (`janitor.Wait`), `unlocking`,
`returned`. `Die` may end a process anywhere, and the kernel then drops its lock.
A signal is only noted; `Run` looks at it once it serves.

An upload is reduced to what its process knows of it (`stage`) and to its file
(`disk`), whose age is `new` or beyond `staleAge`. `Drained` waits for the handlers
that are under way; `DrainTimesOut` does not, and `Close` leaves them running: they
create, commit and remove files until their process has exited, possibly after
another has taken the lock. The sweep of the janitor is a decision about all files
(`JanitorLooks`) and a removal of each, later. `select` may prefer the ticker to
the end of its context (`JanitorTicks`), though not for ever.

### Workers

`worker[w]` is the local state of `execute` and `renew`: where each is, the job,
its token, the `cancel` event, the last progress and the last renewal. `line[w]`
holds the HTTP call each task waits for: its kind, when it was sent and the
answer, `pending` until the API has handled it. Calling, handling and receiving
are separate steps. A call can fail at any time, or run into its timeout; if the
API has not handled it yet, it moves to `late`, from where it may be handled at
any later time or never. So requests may be lost, answers may be lost, and
requests may arrive late, after others.

Failures are bounded by `MaxFaults` and stop after `LastFault`; timeouts are
failures too. `TimePasses` lets time pass only when no timer of a worker is due,
which is what an event loop that is not overloaded does. `Timeout` stands for the
longest that one call may take: httpx counts its 30 s for connecting, writing,
reading and the wait for a connection each by itself, so a call that is slow in
several of them takes longer than 30 s (see [worker times](#worker-times)). A
download may pause that long between two chunks, and an inference that does not
hang reports progress every `Pace`. After its `n`-th report has failed, `post`
sleeps for `Pause[n]`, until `wake` (`PauseAssumption`: each pause is twice the one
before). A chunk beyond the announced length ends the job for good (`Receive`).

`Healthy` is the answer of `/health`, and `Probe` the restart that follows a bad
one. The deployment waits for three bad answers in a row, 15 s apart; `Probe` may
follow the first, so a property that holds here holds with that tolerance too.
`Stop` is a shutdown while the inference runs: `execute` waits for the inference,
which ends at its next check. `Die` is any other end of the process.

The handlers check the lease through the Store's own actions. `HandleComplete`
answers a result that the validation refuses (`invalid`) before it looks at the
lease, as `complete` does. `ServeAudio` checks the lease and opens the file in
two steps. `misses` is an auxiliary field, the failures since the last renewal
that succeeded; no action reads it.

### Requests

`request[r]` is the local state of one handler, `slots` the length of the channel
`API.slots`. What a request does depends on its kind: `sync` is `transcriptions`,
`upload` is `upload`, and `url` is `submit` with a URL that `resolveAudio`
downloads (it arrives here when the trusted host's answer does). Its `pc` follows
the code:

| `pc` | The handler is in |
| --- | --- |
| `reading` | `readForm` between two parts, or before `Save` |
| `saving` | `Save`, whose own steps are those of `Store` (`FileBegins` to `FileFails`) |
| `parsed` | `parseOptions`, then `Submit` (`JobSubmitted`, `SubmissionRefused`) |
| `failing` | a way out with an error; `Failed` discards what was saved |
| `polling`, `sleeping` | `wait`: `Get`, then the `select` (`TickerFires`, `GiveUp`) |
| `deleting` | the deferred `Delete` of `transcriptions` (`Returned`) |

`Arrive` takes a slot as `ServeHTTP` does, and `Release` is the `OnceFunc` that gives it
back: at the end of the body (`BodyEnds`), or when the handler returns. The
parser of a form reads ahead, so a body may end before the file in it is saved. A
body fails at any time, and does so when it has taken `MaxSave` (`pace.add`).
`timed` is the read deadline that the last read has set on the connection: the end
of the body clears it. Where it is left, the server's own read of the connection
fails, which ends the request as a disconnect does (`Leave`).
`Leave` is a client that goes away during the wait; the `select` then takes any case
that is ready. The bodies of JSON requests are read at once.

Steps of a handler that wait for nothing take no time (`Urgent`); bodies,
downloads and waits do. `Others` is everybody else: clients that were told an
upload's URL or a job's id, workers, the janitor. A request that was answered
keeps only what it had, for the properties. Restarts are left to `Server`.

### Seams, Transcribe and Captions

Words have a text and an interval in milliseconds. `Matches` is the search for the
longest common run inside the overlap, with its tie rule; `Join` tries the words
of the run from the centre, prefers the new window's reading if it is clearly
longer (`recovered`), else cuts, and without a usable match splits in the middle
of the overlap. `Transcribe` runs the loop: `Recognize` opens the next window and
takes any words, with any times, that the recognizer may report; their times are
clamped into the window, as `words_from_result` does, and rounded as Python does.
What is assumed of the recognizer is that neither starts nor ends of its words go
back inside one window. Windows go forward by an even number of milliseconds
(`StrideAssumption`; in the code they last and overlap whole seconds): half a
millisecond is rounded to the even one, and with an odd step a window and the whole
audio would round the same end differently. A list comprehension is `Chosen`, the
words at a `Sorted` set of positions. The limits of `Result` on the text and on each
word are part of `Valid` (`HasRoom`); the recognizer may well exceed them.

`Captions` takes the transcript that `Transcribe` returns. `complete` first looks at
the length of the request: `BodyBytes` counts a text once in its word and once in
the whole text, in bytes where `HasRoom` counts characters (`JoinedLength` is both),
and `Admitted` is the limit of the body. `ResultValid` is the validation of the API,
which repeats that of the worker (`Valid`) in another language and with rules of its
own. A transcript is `Modest` if it has so few words and characters that no writing
of them passes the limit of the body. `Group` is the loop over the words with its
running count of characters; the properties state what its comment says of a
caption, by the words alone. The verbose response uses the same groups.

## The runs

| Run | Shows | Bounds |
| --- | --- | --- |
| `store_queue` | types; attempts, fencing, links, files that are paid for; final outcomes, respected leases, claim order; `Store` implements `JobLifecycle` | 2 uploads, 2 jobs, 2 attempts, clock to 4, clock readings 1 old |
| `store_storage` | the quota is exact and never passed; needed audio is on disk | sizes 0, 1, 3 and one too many (4) with a limit of 3 and a quota of 5: one Save beside a stored upload just fits or does not; removals may fail |
| `server_liveness` | jobs settle, are forgotten, storage drains | 1 upload, 1 job, clock to 7, removals may fail |
| `processes` | the audio of the process with the lock stays; a stop ends; orphans go | 2 processes, 3 starts, 2 files |
| `workers_shared` | a worker counts as completed only what is stored; attempts are wasted by failures only | 2 workers, 1 job of 2 attempts, 1 failure |
| `workers_timing` | a worker whose renewals are answered keeps its lease; one that is cut off stops in time; one that works, or sends a report again after a pause, is never restarted by its probe | 1 worker, lease 6, period 3, timeout 2, pace 5, 2 reports with a pause of 1 between them, stall 11, clock to 11, 2 failures |
| `workers_liveness` | every job ends, the age limit aside | 1 worker, 2 attempts, 2 failures up to time 2 (hanging, dying, lost calls), clock to 10, beyond the last lease |
| `requests_safety` | slots and counters are exact; a synchronous request leaves nothing behind; quota is held for somebody; a slow form still finds its upload; a finished job is never answered as gone; only clients that left are taken for such | 2 requests of any kind with one slot, 2 uploads, 2 jobs with room for 1 pending; a Save beside one that runs is refused (2 of a quota of 3 are reserved), beside a stored upload (1) it fits; clock to 3, every deadline 1 but the wait, 2 |
| `requests_return` | a request returns, whatever its client and the workers do | 1 request, 2 attempts, clock readings 1 old, retention 2, wait 3, clock to 5 |
| `transcribe` | windows cover the audio; only the overlap is touched; recovery gains words; no result is refused by the worker, nor by the API but for its length; captions are the words, within their limits and their time | two windows of 8 ms that share 4, up to 2 words each, all texts and times; audio of 0, half a ms, 10.5 ms, and too long; captions of 3 characters, a text of 1 and one of 4, a span of 5 ms and a pause of 2; room for 3 words and 12 characters; up to 2 bytes per character and a body of 41: some results that are returned are too long for it, and the longest modest one just fits |
| `renewal_comment`, `conflict_readme` | counterexamples to two statements, see below | as `workers_*` |

Why these bounds are enough. In `Store` jobs interact in pairs (oldest first, the
queue limit, the counters) and a lease with at most two attempts, so two jobs
with two attempts have every pattern: a late call of the first attempt while the
second runs, an expiry by the limit, a requeue that overtakes. Clocks are bounded,
and every deadline is one or two units long, so each deadline passes, and passes
before or after any other. `Skew` = 1 lets one call decide with a reading on
either side of a deadline. Unsigned wrap-around of the sequence number and of
sizes is out of reach of the code's limits and is not modelled.

`workers_timing` keeps the proportions under which its properties are proved,
`RenewalsInTime`, `ShortCalls` and `Patience` (see [the proofs](#worker-times)), and
its limit for stalls is the shortest that `Patience` allows: a window of 5, a call that
times out (2), a pause (1) and a second call that does (2) last 10, and a stall
11, so a pause that is longer by one unit shows. With two failures only one series
of reports fails to the end; a window lasts as long as such a series (`Pace` is
`Series(2)`), so it stands for a result that is reported in vain before its failure is.
A report of two calls has one pause; that each pause is twice the one before matters
from three calls on, and is left to `ProbeSparesWorkers`.

`workers_shared` keeps the first two proportions. With its one failure no series of
reports fails to the end, so it gets by with a shorter limit for stalls than
`Patience` asks for. `renewal_comment` does not need any of them.

`late` holds the requests that were given up and are still on their way. It is a
set, and `CopyNumber` keeps two equal requests apart, so that each of them may
arrive.

In `workers_liveness` failures end at time 2, so that each lease they waste lapses
within the clock. A request that is on its way at the end of the clock could lease
the job with no time left for that lease to lapse; `ServeLate` therefore ends
`Timeout` after the last failure. In `processes` a third start brings back a process
that has served before, with its files; more starts repeat that.

`requests_safety` has no older readings of the clock and one attempt, so that two
requests fit; `requests_return` has both, with one request. That the counters stay exact
over requeues and restarts as well is left to `CountsAreExact`. Two requests contend
for the slot, for the quota and for the queue, and one may use (submit, delete)
what the other was told.

Deadlock is checked for `Store` and `Server`. In `Workers`, `Processes`, `Requests` and
`Transcribe` the model stops where its clock, its starts, its requests or its audio
end, and it is not.

### Fairness

`Server` states what its liveness needs and nothing else. The janitor's goroutine
loops for the life of the process, so its steps are weakly fair; its timer
fires; a `Save` that runs comes to its end, since its transfer has a deadline and
the rest is local. A removal, and the reading of the directory, may fail, but
not for ever each time they are tried (strong fairness). No fairness is assumed
of clients, of workers or of `Claim`: a worker may extend its lease for ever and
may never report. The clock stops at `MaxClock`, beyond everything that can
still fall due, while the timer goes on.

`Requests` assumes that time passes and that each handler goes on (weak fairness
of `Progress`), which the scheduler gives every goroutine. `Progress` does not contain
the end of a body, nor its failure before its deadline: a client may stop
sending. Nothing is assumed of workers, so a job may stay queued for ever.

`Workers` (`WorkersFairSpec`) assumes of a worker that its tasks go on with what they
await (`Works`, weakly fair, and not while the inference hangs), of the API that it
answers calls that arrive, and of the deployment that it restarts a worker whose
probe fails. Time passes again and again (strong fairness): an idle worker polls in
between, and sleeps between two polls. No client, no restart of the API and no
janitor is assumed, so the age limit does not help.

`Processes` assumes that the code of a process runs on and files age (weak fairness),
and that `select`, which chooses at random among the cases that are ready, takes
the end of the janitor's context at last (strong fairness of `JanitorEnds`). Nothing
is assumed of handlers: `DrainTimesOut` makes up for them.

## The proofs

TLAPS proves, for every value of the constants that meets the named assumptions
(`IdentifiersAssumption`, `LimitsAssumption`, `TimesAssumption`,
`RemovalAssumption`, `SeamsAssumption`, `WindowAssumption`, `TextAssumption`,
`StrideAssumption`, `BodyAssumption`, `CaptionsAssumption`, `RequestsAssumption`,
`PollAssumption`, `WorkersAssumption`, `PauseAssumption`, `ProcessesAssumption`):

| Theorem | States | Argument |
| --- | --- | --- |
| `TypeCorrect` | `TypeOK` | that attempts stay within their limit needs `AttemptsBounded`: a queued job has one left. `TypesInvariant` proves both together, with `FencedCommit` |
| `AttemptsAreBounded`, `CommitsAreFenced` | `AttemptsBounded`, `FencedCommit` | the same induction |
| `LinksAlwaysAgree` | `LinksAgree` | `LinksInvariant`, on top of the types |
| `OutcomesAreFinal`, `LeasesAreRespected` | `OutcomeFinal`, `LeaseRespected` | `StepMoves`: whatever a step does, it enters, takes, renews, returns, completes, fails or removes each job, or leaves it; each of these keeps the property |
| `OldestComesFirst` | `OldestFirst` | `Ordered`: sequence numbers are given once, below the counter, and a job keeps its own; so a job that is put back has the place it had |
| `StoreImplementsLifecycle` | `ImplementsLifecycle` | every kind of step maps to a step of `JobLifecycle` or to a stutter, under the refinement mapping of `Store`; that a submission respects the abstract limit needs `CountsExact` |
| `CountsAreExact` | `CountsExact` | the sets of jobs per status change by the jobs a step moves; cardinalities of disjoint sets |
| `QuotaIsExact` | `QuotaExact` | `HeldBytes` as the cardinality of a set of pairs, and what a step adds to it or takes away; a `Save` turns a reservation into a charge that is not larger |
| `AudioNeverLost` | `AudioAvailable` | the invariant relates the sweep to each upload: a file that is in the sweep's list, was not known and is old enough belongs to no `Save` that could still commit, since a `Save` is over before its file is that old |
| `FilesArePaidFor` | `FilesPaidFor`, if removals do not fail | a file exists only between `SaveBegin` and the removal that its release makes in the same step |
| `ServerRunsStore`, `StoreHoldsForServer` | `ServerSpec => Spec`, hence `QuotaExact`, `CountsExact`, `AudioAvailable` | every step of `Server` is a step of `Store` or leaves its variables alone |
| `AudioIsProtected`, `OneProcessServes` | `NeededOnDisk`; one process at a time is between its lock and its unlock | who is past its lock holds it, and only such a process wipes or sweeps; a sweep under way keeps its process from unlocking; it has decided about no file that is written or stored by the process itself |
| `RequestsRunStore`, `StoreHoldsForRequests` | `RequestsSpec => Spec`, hence the same three as for `Server` | that a request's steps are steps of `Store` needs to know that it has the upload, or the job, that its `pc` implies: `RequestsOK` says so of each request by itself, and is proved inductive together with `Store`'s types |
| `SlotsAreExact`, `RequestsTypeCorrect`, `OnlyDisconnectsLeave` | `SlotsExact`, `RequestsTypeOK`, `LeftOnlyIfLeft` | part of `RequestsOK`; each step adds at most one request to the set of holders, or removes one |
| `QuotaIsOwned`, `NothingIsLeft` | `UploadsAreOwned`, `SyncLeavesNothing` | `Owned`: no two requests have the same upload; `Fate` says what each `pc` implies of a request's upload and job (being saved, stored without a job, tied to its job, gone); and a step of anyone else leaves an upload as it is, or releases it once it is abandoned or its job is gone (`Kept`) |
| `WorkersUseStore`, `QueueHoldsWithWorkers` | `WorkersSpec => Spec`, hence the same three | `Local`: what a worker and its calls are about (a job that was leased, a token that was issued, the call that each `pc` waits for) makes each request an action of `Store` with inputs it allows |
| `AckedWasCommitted` | `AckedIsCommitted` | `Truthful`: an answer `ok` to a report with a result is on its way only if the result of that attempt is stored; it stays so by `OutcomesAreFinal`'s step lemma |
| `WorkersTypeCorrect` | `WorkersTypeOK` | part of `Local` |
| `FormsFindTheirUploads`, `WaitsSeeTheOutcome` | `UploadAwaitsSubmission`, `NeverAnsweredGone` | `AllPunctual`: an upload whose form is still read is no older than a transfer may last, which is below `StaleAge`; and a request that waits looks at its job within `PollEvery` of its end, before the retention is over. Both use that nobody but the request submits its upload or deletes its job (`Elsewhere`) |
| `RenewalsAreFresh` | `RenewalFresh`, if `ShortCalls` | `Timely`, see below |
| `LeasesAreKept` | `LeaseKept`, if `RenewalsInTime` | `Timely`: what the API holds for a lease covers the grant of the last renewal that was answered |
| `ProbeSparesWorkers` | `HealthyUnlessStuck`, if `Patience` | `Timely`: how long ago the last progress can be, for each place in `execute`, every call of `post` and every pause in it included |
| `ExpiryIsEarned` | `ExpiryNeedsFaults`, if `RenewalsInTime` and `Patience` | the accounts `TicketsOK` and `Charged`, see below |
| `WindowsAlwaysCover` | `WindowsCover` | the current window is the `n`-th, `n` the windows joined so far |
| `SeamsTouchOverlapOnly`, `RecoveriesGain` | `OverlapOnly`, `RecoveryGains` | whatever `Merge` returns is `Seamed`: a beginning of the old words with all that ended before the overlap, and an end of the new words with all that begin after it |
| `JoinedWordsAreValid`, `ApiRefusesForSizeOnly` | `NeverInvalid`, `RefusedForSizeOnly` | `Transcript`: at every moment the words so far are in order, each longer than nothing and inside the audio; see below. A text of `n` characters has at most `CharBytes * n` bytes, spaces included (`BytesOfText`) |
| `CaptionsAreFaithful`, `CaptionsAreTimed` | `CaptionsFaithful`, `CaptionsTimed` | `Grouped`, the invariant of the loop of `Group`: the captions are the words so far cut at some ends, the count is the characters of the last one, and a word that did not join a caption did not fit |

`AudioNeverLost` needs `MaxSave <= StaleAge`, the relation between the limit of a
transfer and the age of an orphan that the comments at `store.go:33` and
`api.go:28` ask for.

`FormsFindTheirUploads` needs it as well. `WaitsSeeTheOutcome` needs `PollAssumption`:
the shortest retention, 1 s, is longer than the interval of 200 ms and the age of
a clock reading together.

### Worker times

Whether a lease is kept or a worker spared depends on settings and constants that no
code relates to each other. The theorems therefore have the proportion they need as
a hypothesis, defined in `WorkersTimeProofs`:

| Proportion | Says | With the defaults |
| --- | --- | --- |
| `ShortCalls` | `Timeout <= Lease` | 30 s, 90 s |
| `RenewalsInTime` | `Period + 2 * (Timeout - 1) + Skew < Lease` | 30 s + 58 s and the age of a clock reading, 90 s |
| `Patience` | the longest time without progress, `Slack`, and then a series of reports, its calls and pauses, take less than `Stall` | 127 s (4 calls of 30 s, pauses of 1, 2 and 4 s) + 127 s, 300 s; so a window of audio must take less than 173 s |

The settings accept leases from 15 s on (`settings.go:74`), and a worker renews
after a third of its lease while the client's timeout stays 30 s. With a lease of
less than about 87 s `RenewalsInTime` fails: a renewal that is answered, slowly,
may then come too late, and nothing is claimed. Below 30 s `ShortCalls` fails too.

`Timeout` is the longest call, and httpx has no limit for a whole call: its 30 s run
for each of connecting, writing, reading and waiting for a connection, and for every
piece that is read or written. 30 s is right for a call that is slow in one of them.
With the defaults `RenewalsInTime` holds for calls of up to 30 s, `Patience` for calls
of up to 35 s, `ShortCalls` for calls of up to 90 s; for slower ones nothing is claimed.

By `PauseAssumption` the pauses before the `n`-th call add up to `Pause[n] - Pause[1]`
(`SeriesFacts`), so a series of `n` reports takes `Series(n)`, whatever the number of
attempts and the length of the first pause.

`Timely` is the invariant: for each place of `execute` and `renew` it bounds how long
ago the worker got there, sent its call, made progress or renewed; and, while an
attempt lasts, how far its lease reaches beyond the last answer (`Floor`). An answer
grants the lease from when the request was sent at the earliest, since the API
handles it later, less the age of its clock reading.

`ExpiryIsEarned` takes an account of who spent each attempt. By `TicketsOK` every
attempt has at most one owner: the worker that was told of it, or that the answer to
its claim is for. By `Charged`, every attempt of a job has cost a failure, except
one whose owner attends to it (`Attends`: nothing has failed, no renewal was missed,
no call is overdue); and every claim that was given up and may still take a job
for nobody has cost one more (`Reserve`). An owner that attends keeps its lease,
by `LeasesAreKept`, so a lapsed lease has been paid for.

### Words and captions

The proofs about merging treat a list as positions: `SortedBeginning` and
`SortedEnd` say that words chosen by a time are a beginning or an end of an ordered
list. `MatchesAt` gives what the search for the longest run promises of each pair,
for `Join` to cut there. That the result is inside the audio is a matter of rounding:
by `RoundingShifts` an even offset can be taken out of a rounded time, so the end of
a window is rounded as the end of the audio is (`WindowTimes`).

Induction over data is not available as a theorem with an operator as its parameter.
Here it is an induction over a set of natural numbers (`Induction`), from the least
member of a set (`Least`), and the functions that `Group`, `TextChars` and
`FlattenSeq` define recursively exist by `Recursion`. No property of the model's
words is assumed beyond `TextAssumption`: a word has at least one character.

### Model-checked only

All liveness (`JobsSettle`, `JobsForgotten`, `StorageDrains`, `JobsFinish`,
`RequestsReturn`, `StoppingEnds`, `OrphansGo`) needs fairness and `ENABLED`, beyond
the prover. Every invariant and every action property that a passing run checks is
a theorem, four of them under the proportions above.

## What the checks found

* `worker.py:95` says "One failed renewal leaves most of the lease." A renewal may
  fail by the client's timeout, 30 s, and comes a third of the lease after the
  last; the next is due another third later. With the defaults that is the whole
  lease (`renewal_comment`).
* `README.md:106` says that `409` means the job was deleted, expired or reassigned.
  A report that is repeated because its answer was lost gets 409 as well, for
  the result the worker has just stored (`conflict_readme`). Nothing is lost: the
  worker only logs a lost lease and does not count the job.

Not refuted, but worth knowing: a `Heartbeat` that waited for the mutex uses its
older reading of the clock, so that it may set a deadline before the one an
earlier call has set; and audio of less than half a millisecond is refused as a
`ValidationError`, which the worker reports as a failure to retry.

Nor do the limits of the validators and of the body match. Both validators allow
100000 words and 2 million characters, and the text is sent twice; the body of
`complete` may have 16 MiB (`api.go:26`). At about 115 bytes for each word beside its
text, the longest transcript of characters of one byte just fits, that of characters
of two bytes does not. It is then refused with 413, which the worker takes for
final, so the job fails. Three hours of ordinary speech take 3 to 5 MB.
`RefusedForSizeOnly` therefore claims acceptance for what is short enough only.

## What is not modelled

* Of the HTTP front: routing, formats of answers, deadlines of writes. Of
  authentication and of the limit of the declared length, only that they refuse a
  request before it takes a slot. The pace of a body is its deadline only.
* Who may download from where: the check of trusted hosts and of redirects.
* The worker's scratch directory: that it outlives the native thread is a matter of
  one `shield` in one task.
* Captions: escaping, the text of time stamps, the seconds of the verbose response.
* Strict JSON decoding, and the parsing of settings: functions of one input, without
  state. `Store`'s assumptions state the relations between settings that it needs.
* Language options: they only decide whether a repeated submission is answered
  with the job or with 409, and change no state.
* Confidence scores, the text of subwords, ffmpeg, the recognizer, model files,
  scripts, deployment manifests and the Cap integration: data, external programs or
  configuration. The health checks of the containers only read.

## The plan

Done: `Store` with `JobLifecycle`, `Server`, `Processes`, `Workers`, `Requests`,
`Seams`, `Transcribe`, `Captions`, their runs, and the proofs above.

Left, in this order:

1. `Processes` and `Store` in one composition: so far `Server` restarts one `Store`,
   and `Processes` has several processes with uploads that are reduced to their files.
2. An abstract specification of a synchronous request, and `Requests` shown to
   implement it: one answer, and nothing left behind it.
3. The properties of the queue for workers and requests together; so far each
   composition with `Store` has been proved by itself.
