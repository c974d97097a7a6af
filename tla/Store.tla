------------------------------- MODULE Store -------------------------------
(***************************************************************************)
(* The in-memory queue of internal/store/store.go: uploads, jobs, leases,  *)
(* the storage quota, the audio files and the sweep that removes orphans.  *)
(*                                                                         *)
(* One action is one critical section of Store.mu, or one effect a method  *)
(* has on the file system while it does not hold the mutex.  The callers   *)
(* (HTTP handlers, workers, the janitor) are the environment: any of them  *)
(* may call any method at any time, with any token that was ever issued.   *)
(* A call that the code answers with an error and no change is no step.    *)
(*                                                                         *)
(* Several methods read the clock BEFORE they lock the mutex.  Their "now" *)
(* is then a parameter t drawn from the recent past, at most Skew behind.  *)
(***************************************************************************)
EXTENDS Integers, FiniteSets

CONSTANTS
    Upload, Job,         \* identifiers (UUIDs), each used at most once
    NoUpload, NoJob,     \* the nil pointers
    MaxUploadBytes, MaxStorageBytes, MinUploadCharge,
    MaxPendingJobs, MaxAttempts,
    Retention, MaxJobAge, Lease, StaleAge,
    MaxSave,             \* a Save ends this long after it began (api.maxTransfer)
    Skew,                \* longest delay between reading the clock and locking
    Size,                \* numbers of bytes io.Copy may report
    MaxClock,            \* bound of the model: time stops here
    LastArrival,         \* bound of the model: no Save or Submit after this
    RemovalMayFail       \* may os.Remove fail?

ASSUME IdentifiersAssumption ==
    /\ IsFiniteSet(Upload) /\ NoUpload \notin Upload
    /\ IsFiniteSet(Job) /\ NoJob \notin Job

\* settings.go refuses a storage limit below the upload limit.
ASSUME LimitsAssumption ==
    /\ MaxUploadBytes \in Nat \ {0} /\ MaxStorageBytes \in Nat
    /\ MaxUploadBytes <= MaxStorageBytes
    /\ MinUploadCharge \in Nat \ {0}
    /\ MaxPendingJobs \in Nat \ {0} /\ MaxAttempts \in Nat \ {0}
    /\ Size \subseteq 0 .. MaxUploadBytes + 1

\* The deadline of a transfer (1 h) is below the age of a stale file (3700 s).
ASSUME TimesAssumption ==
    /\ Retention \in Nat /\ MaxJobAge \in Nat /\ Lease \in Nat \ {0}
    /\ StaleAge \in Nat /\ MaxSave \in Nat /\ MaxSave <= StaleAge
    /\ Skew \in Nat /\ MaxClock \in Nat /\ LastArrival \in Nat

ASSUME RemovalAssumption == RemovalMayFail \in BOOLEAN

VARIABLES
    job,      \* Store.jobs, with the jobs not yet created and the removed ones
    upload,   \* Store.uploads, with the Save calls that are still running
    counts,   \* Store.counts
    used,     \* Store.used
    seq,      \* Store.seq
    file,     \* DataDir/audio: the modification time of a file, or Absent
    sweep,    \* the local state of the running Cleanup call
    clock

vars == <<job, upload, counts, used, seq, file, sweep, clock>>

-----------------------------------------------------------------------------
(* Records *)

Pending == {"queued", "processing"}
Finished == {"completed", "error"}
Live == Pending \cup Finished

Absent == -1

\* A job record before Submit creates it ("unborn") and after its removal
\* ("gone").  The token of an attempt is the attempt's number; 0 is "".
NoRecord(status) ==
    [status |-> status, upload |-> NoUpload, seq |-> 0, token |-> 0,
     lease |-> 0, attempts |-> 0, created |-> 0, updated |-> 0,
     result |-> 0, cause |-> "none"]

\* The states of an upload: a Save that has reserved its quota, is writing the
\* file, has written it or has dropped it; then an entry of Store.uploads.
Saving == {"reserved", "writing", "written", "dropped"}

NoEntry(state) ==
    [state |-> state, size |-> 0, bytes |-> 0, started |-> 0,
     created |-> 0, job |-> NoJob]

-----------------------------------------------------------------------------
(* Time *)

\* The instants a method may have read as "now" before it got the mutex.
RecentPast == {t \in 0 .. clock : clock - t <= Skew}

\* Mutant: leased without the comparison of tokens.
MutLeasedUnfenced(j, k, t) == job[j].status = "processing" /\ job[j].lease > t

\* leased: the caller that presents token k holds the lease of j.
Leased(j, k, t) ==
    /\ job[j].status = "processing"
    /\ job[j].token = k
    /\ job[j].lease > t

\* Every token ever issued for j that a worker may still hold.
Issued(j) == 1 .. job[j].attempts

-----------------------------------------------------------------------------
(* Job records: setStatus and fail *)

SetStatus(r, s) == [r EXCEPT !.status = s, !.token = 0, !.lease = 0]

Fail(r, cause, t) ==
    [SetStatus(r, "error") EXCEPT !.cause = cause, !.updated = t]

\* The counters' side of setStatus for n jobs that move between two statuses.
Shift(c, from, to, n) == [c EXCEPT ![from] = @ - n, ![to] = @ + n]

-----------------------------------------------------------------------------
(* Storage: charges, the quota, the files *)

Least(a, b) == IF a <= b THEN a ELSE b
Greatest(a, b) == IF a >= b THEN a ELSE b

\* What a stored upload of n bytes is charged.
Charge(n) == Greatest(n, Least(MinUploadCharge, MaxUploadBytes))

\* The bytes charged to the uploads of S, counted one by one.
ChargedBytes(S) ==
    Cardinality({p \in S \X (1 .. MaxUploadBytes) : p[2] <= upload[p[1]].bytes})

\* os.Remove for the files of S; each removal may fail on its own.
Unlink(S) ==
    \E kept \in IF RemovalMayFail THEN SUBSET S ELSE {{}} :
        file' = [u \in Upload |-> IF u \in S \ kept THEN Absent ELSE file[u]]

NoSweep == [pc |-> "idle", now |-> 0, known |-> {}, todo |-> {},
            doomed |-> NoUpload]

Init ==
    /\ job = [j \in Job |-> NoRecord("unborn")]
    /\ upload = [u \in Upload |-> NoEntry("unborn")]
    /\ counts = [s \in Live |-> 0]
    /\ used = 0
    /\ seq = 0
    /\ file = [u \in Upload |-> Absent]
    /\ sweep = NoSweep
    /\ clock = 0

-----------------------------------------------------------------------------
(* Save, from the reservation to the commit *)

\* First critical section: reserve the largest size there can be.
SaveBegin(u) ==
    /\ clock <= LastArrival
    /\ upload[u].state = "unborn"
    /\ used + MaxUploadBytes <= MaxStorageBytes
    /\ used' = used + MaxUploadBytes
    /\ upload' = [upload EXCEPT ![u] =
                     [NoEntry("reserved") EXCEPT !.started = clock]]
    /\ UNCHANGED <<job, counts, seq, file, sweep, clock>>

\* write: the file is created, and later grows, outside the mutex.
SaveWrite(u) ==
    /\ upload[u].state \in {"reserved", "writing"}
    /\ upload' = [upload EXCEPT ![u].state = "writing"]
    /\ file' = [file EXCEPT ![u] = clock]
    /\ UNCHANGED <<job, counts, used, seq, sweep, clock>>

\* io.Copy returns: n bytes, of which the last may be one too many.
SaveEOF(u, n) ==
    /\ upload[u].state = "writing"
    /\ upload' = [upload EXCEPT ![u].state = "written", ![u].size = n]
    /\ UNCHANGED <<job, counts, used, seq, file, sweep, clock>>

Acceptable(n) == n # 0 /\ n <= MaxUploadBytes

\* Mutant: the file of a failed Save stays.
MutSaveDropKeepsFile(u) ==
    /\ \/ upload[u].state \in {"reserved", "writing"}
       \/ upload[u].state = "written" /\ ~Acceptable(upload[u].size)
    /\ upload' = [upload EXCEPT ![u].state = "dropped"]
    /\ UNCHANGED <<job, counts, used, seq, file, sweep, clock>>

\* The file cannot be opened, src or the file fails, or the size is refused:
\* the file is removed before the mutex is taken again.
SaveDrop(u) ==
    /\ \/ upload[u].state \in {"reserved", "writing"}
       \/ upload[u].state = "written" /\ ~Acceptable(upload[u].size)
    /\ upload' = [upload EXCEPT ![u].state = "dropped"]
    /\ Unlink({u})
    /\ UNCHANGED <<job, counts, used, seq, sweep, clock>>

\* Mutant: the reservation of a failed Save stays.
MutSaveRejectKeepsReservation(u) ==
    /\ upload[u].state = "dropped"
    /\ upload' = [upload EXCEPT ![u] = NoEntry("gone")]
    /\ UNCHANGED <<job, counts, used, seq, file, sweep, clock>>

\* Second critical section after a failure: the reservation ends.
SaveReject(u) ==
    /\ upload[u].state = "dropped"
    /\ used' = used - MaxUploadBytes
    /\ upload' = [upload EXCEPT ![u] = NoEntry("gone")]
    /\ UNCHANGED <<job, counts, seq, file, sweep, clock>>

\* Second critical section after a success: the reservation becomes the charge.
SaveCommit(u) ==
    /\ upload[u].state = "written" /\ Acceptable(upload[u].size)
    /\ LET bytes == Charge(upload[u].size)
       IN  /\ used' = used - MaxUploadBytes + bytes
           /\ upload' = [upload EXCEPT ![u].state = "stored",
                                       ![u].bytes = bytes,
                                       ![u].created = clock]
    /\ UNCHANGED <<job, counts, seq, file, sweep, clock>>

-----------------------------------------------------------------------------
(* The API's calls: DiscardUpload, Submit and Delete *)

\* Mutant: an upload is discarded although a job references it.
MutDiscardUploadSubmitted(u) ==
    /\ upload[u].state = "stored"
    /\ used' = used - upload[u].bytes
    /\ upload' = [upload EXCEPT ![u] = NoEntry("gone")]
    /\ Unlink({u})
    /\ UNCHANGED <<job, counts, seq, sweep, clock>>

DiscardUpload(u) ==
    /\ upload[u].state = "stored" /\ upload[u].job = NoJob
    /\ used' = used - upload[u].bytes
    /\ upload' = [upload EXCEPT ![u] = NoEntry("gone")]
    /\ Unlink({u})
    /\ UNCHANGED <<job, counts, seq, sweep, clock>>

\* Mutant: one pending job too many.
MutQueueFullOffByOne == counts["queued"] + counts["processing"] > MaxPendingJobs

QueueFull == counts["queued"] + counts["processing"] >= MaxPendingJobs

\* Submit where it creates a job; for an upload that has one it only answers.
Submit(u, j, t) ==
    /\ clock <= LastArrival
    /\ upload[u].state = "stored" /\ upload[u].job = NoJob
    /\ ~QueueFull
    /\ job[j].status = "unborn"
    /\ seq' = seq + 1
    /\ job' = [job EXCEPT ![j] =
                  [SetStatus(NoRecord("unborn"), "queued") EXCEPT
                      !.upload = u, !.seq = seq', !.created = t]]
    /\ upload' = [upload EXCEPT ![u].job = j]
    /\ counts' = [counts EXCEPT !["queued"] = @ + 1]
    /\ UNCHANGED <<used, file, sweep, clock>>

Delete(j) ==
    /\ job[j].status \in Live
    /\ LET u == job[j].upload
       IN  /\ used' = used - upload[u].bytes
           /\ upload' = [upload EXCEPT ![u] = NoEntry("gone")]
           /\ Unlink({u})
    /\ counts' = [counts EXCEPT ![job[j].status] = @ - 1]
    /\ job' = [job EXCEPT ![j] = NoRecord("gone")]
    /\ UNCHANGED <<seq, sweep, clock>>

-----------------------------------------------------------------------------
(* The worker's calls: Claim, Heartbeat and Finish *)

\* Mutant: a lease ends one unit early.
MutLapsedEarly(t) ==
    {j \in Job : job[j].status = "processing" /\ job[j].lease <= t + 1}

\* The leases that are over: !j.lease.After(now).
Lapsed(t) == {j \in Job : job[j].status = "processing" /\ job[j].lease <= t}

\* Mutant: no limit of attempts.
MutExhaustedNever(t) == {}

Exhausted(t) == {j \in Lapsed(t) : job[j].attempts >= MaxAttempts}

\* Mutant: a job that has just failed is still leased.
MutWaitingExhausted(t) ==
    {j \in Job : job[j].status = "queued"} \cup Lapsed(t)

Waiting(t) ==
    {j \in Job : job[j].status = "queued"} \cup (Lapsed(t) \ Exhausted(t))

\* Mutant: last in, first out.
MutOldestNewest(S) == {j \in S : \A i \in S : job[i].seq <= job[j].seq}

Oldest(S) == {j \in S : \A i \in S : job[j].seq <= job[i].seq}

Leasing(r, t) ==
    [SetStatus(r, "processing") EXCEPT
        !.token = r.attempts + 1, !.lease = t + Lease,
        !.attempts = r.attempts + 1]

\* Claim: every lapsed lease ends, and next is leased (NoJob: none waits).
ClaimWith(next, t) ==
    LET released == {job[j].upload : j \in Exhausted(t)}
        requeued == Lapsed(t) \ Exhausted(t)
        expired == Shift(Shift(counts, "processing", "queued",
                               Cardinality(requeued)),
                         "processing", "error", Cardinality(Exhausted(t)))
    IN  /\ job' = [j \in Job |->
                     IF j = next THEN Leasing(job[j], t)
                     ELSE IF j \in Exhausted(t) THEN Fail(job[j], "expired", t)
                     ELSE IF j \in requeued THEN SetStatus(job[j], "queued")
                     ELSE job[j]]
        /\ counts' = IF next = NoJob THEN expired
                     ELSE Shift(expired, "queued", "processing", 1)
        /\ used' = used - ChargedBytes(released)
        /\ upload' = [u \in Upload |-> IF u \in released
                                       THEN [upload[u] EXCEPT !.bytes = 0]
                                       ELSE upload[u]]
        /\ Unlink(released)
        /\ UNCHANGED <<seq, sweep, clock>>

Claim(t) ==
    \/ Waiting(t) = {} /\ ClaimWith(NoJob, t)
    \/ \E next \in Oldest(Waiting(t)) : ClaimWith(next, t)

Heartbeat(j, k, t) ==
    /\ Leased(j, k, t)
    /\ job' = [job EXCEPT ![j].lease = t + Lease]
    /\ UNCHANGED <<upload, counts, used, seq, file, sweep, clock>>

\* release and the status of a leased job that ends for good.
Settle(j, ended) ==
    LET u == job[j].upload
    IN  /\ job' = [job EXCEPT ![j] = ended]
        /\ counts' = Shift(counts, job[j].status, ended.status, 1)
        /\ used' = used - upload[u].bytes
        /\ upload' = [upload EXCEPT ![u].bytes = 0]
        /\ Unlink({u})
        /\ UNCHANGED <<seq, sweep, clock>>

\* Finish with a result, even with retry set.
FinishResult(j, k, t) ==
    /\ Leased(j, k, t)
    /\ Settle(j, [SetStatus(job[j], "completed") EXCEPT
                     !.result = k, !.updated = t])

\* Mutant: a job is queued again after its last attempt.
MutRetriesLeftOffByOne(j) == job[j].attempts <= MaxAttempts

RetriesLeft(j) == job[j].attempts < MaxAttempts

\* Finish without a result: queued again, or failed.
FinishRetry(j, k, t) ==
    /\ Leased(j, k, t)
    /\ RetriesLeft(j)
    /\ job' = [job EXCEPT ![j] = SetStatus(@, "queued")]
    /\ counts' = Shift(counts, "processing", "queued", 1)
    /\ UNCHANGED <<upload, used, seq, file, sweep, clock>>

FinishError(j, k, t, retry) ==
    /\ Leased(j, k, t)
    /\ ~(retry /\ RetriesLeft(j))
    /\ Settle(j, Fail(job[j], "reported", t))

-----------------------------------------------------------------------------
(* Cleanup: one critical section, then a sweep of the directory without it *)

\* Mutant: the age limit applies to every job.
MutAgedFinished(t) ==
    {j \in Job : job[j].status \in Live /\ t - job[j].created > MaxJobAge}

\* Mutant: the age limit spares a job that a worker holds.
MutAgedQueued(t) ==
    {j \in Job : job[j].status = "queued" /\ t - job[j].created > MaxJobAge}

Aged(t) == {j \in Job : job[j].status \in Pending
                        /\ t - job[j].created > MaxJobAge}

\* Mutant: failed jobs are kept.
MutOutdatedCompleted(t, s) ==
    {j \in Job : job[j].status = "completed" /\ s = "completed"
                 /\ t - job[j].updated > Retention}

Outdated(t, s) == {j \in Job : job[j].status = s
                               /\ t - job[j].updated > Retention}

\* Mutant: uploads that were never submitted are kept.
MutAbandonedNever(t) == {}

Abandoned(t) ==
    {u \in Upload : /\ upload[u].state = "stored" /\ upload[u].job = NoJob
                    /\ t - upload[u].created > Greatest(Retention, StaleAge)}

\* The uploads whose files the sweep leaves alone, seen under the mutex.
Known(up) == {u \in Upload : up[u].state = "stored" /\ up[u].bytes > 0}

CleanupLocked(t) ==
    LET old == Outdated(t, "completed") \cup Outdated(t, "error")
        released == {job[j].upload : j \in Aged(t)}
        removed == {job[j].upload : j \in old} \cup Abandoned(t)
    IN  /\ sweep.pc = "idle"
        /\ job' = [j \in Job |->
                     IF j \in Aged(t) THEN Fail(job[j], "aged", t)
                     ELSE IF j \in old THEN NoRecord("gone") ELSE job[j]]
        /\ counts' = [s \in Live |->
                        counts[s]
                        - Cardinality({j \in Aged(t) \cup old : job[j].status = s})
                        + IF s = "error" THEN Cardinality(Aged(t)) ELSE 0]
        /\ used' = used - ChargedBytes(released \cup removed)
        /\ upload' = [u \in Upload |->
                        IF u \in removed THEN NoEntry("gone")
                        ELSE IF u \in released
                             THEN [upload[u] EXCEPT !.bytes = 0]
                             ELSE upload[u]]
        /\ Unlink(released \cup Abandoned(t))
        /\ sweep' = [NoSweep EXCEPT !.pc = "listing", !.now = t,
                                    !.known = Known(upload')]
        /\ UNCHANGED <<seq, clock>>

\* os.ReadDir answers, or fails and ends the call.
CleanupList ==
    /\ sweep.pc = "listing"
    /\ \/ sweep' = [sweep EXCEPT !.pc = "sweeping",
                                 !.todo = {u \in Upload : file[u] # Absent}]
       \/ sweep' = NoSweep
    /\ UNCHANGED <<job, upload, counts, used, seq, file, clock>>

\* Mutant: the sweep does not look at a file's age.
MutSparedUnaged(u) == u \in sweep.known \/ file[u] = Absent

\* Files the sweep leaves alone; entry.Info fails for one that is gone.
Spared(u) ==
    \/ u \in sweep.known
    \/ file[u] = Absent
    \/ sweep.now - file[u] <= StaleAge

CleanupEntry(u) ==
    /\ sweep.pc = "sweeping" /\ sweep.doomed = NoUpload
    /\ u \in sweep.todo
    /\ sweep' = [sweep EXCEPT !.todo = @ \ {u},
                              !.doomed = IF Spared(u) THEN @ ELSE u]
    /\ UNCHANGED <<job, upload, counts, used, seq, file, clock>>

CleanupRemove ==
    /\ sweep.doomed # NoUpload
    /\ Unlink({sweep.doomed})
    /\ sweep' = [sweep EXCEPT !.doomed = NoUpload]
    /\ UNCHANGED <<job, upload, counts, used, seq, clock>>

CleanupReturn ==
    /\ sweep.pc = "sweeping" /\ sweep.doomed = NoUpload /\ sweep.todo = {}
    /\ sweep' = NoSweep
    /\ UNCHANGED <<job, upload, counts, used, seq, file, clock>>

-----------------------------------------------------------------------------
(* The process ends and a new one calls New; time passes *)

\* The identifiers of the previous process are never issued again.
New ==
    /\ job' = [j \in Job |-> IF job[j].status = "unborn" THEN job[j]
                             ELSE NoRecord("gone")]
    /\ upload' = [u \in Upload |-> IF upload[u].state = "unborn" THEN upload[u]
                                   ELSE NoEntry("gone")]
    /\ counts' = [s \in Live |-> 0]
    /\ used' = 0
    /\ seq' = 0
    /\ file' = [u \in Upload |-> Absent]
    /\ sweep' = NoSweep
    /\ UNCHANGED clock

\* A Save ends within MaxSave: the handler's deadline bounds the transfer.
Tick ==
    /\ clock < MaxClock
    /\ \A u \in Upload :
          upload[u].state \in Saving => clock < upload[u].started + MaxSave
    /\ clock' = clock + 1
    /\ UNCHANGED <<job, upload, counts, used, seq, file, sweep>>

SaveNext(u) ==
    \/ SaveBegin(u) \/ SaveWrite(u) \/ SaveDrop(u) \/ SaveReject(u)
    \/ SaveCommit(u)
    \/ \E n \in Size : SaveEOF(u, n)

WorkerNext(j, k, t) ==
    \/ Heartbeat(j, k, t)
    \/ FinishResult(j, k, t)
    \/ FinishRetry(j, k, t)
    \/ \E retry \in BOOLEAN : FinishError(j, k, t, retry)

SweepNext ==
    \/ CleanupList
    \/ \E u \in Upload : CleanupEntry(u)
    \/ CleanupRemove
    \/ CleanupReturn

Next ==
    \/ \E u \in Upload : SaveNext(u) \/ DiscardUpload(u)
    \/ \E j \in Job : Delete(j)
    \/ \E u \in Upload, j \in Job, t \in RecentPast : Submit(u, j, t)
    \/ \E t \in RecentPast : Claim(t)
    \/ \E j \in Job : \E k \in Issued(j), t \in RecentPast : WorkerNext(j, k, t)
    \/ \E t \in RecentPast : CleanupLocked(t)
    \/ SweepNext
    \/ New
    \/ Tick

Spec == Init /\ [][Next]_vars

-----------------------------------------------------------------------------
(* The type invariant *)

Time == 0 .. MaxClock

JobRecord ==
    [status : Live \cup {"unborn", "gone"}, upload : Upload \cup {NoUpload},
     seq : Nat, token : 0 .. MaxAttempts, lease : Nat,
     attempts : 0 .. MaxAttempts, created : Time, updated : Time,
     result : 0 .. MaxAttempts, cause : {"none", "expired", "aged", "reported"}]

UploadRecord ==
    [state : Saving \cup {"unborn", "stored", "gone"},
     size : 0 .. MaxUploadBytes + 1, bytes : 0 .. MaxUploadBytes,
     started : Time, created : Time, job : Job \cup {NoJob}]

SweepRecord ==
    [pc : {"idle", "listing", "sweeping"}, now : Time, known : SUBSET Upload,
     todo : SUBSET Upload, doomed : Upload \cup {NoUpload}]

\* Every variable has its type; attempts never pass MaxAttempts.
TypeOK ==
    /\ job \in [Job -> JobRecord]
    /\ upload \in [Upload -> UploadRecord]
    /\ counts \in [Live -> Int]
    /\ used \in Int
    /\ seq \in Nat
    /\ file \in [Upload -> Time \cup {Absent}]
    /\ sweep \in SweepRecord
    /\ clock \in Time

-----------------------------------------------------------------------------
(* Safety *)

\* The storage an upload accounts for: its reservation or its charge.
Held(r) == IF r.state \in Saving THEN MaxUploadBytes ELSE r.bytes

HeldBytes ==
    Cardinality({p \in Upload \X (1 .. MaxUploadBytes) :
                    p[2] <= Held(upload[p[1]])})

\* Store.used, kept by seven methods one difference at a time, is at every
\* moment the sum of the running reservations and the stored charges, and
\* never passes MaxStorageBytes (Save, release, removeUpload).
QuotaExact == used = HeldBytes /\ used <= MaxStorageBytes

\* Store.counts, kept by setStatus and removeJob, is at every moment the number
\* of jobs per status, and the pending jobs never pass MaxPendingJobs (Submit).
CountsExact ==
    /\ \A s \in Live : counts[s] = Cardinality({j \in Job : job[j].status = s})
    /\ counts["queued"] + counts["processing"] <= MaxPendingJobs

\* A job's upload points back to it and an upload's job to the upload, so a
\* job is removed with its upload and never without it (Submit, removeJob).
\* Only a pending job still has its charge.
LinksAgree ==
    /\ \A j \in Job : job[j].status \in Live =>
          /\ job[j].upload \in Upload
          /\ upload[job[j].upload].state = "stored"
          /\ upload[job[j].upload].job = j
          /\ upload[job[j].upload].bytes > 0 <=> job[j].status \in Pending
    /\ \A u \in Upload : upload[u].job # NoJob =>
          /\ job[upload[u].job].status \in Live
          /\ job[upload[u].job].upload = u
    /\ \A u \in Upload :
          upload[u].state = "stored" /\ upload[u].job = NoJob => upload[u].bytes > 0

\* The audio of a queued or processing job is on disk, and so is that of an
\* upload that can still be submitted: neither Save's two critical sections
\* nor the sweep's stale view of the uploads loses it (Save, Cleanup).
AudioAvailable ==
    \A u \in Upload : upload[u].state = "stored" /\ upload[u].bytes > 0
                         => file[u] # Absent

\* Where removals succeed, no file is on disk without a reservation or a charge
\* that pays for it: the files never hold more than MaxStorageBytes.
FilesPaidFor == \A u \in Upload : file[u] # Absent => Held(upload[u]) > 0

\* A job is queued only with an attempt left, fails by lease expiry only after
\* its last one, and a processing job's lease is held by its latest attempt.
AttemptsBounded ==
    \A j \in Job :
        /\ job[j].status = "queued" => job[j].attempts < MaxAttempts
        /\ job[j].cause = "expired" => job[j].attempts = MaxAttempts
        /\ job[j].status = "processing" => job[j].token = job[j].attempts
        /\ job[j].status # "processing" => job[j].token = 0

\* A completed job carries the result of its latest attempt, and no other job
\* carries one: a worker whose lease went to another attempt, or whose job
\* failed, was requeued or was deleted, never commits (leased, setStatus).
FencedCommit ==
    \A j \in Job :
        /\ job[j].status = "completed" => job[j].result = job[j].attempts
        /\ job[j].status # "completed" => job[j].result = 0

-----------------------------------------------------------------------------
(* What a step may never do *)

\* The outcome of a finished job, its result or its failure, is final: until
\* the job is removed nothing about it changes, and a removed job stays removed.
OutcomeFinal ==
    [][\A j \in Job :
         /\ job[j].status \in Finished => job'[j] \in {job[j], NoRecord("gone")}
         /\ job[j].status = "gone" => job'[j] = job[j]]_vars

\* An attempt loses its job to another attempt, or to the attempt limit, only
\* when its lease is over: before that it ends by its own report, by a
\* deletion, by the age limit or with the process (Claim).
LeaseRespected ==
    [][\A j \in Job :
         /\ job[j].status = "processing" /\ clock < job[j].lease
         => /\ job'[j].attempts \in {job[j].attempts, 0}
            /\ job'[j].cause # "expired"]_vars

\* Jobs are leased in the order they were submitted: no job that a Claim leaves
\* queued, or puts back in the queue, is older than the one it leases.
OldestFirst ==
    [][\A j, i \in Job :
         /\ job'[j].status = "processing" /\ job'[j].attempts # job[j].attempts
         /\ job'[i].status = "queued"
         => job[j].seq < job[i].seq]_vars

-----------------------------------------------------------------------------
(* What Store implements *)

Lifecycle == INSTANCE JobLifecycle WITH
    phase <- [j \in Job |-> job[j].status],
    attempt <- [j \in Job |-> job[j].attempts],
    outcome <- [j \in Job |-> job[j].result],
    place <- [j \in Job |-> job[j].seq]

\* The queue is one of jobs that are attempted at most MaxAttempts times, one
\* attempt after the other, oldest first, and end at most once (JobLifecycle).
ImplementsLifecycle == Lifecycle!Spec
=============================================================================
