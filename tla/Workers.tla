------------------------------ MODULE Workers ------------------------------
(***************************************************************************)
(* Workers (parakeet_api/worker.py) that call the API (handlers.go) over a *)
(* network, and the API's queue (Store) behind it.                         *)
(*                                                                         *)
(* A worker runs two tasks: execute, which fetches the audio, runs the     *)
(* inference and reports, and renew, which extends the lease meanwhile.    *)
(* Each has at most one HTTP call running.  A call that fails, or that the *)
(* client stops waiting for, may have been lost before the API saw it, may *)
(* have lost its answer, or may reach the API later.                       *)
(*                                                                         *)
(* The clock is the API's; a worker's clock runs at the same rate.         *)
(***************************************************************************)
EXTENDS Store

CONSTANTS
    Worker,
    Period,      \* a renewal is due this long after the last: lease_seconds / 3
    Timeout,     \* an HTTP call of a worker has failed after this long, whatever
                 \* parts of it (connecting, writing, reading) were slow
    Stall,       \* STALL_SECONDS: no progress of a job for longer is a stall
    Pace,        \* bound of the model: an inference that does not hang reports
                 \* its progress this often
    Attempts,    \* how often post sends a report
    Pause,       \* Pause[n]: how long post sleeps after its n-th report has failed
    MaxFaults,   \* bound of the model: failures that are not timeouts
    LastFault    \* bound of the model: none of them, and no timeout, after this

ASSUME WorkersAssumption ==
    /\ IsFiniteSet(Worker)
    /\ Period \in Nat \ {0} /\ Timeout \in Nat \ {0} /\ Stall \in Nat \ {0}
    /\ Pace \in 1 .. Stall
    /\ Attempts \in Nat \ {0} /\ MaxFaults \in Nat /\ LastFault \in Nat

\* BACKOFF_SECONDS * 2**attempt: every pause is twice the one before.
ASSUME PauseAssumption ==
    /\ Pause \in [1 .. Attempts -> Nat]
    /\ \A n \in 1 .. Attempts - 1 : Pause[n + 1] = 2 * Pause[n]

VARIABLES
    worker,    \* the local state of execute and of renew
    line,      \* the HTTP call that each of the two waits for
    late,      \* requests on the way that nobody waits for
    faults,    \* how many failures there have been
    acked      \* the attempts <<job, token>> that a worker counts as completed

own == <<worker, line, late, faults, acked>>
workersVars == <<vars, own>>

Task == {"execute", "renew"}

\* A worker between two jobs.
Idle ==
    [pc |-> "idle", job |-> NoJob, token |-> 0, body |-> "none", tries |-> 0,
     wake |-> 0, cancel |-> FALSE, stopping |-> FALSE, stuck |-> FALSE, progress |-> 0,
     heart |-> "off", due |-> 0, renewed |-> 0, misses |-> 0]

NoCall ==
    [kind |-> "none", job |-> NoJob, token |-> 0, body |-> "none", sent |-> 0,
     answer |-> "none", upload |-> NoUpload]

Call(kind, r) ==
    [NoCall EXCEPT !.kind = kind, !.job = r.job, !.token = r.token,
                   !.body = r.body, !.sent = clock, !.answer = "pending"]

WorkersInit ==
    /\ Init
    /\ worker = [w \in Worker |-> Idle]
    /\ line = [w \in Worker |-> [k \in Task |-> NoCall]]
    /\ late = {}
    /\ faults = 0
    /\ acked = {}

-----------------------------------------------------------------------------
(* The API's side: a request is handled, and its answer is on the way *)

\* POST /internal/jobs/claim: the job leased to the caller, or 204.
HandleClaim(answer, next) ==
    \E t \in RecentPast :
        /\ IF Waiting(t) = {} THEN next = NoJob ELSE next \in Oldest(Waiting(t))
        /\ ClaimWith(next, t)
        /\ answer = IF next = NoJob THEN "empty" ELSE "ok"

\* Mutant: a report or a renewal without the lease is answered with 200.
MutFencedOk(c, answer, t) ==
    answer = "ok" /\ ~Leased(c.job, c.token, t) /\ UNCHANGED vars

\* leased answers 409.
Fenced(c, answer, t) ==
    answer = "fenced" /\ ~Leased(c.job, c.token, t) /\ UNCHANGED vars

HandleHeartbeat(c, answer) ==
    \E t \in RecentPast :
        \/ answer = "ok" /\ Heartbeat(c.job, c.token, t)
        \/ Fenced(c, answer, t)

\* POST complete: Finish decides, but a result the API does not accept is
\* refused, with 422 or for its length with 413, before anyone looks at the lease.
HandleComplete(c, answer) ==
    IF c.body = "invalid" THEN answer = "refused" /\ UNCHANGED vars
    ELSE \E t \in RecentPast :
        \/ /\ answer = "ok"
           /\ \/ c.body = "result" /\ FinishResult(c.job, c.token, t)
              \/ c.body = "retry" /\ FinishRetry(c.job, c.token, t)
              \/ c.body = "retry" /\ FinishError(c.job, c.token, t, TRUE)
              \/ c.body = "fatal" /\ FinishError(c.job, c.token, t, FALSE)
        \/ Fenced(c, answer, t)

Handle(c, answer, j) ==
    \/ c.kind = "claim" /\ HandleClaim(answer, j)
    \/ c.kind = "heartbeat" /\ j = c.job /\ HandleHeartbeat(c, answer)
    \/ c.kind = "complete" /\ j = c.job /\ HandleComplete(c, answer)

\* The client still waits: its timeout is not over.
InTime(c) == clock < c.sent + Timeout

Serve(w, k) ==
    LET c == line[w][k]
    IN  /\ c.answer = "pending" /\ InTime(c)
        /\ \E answer \in {"ok", "empty", "fenced", "refused"},
              j \in Job \cup {NoJob} :
              /\ Handle(c, answer, j)
              /\ line' = [line EXCEPT ![w][k] =
                             [c EXCEPT !.answer = answer, !.job = j,
                                       !.token = IF c.kind = "claim" /\ j # NoJob
                                                 THEN job'[j].token ELSE @]]
        /\ UNCHANGED <<worker, late, faults, acked>>

\* GET audio: the lease is looked at under the mutex, the file is opened after
\* it, and in between the job may end and its file go.
ServeAudio(w) ==
    LET c == line[w]["execute"]
    IN  /\ c.kind = "audio" /\ InTime(c)
        /\ \/ /\ c.answer = "pending"
              /\ line' = [line EXCEPT ![w]["execute"] =
                    IF Leased(c.job, c.token, clock)
                    THEN [c EXCEPT !.answer = "checked",
                                   !.upload = job[c.job].upload]
                    ELSE [c EXCEPT !.answer = "fenced"]]
           \/ /\ c.answer = "checked"
              /\ line' = [line EXCEPT ![w]["execute"].answer =
                             IF file[c.upload] = Absent THEN "fenced" ELSE "ok"]
        /\ UNCHANGED <<vars, worker, late, faults, acked>>

\* A request that nobody waits for any more reaches the API, if not so much
\* later than the last failure that the clock ends before its lease.
ServeLate(c) ==
    /\ c \in late /\ clock <= LastFault + Timeout
    /\ \E answer \in {"ok", "empty", "fenced", "refused"}, j \in Job \cup {NoJob} :
          Handle(c, answer, j)
    /\ late' = late \ {c}
    /\ UNCHANGED <<worker, line, faults, acked>>

-----------------------------------------------------------------------------
(* How the calls of a worker end *)

\* A failure that may happen at any time, within the bounds of the model.
MayFail == clock <= LastFault /\ faults < MaxFaults

\* The await ends with the API's answer.
Answered(w, k, answer) ==
    /\ line[w][k].answer = answer /\ InTime(line[w][k])
    /\ UNCHANGED faults

\* The await ends with a TransportError or a 5xx; a timeout is counted when the
\* time is over, in TimePasses.
Failed(w, k) ==
    /\ line[w][k] # NoCall
    /\ IF InTime(line[w][k]) THEN MayFail /\ faults' = faults + 1
       ELSE UNCHANGED faults

\* Tells request c, which is given up, from the late requests that equal it: it
\* takes the place of the time at which c was sent.
CopyNumber(c) ==
    CHOOSE n \in 0 .. Cardinality(late) : [c EXCEPT !.sent = n] \notin late

\* The calls of w become c.  A request that the API has not seen yet, and that
\* nobody waits for now, may still come; it is lost if it never does.  (A late
\* GET audio changes nothing.)
Line(w, c) ==
    /\ line' = [line EXCEPT ![w] = c]
    /\ late' = late \cup {[line[w][k] EXCEPT !.sent = CopyNumber(line[w][k])] :
                             k \in {k \in Task : /\ line[w][k].answer = "pending"
                                                /\ line[w][k].kind # "audio"
                                                /\ c[k] # line[w][k]}}

\* The task that waited goes on, with the next call c or none.
Resume(w, k, r, c) ==
    /\ worker' = [worker EXCEPT ![w] = r]
    /\ Line(w, [line[w] EXCEPT ![k] = c])

\* The finally of execute: heartbeat.cancel() drops a renewal that is running.
End(w) ==
    /\ worker' = [worker EXCEPT ![w] = Idle]
    /\ Line(w, [k \in Task |-> NoCall])

-----------------------------------------------------------------------------
(* run: claim a job *)

Poll(w) ==
    /\ worker[w].pc = "idle"
    /\ Resume(w, "execute", [worker[w] EXCEPT !.pc = "claiming"],
              Call("claim", worker[w]))
    /\ UNCHANGED <<vars, faults, acked>>

\* 204, or api_unavailable.
PollAgain(w) ==
    /\ worker[w].pc = "claiming"
    /\ Answered(w, "execute", "empty") \/ Failed(w, "execute")
    /\ End(w)
    /\ UNCHANGED <<vars, acked>>

\* execute begins: renew is started, and the audio is requested.
Begin(w) ==
    LET c == line[w]["execute"]
        r == [Idle EXCEPT !.pc = "fetching", !.job = c.job, !.token = c.token,
                          !.progress = clock, !.heart = "asleep",
                          !.due = clock + Period, !.renewed = clock]
    IN  /\ worker[w].pc = "claiming"
        /\ Answered(w, "execute", "ok")
        /\ Resume(w, "execute", r, Call("audio", r))
        /\ UNCHANGED <<vars, acked>>

-----------------------------------------------------------------------------
(* execute: fetch the audio, run the inference, report *)

\* except Exception: the error is reported, unless the job was cancelled.
Complain(w, body) ==
    IF worker[w].cancel THEN End(w)
    ELSE Resume(w, "execute",
                [worker[w] EXCEPT !.pc = "failing", !.body = body, !.tries = 0],
                NoCall)

Fetched(w) ==
    /\ worker[w].pc = "fetching"
    /\ \/ /\ Answered(w, "execute", "ok")
          /\ Resume(w, "execute", [worker[w] EXCEPT !.pc = "receiving"], NoCall)
       \/ Answered(w, "execute", "fenced") /\ End(w)
       \/ Failed(w, "execute") /\ Complain(w, "retry")
    /\ UNCHANGED <<vars, acked>>

\* A chunk arrives, or is more than the upload was; the stream ends, or it breaks.
Receive(w) ==
    /\ worker[w].pc = "receiving"
    /\ UNCHANGED <<vars, acked>>
    /\ \/ /\ ~worker[w].cancel
          /\ worker' = [worker EXCEPT ![w].progress = clock]
          /\ UNCHANGED <<line, late, faults>>
       \/ ~worker[w].cancel /\ Complain(w, "fatal") /\ UNCHANGED faults
       \/ /\ worker' = [worker EXCEPT ![w].pc = "inferring"]
          /\ UNCHANGED <<line, late, faults>>
       \/ MayFail /\ faults' = faults + 1 /\ Complain(w, "retry")

\* check, between two windows of the audio.
Infer(w) ==
    /\ worker[w].pc = "inferring" /\ ~worker[w].cancel
    /\ worker' = [worker EXCEPT ![w].progress = clock, ![w].stuck = FALSE]
    /\ UNCHANGED <<vars, line, late, faults, acked>>

\* InterruptedError: check, the next chunk or the end of the inference finds
\* the job cancelled.
Interrupted(w) ==
    /\ worker[w].pc \in {"receiving", "inferring"} /\ worker[w].cancel
    /\ End(w)
    /\ UNCHANGED <<vars, faults, acked>>

\* The inference ends with a last check and a result, which the API may refuse;
\* with an error that is permanent (a time limit, bad audio); or unexpectedly.
Inferred(w) ==
    /\ worker[w].pc = "inferring" /\ ~worker[w].cancel /\ ~worker[w].stuck
    /\ \/ /\ \E body \in {"result", "invalid"} :
                Resume(w, "execute", [worker[w] EXCEPT !.pc = "committing",
                                        !.body = body, !.progress = clock], NoCall)
          /\ UNCHANGED faults
       \/ Complain(w, "fatal") /\ UNCHANGED faults
       \/ MayFail /\ faults' = faults + 1 /\ Complain(w, "retry")
    /\ UNCHANGED <<vars, acked>>

\* post: a call of complete, once the pause after the last one is over.
Post(w) ==
    /\ worker[w].pc \in {"committing", "failing"}
    /\ line[w]["execute"] = NoCall /\ clock >= worker[w].wake
    /\ Resume(w, "execute", [worker[w] EXCEPT !.tries = @ + 1, !.wake = 0],
              Call("complete", worker[w]))
    /\ UNCHANGED <<vars, faults, acked>>

\* The API answers the report: 200, 409 or 422.
Posted(w) ==
    LET r == worker[w]
    IN  /\ r.pc \in {"committing", "failing"}
        /\ \/ /\ Answered(w, "execute", "ok") /\ End(w)
              /\ acked' = IF r.pc = "committing"
                          THEN acked \cup {<<r.job, r.token>>} ELSE acked
           \/ /\ Answered(w, "execute", "fenced") /\ End(w)
              /\ UNCHANGED acked
           \/ /\ Answered(w, "execute", "refused") /\ Complain(w, "fatal")
              /\ UNCHANGED acked
        /\ UNCHANGED vars

\* Mutant: post sends a report once too often.
MutPostFailsOnceMore(w) ==
    LET r == worker[w]
    IN  /\ r.pc \in {"committing", "failing"}
        /\ Failed(w, "execute")
        /\ IF r.tries <= Attempts
           THEN Resume(w, "execute", [r EXCEPT !.wake = clock + Pause[r.tries]],
                       NoCall)
           ELSE IF r.pc = "committing" THEN Complain(w, "retry")
           ELSE End(w)
        /\ UNCHANGED <<vars, acked>>

\* Mutant: every pause is as long as the one that should follow it.
MutPostFailsSlowly(w) ==
    LET r == worker[w]
    IN  /\ r.pc \in {"committing", "failing"}
        /\ Failed(w, "execute")
        /\ IF r.tries < Attempts
           THEN Resume(w, "execute",
                       [r EXCEPT !.wake = clock + Pause[r.tries + 1]], NoCall)
           ELSE IF r.pc = "committing" THEN Complain(w, "retry")
           ELSE End(w)
        /\ UNCHANGED <<vars, acked>>

\* The report fails: it is sent again after a pause, up to Attempts times.
PostFails(w) ==
    LET r == worker[w]
    IN  /\ r.pc \in {"committing", "failing"}
        /\ Failed(w, "execute")
        /\ IF r.tries < Attempts
           THEN Resume(w, "execute", [r EXCEPT !.wake = clock + Pause[r.tries]],
                       NoCall)
           ELSE IF r.pc = "committing" THEN Complain(w, "retry")
           ELSE End(w)
        /\ UNCHANGED <<vars, acked>>

-----------------------------------------------------------------------------
(* renew *)

Cancelled(r) == [r EXCEPT !.cancel = TRUE, !.heart = "off"]

\* Mutant: a renewal is due every second period.
MutAsleepTwice(r) == [r EXCEPT !.heart = "asleep", !.due = clock + 2 * Period]

Asleep(r) == [r EXCEPT !.heart = "asleep", !.due = clock + Period]

\* Mutant: a job that made no progress for one period has stalled.
MutStalledEarly(r) == clock - r.progress >= Period

Stalled(r) == clock - r.progress > Stall

\* The sleep is over: the job has stalled or the worker shuts down, or the
\* lease is to be renewed.
Wake(w) ==
    LET r == worker[w]
    IN  /\ r.heart = "asleep" /\ clock >= r.due
        /\ IF r.stopping \/ Stalled(r)
           THEN Resume(w, "renew", Cancelled(r), NoCall)
           ELSE Resume(w, "renew", [r EXCEPT !.heart = "asking"],
                       Call("heartbeat", [r EXCEPT !.body = "none"]))
        /\ UNCHANGED <<vars, faults, acked>>

Renewed(w) ==
    LET r == worker[w]
    IN  /\ r.heart = "asking"
        /\ \/ /\ Answered(w, "renew", "ok")
              /\ Resume(w, "renew",
                        [Asleep(r) EXCEPT !.renewed = line[w]["renew"].sent,
                                          !.misses = 0], NoCall)
           \/ /\ Answered(w, "renew", "fenced")
              /\ Resume(w, "renew", Cancelled(r), NoCall)
        /\ UNCHANGED <<vars, acked>>

\* Mutant: failed renewals never end a job.
MutGivesUpNever(r) == FALSE

\* The last renewal that succeeded was sent a whole lease ago.
GivesUp(r) == clock - r.renewed >= Lease

RenewFails(w) ==
    LET r == [worker[w] EXCEPT !.misses = @ + 1]
    IN  /\ r.heart = "asking"
        /\ Failed(w, "renew")
        /\ Resume(w, "renew", IF GivesUp(r) THEN Cancelled(r) ELSE Asleep(r),
                  NoCall)
        /\ UNCHANGED <<vars, acked>>

-----------------------------------------------------------------------------
(* Failures of a worker, and its environment *)

\* The inference hangs in one window and reports no progress.
Stick(w) ==
    /\ worker[w].pc = "inferring" /\ ~worker[w].stuck /\ MayFail
    /\ worker' = [worker EXCEPT ![w].stuck = TRUE]
    /\ faults' = faults + 1
    /\ UNCHANGED <<vars, line, late, acked>>

\* The container is asked to stop while the inference runs: its end is awaited.
Stop(w) ==
    /\ worker[w].pc = "inferring" /\ ~worker[w].stopping /\ MayFail
    /\ worker' = [worker EXCEPT ![w].stopping = TRUE, ![w].cancel = TRUE]
    /\ faults' = faults + 1
    /\ UNCHANGED <<vars, line, late, acked>>

\* It is killed, or stops outside the inference, and starts again.
Die(w) ==
    /\ worker[w].pc # "idle" /\ MayFail
    /\ faults' = faults + 1
    /\ End(w)
    /\ UNCHANGED <<vars, acked>>

\* Mutant: a worker is healthy as long as it answers.
MutHealthyAnswers(w) == ~worker[w].stopping

\* The health endpoint: 200, or 503 for a worker that stops or makes no progress.
Healthy(w) ==
    LET r == worker[w]
    IN  /\ ~r.stopping
        /\ r.pc \in {"idle", "claiming"} \/ clock - r.progress < Stall

\* The liveness probe of the deployment restarts a worker that is not healthy,
\* after a few bad answers in a row: at any time from the first of them on.
Probe(w) ==
    /\ ~Healthy(w)
    /\ End(w)
    /\ UNCHANGED <<vars, faults, acked>>

\* The rest of the API: its clients, and a restart.  (Cleanup takes a job from
\* its worker as Delete does, and is left to Server.)
ApiNext ==
    /\ \/ \E u \in Upload : SaveNext(u) \/ DiscardUpload(u)
       \/ \E u \in Upload, j \in Job, t \in RecentPast : Submit(u, j, t)
       \/ \E j \in Job : Delete(j)
       \/ New
    /\ UNCHANGED own

\* Time passes unless a timer is due: the sleep of renew, the timeout of a
\* call, the pause between two chunks, the sleep of post, and the next check of
\* an inference that is not stuck.  A call runs into its timeout only if a
\* failure may still happen.
TimePasses ==
    LET timedOut == {p \in Worker \X Task :
                        /\ line[p[1]][p[2]] # NoCall
                        /\ clock + 1 >= line[p[1]][p[2]].sent + Timeout}
    IN  /\ Tick
        /\ timedOut # {} => MayFail
        /\ faults' = faults + Cardinality(timedOut)
        /\ \A w \in Worker :
              /\ worker[w].heart = "asleep" => clock < worker[w].due
              /\ \A k \in Task : line[w][k] # NoCall => InTime(line[w][k])
              /\ worker[w].pc \in {"committing", "failing"} =>
                    line[w]["execute"] # NoCall \/ clock < worker[w].wake
              /\ worker[w].pc = "receiving" =>
                    clock < worker[w].progress + 2 * Timeout
              /\ worker[w].pc = "inferring" /\ ~worker[w].stuck =>
                    clock < worker[w].progress + Pace
        /\ UNCHANGED <<worker, line, late, acked>>

ExecuteNext(w) ==
    \/ Poll(w) \/ PollAgain(w) \/ Begin(w) \/ Fetched(w) \/ Receive(w)
    \/ Infer(w) \/ Interrupted(w) \/ Inferred(w)
    \/ Post(w) \/ Posted(w) \/ PostFails(w)

RenewNext(w) == Wake(w) \/ Renewed(w) \/ RenewFails(w)

FaultNext(w) == Stick(w) \/ Stop(w) \/ Die(w) \/ Probe(w)

WorkersNext ==
    \/ \E w \in Worker : ExecuteNext(w) \/ RenewNext(w) \/ FaultNext(w)
    \/ \E w \in Worker, k \in Task : Serve(w, k)
    \/ \E w \in Worker : ServeAudio(w)
    \/ \E c \in late : ServeLate(c)
    \/ ApiNext
    \/ TimePasses

WorkersSpec == WorkersInit /\ [][WorkersNext]_workersVars

\* A task goes on with what it awaited; an inference that hangs need not.
Works(w) == ~worker[w].stuck /\ ExecuteNext(w)

\* The API answers, the tasks of a worker go on and its container is restarted
\* when its probe fails.  Time passes although workers poll again and again: they
\* sleep in between.  No client does anything, and the janitor is left out.
WorkersFairness ==
    /\ \A w \in Worker :
        /\ WF_workersVars(Works(w)) /\ WF_workersVars(RenewNext(w))
        /\ WF_workersVars(Probe(w)) /\ WF_workersVars(ServeAudio(w))
        /\ \A k \in Task : WF_workersVars(Serve(w, k))
    /\ SF_workersVars(TimePasses)

WorkersFairSpec == WorkersSpec /\ WorkersFairness

-----------------------------------------------------------------------------
(* The type invariant *)

Attempt == Job \X (1 .. MaxAttempts)

WorkerRecord ==
    [pc : {"idle", "claiming", "fetching", "receiving", "inferring",
           "committing", "failing"},
     job : Job \cup {NoJob}, token : 0 .. MaxAttempts,
     body : {"none", "result", "invalid", "retry", "fatal"},
     tries : 0 .. Attempts, wake : Nat, cancel : BOOLEAN, stopping : BOOLEAN,
     stuck : BOOLEAN, progress : Time, heart : {"off", "asleep", "asking"},
     due : Nat, renewed : Nat, misses : Nat]

CallRecord ==
    [kind : {"none", "claim", "heartbeat", "audio", "complete"},
     job : Job \cup {NoJob}, token : 0 .. MaxAttempts,
     body : {"none", "result", "invalid", "retry", "fatal"}, sent : Nat,
     answer : {"none", "pending", "checked", "ok", "empty", "fenced", "refused"},
     upload : Upload \cup {NoUpload}]

\* Every variable has its type, those of Store included.
WorkersTypeOK ==
    /\ TypeOK
    /\ worker \in [Worker -> WorkerRecord]
    /\ line \in [Worker -> [Task -> CallRecord]]
    /\ late \subseteq CallRecord
    /\ faults \in Nat
    /\ acked \subseteq Attempt

-----------------------------------------------------------------------------
(* Safety *)

\* What a worker counts as completed is: the job has the result of the very
\* attempt whose report was answered, until it is removed (post, checked).
AckedIsCommitted ==
    \A a \in acked : job[a[1]].result = a[2] \/ job[a[1]].status = "gone"

\* The lease of the job that w works on, seen from the API.
Holds(w) == Leased(worker[w].job, worker[w].token, clock)

\* The job of w is still to be done, the API has given it to nobody else, and
\* at most n renewals have failed since the last that did not.
Entrusted(w, n) ==
    /\ worker[w].heart # "off" /\ worker[w].misses <= n
    /\ worker[w].heart = "asking" => InTime(line[w]["renew"])
    /\ job[worker[w].job].status = "processing"
    /\ job[worker[w].job].token = worker[w].token

\* A worker whose renewals are answered keeps its lease: however late within
\* its timeout each answer comes, the lease does not run out under it (renew).
LeaseKept == \A w \in Worker : Entrusted(w, 0) => Holds(w)

\* A worker that the API cannot be reached from, or that was fenced out, stops:
\* the last renewal that was answered well is never older than this (renew).
RenewalFresh ==
    \A w \in Worker : worker[w].heart # "off" =>
        clock - worker[w].renewed < Lease + Period + Timeout

\* A job is given up for lapsed leases only after as many separate failures as
\* it has attempts: no attempt is wasted by the protocol itself (Claim, execute).
ExpiryNeedsFaults ==
    \A j \in Job : job[j].cause = "expired" => faults >= MaxAttempts

\* The probe never restarts a worker that works: the longest time without progress
\* before a failure (a slow download, a slow window, a result that is reported in
\* vain, with all the pauses in between) and the report of that failure, as often
\* as it is sent, stay below the limit of a stall together (health, post, execute).
HealthyUnlessStuck ==
    \A w \in Worker : worker[w].stuck \/ worker[w].stopping \/ Healthy(w)

-----------------------------------------------------------------------------
(* Liveness *)

\* With one worker alive, every job ends: lost claims and reports, dead workers
\* and hanging inferences cost an attempt each, and leases that lapse make up for
\* them, without the help of the age limit (Claim, Finish, renew, health).
JobsFinish ==
    \A j \in Job : job[j].status \in Pending ~> job[j].status \notin Pending

-----------------------------------------------------------------------------
(* What the code's comments and the README say, and the code does not do *)

\* worker.py: "One failed renewal leaves most of the lease."
OneFailureHarmless == \A w \in Worker : Entrusted(w, 1) => Holds(w)

\* README: 409 means that the job was deleted, expired or reassigned.
ConflictMeansFenced ==
    \A w \in Worker :
        LET c == line[w]["execute"]
        IN  c.kind = "complete" /\ c.answer = "fenced"
            => job[c.job].result # c.token
=============================================================================
