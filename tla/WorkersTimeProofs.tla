--------------------------- MODULE WorkersTimeProofs ---------------------------
(***************************************************************************)
(* What holds of Workers because of how its times relate to each other.    *)
(*                                                                         *)
(* A lease is renewed in time, a worker gives up in time, and the probe    *)
(* does not take work for a stall, only if a call, a period, a lease and a *)
(* stall have the right proportions.  Each theorem states the proportion   *)
(* it needs.  The invariant Timely bounds, for every place that execute    *)
(* and renew can be in, how long ago they got there.                       *)
(*                                                                         *)
(* Who wastes an attempt is found by keeping accounts.  TicketsOK: each    *)
(* attempt of a job has one owner at most, the worker that was told of it  *)
(* or that the answer to its claim is for.  Charged: every attempt of a    *)
(* job that nobody attends to any more has cost a failure, and every claim *)
(* that was given up, and may still take a job, has cost one beside them.  *)
(***************************************************************************)
EXTENDS WorkersProofs, WellFoundedInduction

-----------------------------------------------------------------------------
(* The proportions *)

\* A call fails before a lease ends.
ShortCalls == Timeout <= Lease

\* A renewal that is answered only just in time, after one that was, is handled
\* before the lease of the first runs out.
RenewalsInTime == Period + 2 * (Timeout - 1) + Skew < Lease

\* n calls of complete and the pauses between them: as every pause is twice the
\* one before, those before the n-th call add up to Pause[n] - Pause[1].
Series(n) == n * Timeout + Pause[n] - Pause[1]

\* n calls and a pause after each of them.
Posts(n) == IF n = 0 THEN 0 ELSE Series(n) + Pause[n]

\* The longest that a worker that is not stuck goes without progress before it
\* reports a failure: a pause of the stream, of the inference, or a whole series
\* of reports.
Slack == Greatest(2 * Timeout, Greatest(Pace, Series(Attempts)))

\* A report of a failure, with all its calls and pauses, is over before all this
\* counts as a stall.
Patience == Slack + Series(Attempts) < Stall

-----------------------------------------------------------------------------
(* The invariant *)

\* renew sleeps until due, and then asks until its timeout.
HeartOK(r, d, now) ==
    /\ r.heart = "asking" <=> d # NoCall
    /\ r.heart = "asking" =>
          /\ d.kind = "heartbeat" /\ d.job = r.job /\ d.token = r.token
          /\ d.sent = r.due /\ r.due <= now /\ now <= r.due + Timeout
    /\ r.heart = "asleep" => now <= r.due /\ r.due <= now + Period
    /\ ShortCalls /\ r.heart # "off" => r.due < r.renewed + Lease + Period

\* execute waits for its calls where the code awaits them.
PlaceOK(r, c, now) ==
    /\ c # NoCall => c.sent <= now /\ now <= c.sent + Timeout
    /\ r.pc \in {"idle", "receiving", "inferring"} => c = NoCall
    /\ r.pc \in {"claiming", "fetching"} => c # NoCall
    /\ r.pc = "fetching" => /\ c.kind = "audio" /\ c.job = r.job
                            /\ c.token = r.token /\ c.sent <= r.progress
    /\ r.pc \in {"idle", "claiming"} => r.heart = "off"
    /\ r.stuck \/ r.stopping => r.pc = "inferring"
    /\ r.stopping => r.cancel
    /\ r.pc = "failing" => r.body \in {"retry", "fatal"}
    /\ c.answer = "refused" => c.body = "invalid"
    /\ r.wake # 0 => c = NoCall /\ r.pc \in Reporting

\* The reports of a worker that has made no progress for s before the first.
ReportsOK(r, c, s, now) ==
    IF c = NoCall THEN /\ now <= r.progress + s + Posts(r.tries)
                       /\ r.wake <= r.progress + s + Posts(r.tries)
    ELSE c.sent + Timeout <= r.progress + s + Series(r.tries)

\* How long ago the last progress of execute can be.
ProgressOK(r, c, now) ==
    /\ r.pc = "receiving" => now <= r.progress + 2 * Timeout
    /\ r.pc = "inferring" /\ ~r.stuck => now <= r.progress + Slack
    /\ r.pc = "committing" => ReportsOK(r, c, 0, now)
    /\ r.pc = "failing" => ReportsOK(r, c, Slack, now)

\* While attempt k of j lasts, its lease covers what was granted at x.
Floor(jobs, j, k, x) ==
    jobs[j].status = "processing" /\ jobs[j].token = k
    => x + Lease <= jobs[j].lease + Skew

\* An answer grants the lease from when the request was sent; and so does the
\* last of a series of renewals that were all answered.
FloorOK(r, c, d, jobs) ==
    /\ c.kind = "claim" /\ c.answer = "ok" => Floor(jobs, c.job, c.token, c.sent)
    /\ d.answer = "ok" => Floor(jobs, d.job, d.token, d.sent)
    /\ r.heart # "off" /\ r.misses = 0
       => Floor(jobs, r.job, r.token, r.due - Period - (Timeout - 1))

TimelyOK(r, c, d, now, jobs) ==
    /\ HeartOK(r, d, now)
    /\ PlaceOK(r, c, now)
    /\ ProgressOK(r, c, now)
    /\ FloorOK(r, c, d, jobs)

Timely ==
    \A w \in Worker :
        TimelyOK(worker[w], line[w]["execute"], line[w]["renew"], clock, job)

-----------------------------------------------------------------------------
(* Arithmetic *)

LEMMA TimeConstants ==
    /\ Timeout \in Nat /\ 0 < Timeout /\ Period \in Nat /\ 0 < Period
    /\ Lease \in Nat /\ 0 < Lease /\ Skew \in Nat /\ Pace \in Nat
    /\ Stall \in Nat /\ 0 < Stall /\ Attempts \in Nat /\ 0 < Attempts
BY WorkersAssumption, TimesAssumption

\* Every set of natural numbers has a least one.
LEMMA LeastNumber ==
    ASSUME NEW S \in SUBSET Nat, NEW n \in S
    PROVE  \E m \in S : \A k \in S : m <= k
<1>1. \E R : IsWellFoundedOn(R, Nat) /\ \A x, y \in Nat : <<y, x>> \in R <=> y < x
  <2>1. \A x, y \in Nat : <<y, x>> \in OpToRel(<, Nat) <=> y < x
    BY DEF OpToRel
  <2> QED
    BY <2>1, NatLessThanWellFounded
<1>2. PICK R :
         IsWellFoundedOn(R, Nat) /\ \A x, y \in Nat : <<y, x>> \in R <=> y < x
  BY <1>1
<1>3. PICK x \in S : \A y \in S : ~(<<y, x>> \in R)
  BY <1>2, WFMin
<1>4. ASSUME NEW y \in S PROVE x <= y
  <2>1. ~(<<y, x>> \in R) /\ x \in Nat /\ y \in Nat
    BY <1>3
  <2>2. ~(y < x)
    BY <1>2, <2>1
  <2> QED
    BY <2>1, <2>2
<1> QED
  BY <1>4

\* No pause is shorter than one before it.
LEMMA PausesGrow ==
    ASSUME NEW m \in 1 .. Attempts, NEW n \in 1 .. Attempts, m <= n
    PROVE  Pause[m] \in Nat /\ Pause[n] \in Nat /\ Pause[m] <= Pause[n]
<1> DEFINE S == {i \in Nat : m <= i /\ i <= Attempts /\ ~(Pause[m] <= Pause[i])}
<1>1. \A i \in 1 .. Attempts : Pause[i] \in Nat
  BY PauseAssumption
<1>2. ASSUME NEW k \in S, \A i \in S : k <= i PROVE FALSE
  <2>1. /\ k \in Nat /\ m <= k /\ k <= Attempts /\ ~(Pause[m] <= Pause[k])
    BY <1>2
  <2>2. k # m
    BY <1>1, <2>1
  <2> DEFINE i == k - 1
  <2>3. i \in 1 .. Attempts - 1 /\ m <= i /\ i < k /\ i + 1 = k
    BY <2>1, <2>2, TimeConstants
  <2>4. i \notin S
    BY <1>2, <2>1, <2>3
  <2>5. Pause[m] <= Pause[i]
    BY <2>3, <2>4, TimeConstants
  <2>6. Pause[k] = 2 * Pause[i]
    BY <2>3, PauseAssumption
  <2>7. Pause[i] \in Nat /\ Pause[m] \in Nat
    BY <1>1, <2>3, TimeConstants
  <2> QED
    BY <2>1, <2>5, <2>6, <2>7
<1>3. n \notin S
  <2>1. S \in SUBSET Nat
    OBVIOUS
  <2> HIDE DEF S
  <2> QED
    BY <1>2, <2>1, LeastNumber
<1> QED
  BY <1>1, <1>3, TimeConstants

\* The calls and pauses of a series add up.
LEMMA SeriesFacts ==
    /\ Posts(0) = 0 /\ Series(Attempts) \in Nat
    /\ \A n \in 1 .. Attempts :
          /\ Pause[n] \in Nat /\ Series(n) \in Nat
          /\ Series(n) <= Series(Attempts) /\ Posts(n) = Series(n) + Pause[n]
    /\ \A n \in 0 .. Attempts - 1 :
          /\ Posts(n) \in Nat /\ Posts(n) <= Series(Attempts)
          /\ Series(n + 1) = Posts(n) + Timeout
<1> USE TimeConstants
<1>1. ASSUME NEW n \in 1 .. Attempts
      PROVE  /\ Pause[n] \in Nat /\ Series(n) \in Nat
             /\ Series(n) <= Series(Attempts) /\ Posts(n) = Series(n) + Pause[n]
  <2>1. /\ Pause[1] \in Nat /\ Pause[n] \in Nat /\ Pause[Attempts] \in Nat
        /\ Pause[1] <= Pause[n] /\ Pause[n] <= Pause[Attempts]
    <3>1. 1 \in 1 .. Attempts /\ Attempts \in 1 .. Attempts /\ 1 <= n /\ n <= Attempts
      OBVIOUS
    <3> QED
      BY <3>1, PausesGrow
  <2>2. n * Timeout \in Nat /\ Attempts * Timeout \in Nat
    OBVIOUS
  <2>3. n * Timeout <= Attempts * Timeout
    <3>1. (Attempts - n) * Timeout >= 0
      OBVIOUS
    <3> QED
      BY <3>1
  <2>4. Posts(n) = Series(n) + Pause[n]
    BY DEF Posts
  <2> HIDE TimeConstants
  <2> QED
    BY <2>1, <2>2, <2>3, <2>4 DEF Series
<1>2. Series(Attempts) \in Nat /\ Posts(0) = 0
  BY <1>1 DEF Posts
<1>3. ASSUME NEW n \in 0 .. Attempts - 1
      PROVE  /\ Posts(n) \in Nat /\ Posts(n) <= Series(Attempts)
             /\ Series(n + 1) = Posts(n) + Timeout
  <2>1. n + 1 \in 1 .. Attempts
    OBVIOUS
  <2>2. Series(n + 1) \in Nat /\ Series(n + 1) <= Series(Attempts)
    BY <1>1, <2>1
  <2>3. CASE n = 0
    <3>1. Series(1) = Timeout
      BY <1>1, <2>1, <2>3 DEF Series
    <3> QED
      BY <1>2, <2>2, <2>3, <3>1
  <2>4. CASE n \in 1 .. Attempts - 1
    <3>1. Pause[n + 1] = 2 * Pause[n]
      BY <2>4, PauseAssumption
    <3>2. /\ Pause[n] \in Nat /\ Pause[1] \in Nat /\ Series(n) \in Nat
          /\ Posts(n) = Series(n) + Pause[n]
      BY <1>1, <2>4
    <3>3. (n + 1) * Timeout = n * Timeout + Timeout /\ n * Timeout \in Nat
      OBVIOUS
    <3>4. Series(n + 1) = Series(n) + Pause[n] + Timeout
      <4> HIDE TimeConstants
      <4> QED
        BY <3>1, <3>2, <3>3, TimeConstants DEF Series
    <3> QED
      BY <1>2, <2>2, <3>2, <3>4
  <2> QED
    BY <2>3, <2>4
<1> QED
  BY <1>1, <1>2, <1>3

LEMMA SlackFacts ==
    /\ Slack \in Nat /\ 2 * Timeout <= Slack /\ Pace <= Slack
    /\ Series(Attempts) <= Slack /\ Series(Attempts) \in Nat
BY SeriesFacts, TimeConstants DEF Slack, Greatest

-----------------------------------------------------------------------------
(* Leases and the clock *)

\* No step shortens a lease that lasts, and a renewal counts from the recent
\* past: what a lease covered it still covers.
LEMMA StepFloor ==
    ASSUME Types, [Next]_vars, NEW j \in Job, NEW k, NEW x \in Int, x <= clock,
           Floor(job, j, k, x)
    PROVE  Floor(job', j, k, x)
<1> SUFFICES ASSUME job'[j].status = "processing", job'[j].token = k
             PROVE  x + Lease <= job'[j].lease + Skew
  BY DEF Floor
<1> USE TimeConstants DEF Live, Pending, Finished
<1>1. /\ MovesOn(j) /\ job[j] \in JobRecord /\ clock \in Nat
  BY StepMoves DEF Types, TypeOK, Time
<1>2. \A t \in RecentPast : t \in Nat /\ clock <= t + Skew
  BY <1>1 DEF RecentPast
<1>3. CASE job'[j] = job[j]
  BY <1>3 DEF Floor
<1>4. CASE IsTaken(j)
  <2>1. PICK t \in RecentPast : job'[j] = Leasing(job[j], t)
    BY <1>4 DEF IsTaken
  <2>2. job'[j].lease = t + Lease
    BY <1>1, <2>1 DEF Leasing, SetStatus, JobRecord
  <2> QED
    BY <1>1, <1>2, <2>2
<1>5. CASE IsRenewed(j)
  <2>1. PICK t \in RecentPast : job'[j] = [job[j] EXCEPT !.lease = t + Lease]
    BY <1>5 DEF IsRenewed
  <2>2. job'[j].lease = t + Lease
    BY <1>1, <2>1 DEF JobRecord
  <2> QED
    BY <1>1, <1>2, <2>2
<1>6. CASE IsReturned(j)
  <2>1. job'[j].status = "queued"
    BY <1>1, <1>6 DEF IsReturned, SetStatus, JobRecord
  <2> QED
    BY <2>1
<1>7. CASE IsFailed(j)
  <2>1. PICK c, t : job'[j] = Fail(job[j], c, t)
    BY <1>7 DEF IsFailed
  <2> QED
    BY <1>1, <2>1, RecordFields
<1>8. CASE IsCompleted(j)
  BY <1>1, <1>8 DEF IsCompleted, SetStatus, JobRecord
<1>9. CASE IsRemoved(j)
  BY <1>9 DEF IsRemoved, NoRecord
<1>10. CASE IsEntered(j)
  <2>1. PICK t : \E u \in Upload : job'[j] = Submitted(u, seq + 1, t)
    BY <1>10 DEF IsEntered
  <2> QED
    BY <2>1 DEF Submitted, SetStatus, NoRecord
<1> QED
  BY <1>1, <1>3, <1>4, <1>5, <1>6, <1>7, <1>8, <1>9, <1>10 DEF MovesOn

\* The lease that an answer to a claim or a renewal grants.
LEMMA GrantFloor ==
    ASSUME Types, NEW c, c.sent \in Int, c.sent <= clock, NEW j \in Job,
           \/ c.kind = "claim" /\ HandleClaim("ok", j)
           \/ c.kind = "heartbeat" /\ j = c.job /\ HandleHeartbeat(c, "ok")
    PROVE  \A k : Floor(job', j, k, c.sent)
<1> USE TimeConstants
<1>1. job \in [Job -> JobRecord] /\ clock \in Nat
  BY DEF Types, TypeOK, Time
<1>2. \E t \in RecentPast : job'[j].lease = t + Lease
  <2>1. CASE HandleClaim("ok", j)
    <3>1. PICK t \in RecentPast : ClaimWith(j, t)
      BY <2>1 DEF HandleClaim
    <3>2. job'[j] = Leasing(job[j], t)
      BY <3>1 DEF ClaimWith
    <3> QED
      BY <1>1, <3>2 DEF Leasing, SetStatus, JobRecord
  <2>2. CASE j = c.job /\ HandleHeartbeat(c, "ok")
    <3>1. PICK t \in RecentPast : Heartbeat(c.job, c.token, t)
      BY <2>2 DEF HandleHeartbeat, Fenced
    <3> QED
      BY <1>1, <2>2, <3>1 DEF Heartbeat, JobRecord
  <2> QED
    BY <2>1, <2>2
<1>3. PICK t \in RecentPast : job'[j].lease = t + Lease
  BY <1>2
<1>4. t \in Nat /\ clock <= t + Skew
  BY <1>1 DEF RecentPast
<1> QED
  BY <1>1, <1>3, <1>4 DEF Floor

-----------------------------------------------------------------------------
(* The steps of a worker *)

\* What is known of a worker, its calls and the clock.
LEMMA TimelyFacts ==
    ASSUME Types, Local, Timely, NEW w \in Worker
    PROVE  /\ TimelyOK(worker[w], line[w]["execute"], line[w]["renew"], clock, job)
           /\ HeartOK(worker[w], line[w]["renew"], clock)
           /\ PlaceOK(worker[w], line[w]["execute"], clock)
           /\ ProgressOK(worker[w], line[w]["execute"], clock)
           /\ FloorOK(worker[w], line[w]["execute"], line[w]["renew"], job)
           /\ clock \in Nat /\ worker[w].progress \in Nat /\ worker[w].due \in Nat
           /\ worker[w].renewed \in Nat /\ worker[w].misses \in Nat
           /\ worker[w].tries \in 0 .. Attempts /\ worker[w].tries \in Nat
           /\ worker[w].wake \in Nat
           /\ line[w]["execute"].sent \in Nat /\ line[w]["renew"].sent \in Nat
<1>1. worker[w] \in WorkerRecord /\ \A k \in Task : line[w][k] \in CallRecord
  BY WorkerFacts
<1>2. clock \in Nat /\ Time \subseteq Nat
  BY DEF Types, TypeOK, Time
<1>3. /\ worker[w].progress \in Nat /\ worker[w].due \in Nat
      /\ worker[w].renewed \in Nat /\ worker[w].misses \in Nat
      /\ worker[w].tries \in 0 .. Attempts /\ worker[w].tries \in Nat
      /\ worker[w].wake \in Nat
  <2>1. /\ worker[w].progress \in Time /\ worker[w].due \in Nat
        /\ worker[w].renewed \in Nat /\ worker[w].misses \in Nat
        /\ worker[w].tries \in 0 .. Attempts /\ worker[w].wake \in Nat
    BY <1>1 DEF WorkerRecord
  <2>2. worker[w].tries \in Nat
    BY <2>1, TimeConstants
  <2>3. worker[w].progress \in Nat
    BY <1>2, <2>1
  <2> QED
    BY <2>1, <2>2, <2>3
<1>4. line[w]["execute"].sent \in Nat /\ line[w]["renew"].sent \in Nat
  BY <1>1, <1>2 DEF CallRecord, Task
<1> QED
  BY <1>2, <1>3, <1>4 DEF Timely, TimelyOK

LEMMA CallFacts ==
    ASSUME NEW kind, NEW r
    PROVE  /\ Call(kind, r).kind = kind /\ Call(kind, r).job = r.job
           /\ Call(kind, r).token = r.token /\ Call(kind, r).body = r.body
           /\ Call(kind, r).sent = clock /\ Call(kind, r).answer = "pending"
           /\ Call(kind, r) # NoCall /\ NoCall.answer = "none"
BY DEF Call, NoCall

\* A worker and its calls change; nothing else does.
LEMMA ChangeTimely ==
    ASSUME Timely, UNCHANGED vars, NEW w \in Worker,
           \A v \in Worker : v # w => worker'[v] = worker[v] /\ line'[v] = line[v],
           TimelyOK(worker'[w], line'[w]["execute"], line'[w]["renew"], clock, job)
    PROVE  Timely'
BY DEF Timely, vars

LEMMA ResumeFacts ==
    ASSUME Local, NEW w \in Worker, NEW k \in Task, NEW r, NEW c, Resume(w, k, r, c)
    PROVE  /\ worker'[w] = r /\ line'[w][k] = c
           /\ \A i \in Task : i # k => line'[w][i] = line[w][i]
           /\ \A v \in Worker : v # w => worker'[v] = worker[v] /\ line'[v] = line[v]
BY DEF Resume, Line, Local

\* execute goes on: renew does not notice.
LEMMA ExecuteTimely ==
    ASSUME Types, Local, Timely, UNCHANGED vars, NEW w \in Worker, NEW r, NEW c,
           worker'[w] = r, line'[w]["execute"] = c,
           line'[w]["renew"] = line[w]["renew"],
           \A v \in Worker : v # w => worker'[v] = worker[v] /\ line'[v] = line[v],
           r.heart = worker[w].heart, r.job = worker[w].job,
           r.token = worker[w].token, r.due = worker[w].due,
           r.renewed = worker[w].renewed, r.misses = worker[w].misses,
           c.answer # "ok",
           PlaceOK(r, c, clock), ProgressOK(r, c, clock)
    PROVE  Timely'
<1>1. HeartOK(r, line[w]["renew"], clock)
  BY TimelyFacts DEF HeartOK
<1>2. FloorOK(r, c, line[w]["renew"], job)
  BY TimelyFacts DEF FloorOK
<1>3. TimelyOK(r, c, line[w]["renew"], clock, job)
  BY <1>1, <1>2 DEF TimelyOK
<1> QED
  BY <1>3, ChangeTimely

\* renew goes on: execute does not notice.
LEMMA RenewTimely ==
    ASSUME Types, Local, Timely, UNCHANGED vars, NEW w \in Worker, NEW r, NEW d,
           Resume(w, "renew", r, d), worker[w].heart # "off",
           r.pc = worker[w].pc, r.job = worker[w].job, r.token = worker[w].token,
           r.body = worker[w].body, r.tries = worker[w].tries,
           r.wake = worker[w].wake,
           r.stuck = worker[w].stuck, r.stopping = worker[w].stopping,
           r.progress = worker[w].progress, worker[w].cancel => r.cancel,
           d.answer # "ok", HeartOK(r, d, clock),
           r.heart # "off" /\ r.misses = 0
             => Floor(job, r.job, r.token, r.due - Period - (Timeout - 1))
    PROVE  Timely'
<1> DEFINE c == line[w]["execute"]
<1>1. PlaceOK(r, c, clock)
  BY TimelyFacts DEF PlaceOK
<1>2. ProgressOK(r, c, clock)
  BY TimelyFacts DEF ProgressOK, ReportsOK
<1>3. FloorOK(r, c, d, job)
  BY TimelyFacts DEF FloorOK
<1>4. /\ worker'[w] = r /\ line'[w]["renew"] = d /\ line'[w]["execute"] = c
      /\ \A v \in Worker : v # w => worker'[v] = worker[v] /\ line'[v] = line[v]
  BY ResumeFacts DEF Task
<1>5. TimelyOK(r, c, d, clock, job)
  BY <1>1, <1>2, <1>3 DEF TimelyOK
<1> HIDE DEF c
<1> QED
  BY <1>4, <1>5, ChangeTimely

LEMMA IdleTimely ==
    ASSUME NEW now, NEW jobs
    PROVE  TimelyOK(Idle, NoCall, NoCall, now, jobs)
BY DEF TimelyOK, HeartOK, PlaceOK, ProgressOK, FloorOK, Idle, NoCall

LEMMA EndTimely ==
    ASSUME Local, Timely, UNCHANGED vars, NEW w \in Worker, End(w)
    PROVE  Timely'
<1>1. /\ worker'[w] = Idle
      /\ line'[w]["execute"] = NoCall /\ line'[w]["renew"] = NoCall
      /\ \A v \in Worker : v # w => worker'[v] = worker[v] /\ line'[v] = line[v]
  BY DEF End, Line, Local, Task
<1> QED
  BY <1>1, IdleTimely, ChangeTimely

LEMMA ComplainTimely ==
    ASSUME Types, Local, Timely, UNCHANGED vars, NEW w \in Worker,
           worker[w].pc \notin {"idle", "claiming"},
           ~worker[w].stuck, ~worker[w].stopping,
           clock <= worker[w].progress + Slack,
           worker[w].pc \notin Reporting \/ line[w]["execute"] # NoCall,
           NEW body \in {"retry", "fatal"}, Complain(w, body)
    PROVE  Timely'
<1> DEFINE r == [worker[w] EXCEPT !.pc = "failing", !.body = body, !.tries = 0]
<1>1. CASE End(w)
  BY <1>1, EndTimely
<1>2. CASE Resume(w, "execute", r, NoCall)
  <2>1. worker[w] \in WorkerRecord
    BY WorkerFacts
  <2>2. /\ r.pc = "failing" /\ r.body = body /\ r.tries = 0
        /\ r.heart = worker[w].heart /\ r.job = worker[w].job
        /\ r.token = worker[w].token /\ r.due = worker[w].due
        /\ r.renewed = worker[w].renewed /\ r.misses = worker[w].misses
        /\ r.stuck = worker[w].stuck /\ r.stopping = worker[w].stopping
        /\ r.progress = worker[w].progress /\ r.wake = worker[w].wake
    BY <2>1 DEF WorkerRecord
  <2> HIDE DEF r
  <2>3. worker[w].wake = 0
    BY TimelyFacts DEF PlaceOK
  <2>4. PlaceOK(r, NoCall, clock)
    BY <2>2, <2>3, CallFacts DEF PlaceOK
  <2>5. ProgressOK(r, NoCall, clock)
    BY <2>2, <2>3, TimelyFacts, SeriesFacts, SlackFacts DEF ProgressOK, ReportsOK
  <2> QED
    BY <1>2, <2>2, <2>4, <2>5, ResumeFacts, CallFacts, ExecuteTimely DEF Task
<1> QED
  BY <1>1, <1>2 DEF Complain

LEMMA PollTimely ==
    ASSUME Types, Local, Timely, NEW w \in Worker,
           Poll(w) \/ PollAgain(w) \/ Interrupted(w) \/ Die(w) \/ Probe(w)
    PROVE  Timely'
<1>1. UNCHANGED vars
  BY DEF Poll, PollAgain, Interrupted, Die, Probe
<1>2. CASE End(w)
  BY <1>1, <1>2, EndTimely
<1>3. CASE Poll(w)
  <2> DEFINE r == [worker[w] EXCEPT !.pc = "claiming"]
             c == Call("claim", worker[w])
  <2>1. worker[w] \in WorkerRecord
    BY WorkerFacts
  <2>2. /\ r.pc = "claiming"
        /\ r.heart = worker[w].heart /\ r.job = worker[w].job
        /\ r.token = worker[w].token /\ r.due = worker[w].due
        /\ r.renewed = worker[w].renewed /\ r.misses = worker[w].misses
        /\ r.stuck = worker[w].stuck /\ r.stopping = worker[w].stopping
        /\ r.cancel = worker[w].cancel /\ r.wake = worker[w].wake
    BY <2>1 DEF WorkerRecord
  <2>3. Resume(w, "execute", r, c) /\ worker[w].pc = "idle"
    BY <1>3 DEF Poll
  <2>4. c.sent = clock /\ c.answer = "pending" /\ c # NoCall
    BY CallFacts
  <2> HIDE DEF r, c
  <2>5. PlaceOK(r, c, clock)
    BY <2>2, <2>3, <2>4, TimelyFacts, TimeConstants DEF PlaceOK, Reporting
  <2>6. ProgressOK(r, c, clock)
    BY <2>2 DEF ProgressOK
  <2> QED
    BY <1>1, <2>2, <2>3, <2>4, <2>5, <2>6, ResumeFacts, ExecuteTimely DEF Task
<1> QED
  BY <1>2, <1>3 DEF PollAgain, Interrupted, Die, Probe

LEMMA BeginTimely ==
    ASSUME Types, Local, Timely, NEW w \in Worker, Begin(w)
    PROVE  Timely'
<1> DEFINE c == line[w]["execute"]
           d == line[w]["renew"]
           r == [Idle EXCEPT !.pc = "fetching", !.job = c.job, !.token = c.token,
                             !.progress = clock, !.heart = "asleep",
                             !.due = clock + Period, !.renewed = clock]
           call == Call("audio", r)
<1>1. /\ worker[w].pc = "claiming" /\ c.answer = "ok" /\ clock < c.sent + Timeout
      /\ Resume(w, "execute", r, call) /\ UNCHANGED vars
  BY DEF Begin, Answered, InTime
<1>2. /\ r.pc = "fetching" /\ r.job = c.job /\ r.token = c.token
      /\ r.progress = clock /\ r.heart = "asleep" /\ r.due = clock + Period
      /\ r.renewed = clock /\ r.stuck = FALSE /\ r.stopping = FALSE
      /\ r.misses = 0 /\ r.wake = 0
  BY DEF Idle
<1> HIDE DEF r
<1>3. /\ call.kind = "audio" /\ call.job = r.job /\ call.token = r.token
      /\ call.sent = clock /\ call.answer = "pending" /\ call # NoCall
  BY CallFacts
<1>4. c # NoCall /\ c.kind = "claim"
  BY <1>1, WorkerFacts, CallFacts DEF AwaitOK
<1>5. d = NoCall
  BY <1>1, TimelyFacts DEF PlaceOK, HeartOK
<1>6. Floor(job, c.job, c.token, c.sent)
  BY <1>1, <1>4, TimelyFacts DEF FloorOK
<1> HIDE DEF c, d, call
<1>7. HeartOK(r, d, clock)
  BY <1>2, <1>5, TimelyFacts, TimeConstants DEF HeartOK
<1>8. PlaceOK(r, call, clock)
  BY <1>2, <1>3, TimelyFacts, TimeConstants DEF PlaceOK
<1>9. ProgressOK(r, call, clock)
  BY <1>2 DEF ProgressOK
<1>10. Floor(job, r.job, r.token, r.due - Period - (Timeout - 1))
  <2>1. c.sent \in Nat /\ clock \in Nat
    BY TimelyFacts DEF c
  <2>2. r.due - Period - (Timeout - 1) <= c.sent
    BY <1>1, <1>2, <2>1, TimeConstants
  <2>3. job[r.job].status = "processing" /\ job[r.job].token = r.token
        => r.job \in Job /\ job[r.job].lease \in Nat
    <3>1. c.job \in Job
      BY <1>1, <1>4, WorkerFacts DEF CallOK, c
    <3> QED
      BY <1>2, <3>1 DEF Types, TypeOK, JobRecord
  <2> QED
    BY <1>2, <1>6, <2>1, <2>2, <2>3, TimeConstants DEF Floor
<1>11. FloorOK(r, call, d, job)
  BY <1>3, <1>5, <1>10, CallFacts DEF FloorOK
<1>12. TimelyOK(r, call, d, clock, job)
  BY <1>7, <1>8, <1>9, <1>11 DEF TimelyOK
<1>13. /\ worker'[w] = r /\ line'[w]["execute"] = call /\ line'[w]["renew"] = d
       /\ \A v \in Worker : v # w => worker'[v] = worker[v] /\ line'[v] = line[v]
  BY <1>1, ResumeFacts DEF Task, d
<1> QED
  BY <1>1, <1>12, <1>13, ChangeTimely

LEMMA FetchTimely ==
    ASSUME Types, Local, Timely, NEW w \in Worker, Fetched(w)
    PROVE  Timely'
<1> DEFINE c == line[w]["execute"]
<1>1. worker[w].pc = "fetching" /\ UNCHANGED vars
  BY DEF Fetched
<1>2. clock <= worker[w].progress + Timeout
  BY <1>1, TimelyFacts, TimeConstants DEF PlaceOK
<1>3. ~worker[w].stuck /\ ~worker[w].stopping
  BY <1>1, TimelyFacts DEF PlaceOK
<1>4. CASE Complain(w, "retry")
  BY <1>1, <1>2, <1>3, <1>4, TimelyFacts, SlackFacts, TimeConstants, ComplainTimely
     DEF Reporting
<1>5. CASE Resume(w, "execute", [worker[w] EXCEPT !.pc = "receiving"], NoCall)
  <2> DEFINE r == [worker[w] EXCEPT !.pc = "receiving"]
  <2>1. worker[w] \in WorkerRecord
    BY WorkerFacts
  <2>2. /\ r.pc = "receiving"
        /\ r.heart = worker[w].heart /\ r.job = worker[w].job
        /\ r.token = worker[w].token /\ r.due = worker[w].due
        /\ r.renewed = worker[w].renewed /\ r.misses = worker[w].misses
        /\ r.stuck = worker[w].stuck /\ r.stopping = worker[w].stopping
        /\ r.cancel = worker[w].cancel /\ r.progress = worker[w].progress
        /\ r.wake = worker[w].wake
    BY <2>1 DEF WorkerRecord
  <2>3. Resume(w, "execute", r, NoCall)
    BY <1>5
  <2> HIDE DEF r
  <2>4. PlaceOK(r, NoCall, clock)
    BY <1>1, <1>3, <2>2, TimelyFacts, CallFacts DEF PlaceOK, Reporting
  <2>5. ProgressOK(r, NoCall, clock)
    BY <1>2, <2>2, TimelyFacts, TimeConstants DEF ProgressOK
  <2> QED
    BY <1>1, <2>2, <2>3, <2>4, <2>5, ResumeFacts, CallFacts, ExecuteTimely DEF Task
<1> QED
  BY <1>1, <1>4, <1>5, EndTimely DEF Fetched

\* The call that execute does not wait for stays as it is.
LEMMA KeepsTimely ==
    ASSUME Types, Local, Timely, UNCHANGED <<vars, line>>, NEW w \in Worker, NEW r,
           worker' = [worker EXCEPT ![w] = r],
           worker[w].pc \in {"receiving", "inferring"},
           r.heart = worker[w].heart, r.job = worker[w].job,
           r.token = worker[w].token, r.due = worker[w].due,
           r.renewed = worker[w].renewed, r.misses = worker[w].misses,
           PlaceOK(r, NoCall, clock), ProgressOK(r, NoCall, clock)
    PROVE  Timely'
<1>1. line[w]["execute"] = NoCall
  BY TimelyFacts DEF PlaceOK
<1>2. /\ worker'[w] = r /\ line' = line
      /\ \A v \in Worker : v # w => worker'[v] = worker[v]
  BY DEF Local
<1> QED
  BY <1>1, <1>2, CallFacts, ExecuteTimely

LEMMA InferTimely ==
    ASSUME Types, Local, Timely, NEW w \in Worker,
           Receive(w) \/ Infer(w) \/ Inferred(w) \/ Stick(w) \/ Stop(w)
    PROVE  Timely'
<1>1. /\ UNCHANGED vars /\ worker[w].pc \in {"receiving", "inferring"}
      /\ worker[w] \in WorkerRecord
  BY WorkerFacts DEF Receive, Infer, Inferred, Stick, Stop
<1> DEFINE same(r) ==
      /\ r.heart = worker[w].heart /\ r.job = worker[w].job
      /\ r.token = worker[w].token /\ r.due = worker[w].due
      /\ r.renewed = worker[w].renewed /\ r.misses = worker[w].misses
      /\ r.wake = 0
<1>2. worker[w].wake = 0 /\ worker[w].pc \notin Reporting
  BY <1>1, TimelyFacts DEF PlaceOK, Reporting
<1>3. CASE \E body \in {"retry", "fatal"} : Complain(w, body) /\ ~worker[w].stuck
                                              /\ ~worker[w].stopping
  <2>1. clock <= worker[w].progress + Slack
    BY <1>1, <1>3, TimelyFacts, SlackFacts, TimeConstants DEF ProgressOK
  <2> QED
    BY <1>1, <1>2, <1>3, <2>1, ComplainTimely
<1>4. worker[w].pc = "receiving" => ~worker[w].stuck /\ ~worker[w].stopping
  BY TimelyFacts DEF PlaceOK
<1>5. ~worker[w].cancel => ~worker[w].stopping
  BY TimelyFacts DEF PlaceOK
<1>6. CASE Receive(w)
  <2>1. CASE worker' = [worker EXCEPT ![w].progress = clock] /\ UNCHANGED line
    <3> DEFINE r == [worker[w] EXCEPT !.progress = clock]
    <3>1. /\ same(r) /\ r.pc = "receiving" /\ r.stuck = worker[w].stuck
          /\ r.stopping = worker[w].stopping /\ r.progress = clock
      BY <1>1, <1>2, <1>6 DEF Receive, WorkerRecord
    <3>2. worker' = [worker EXCEPT ![w] = r]
      BY <2>1 DEF Local
    <3> HIDE DEF r
    <3>3. PlaceOK(r, NoCall, clock)
      BY <1>4, <1>6, <3>1, CallFacts DEF PlaceOK, Receive
    <3>4. ProgressOK(r, NoCall, clock)
      BY <3>1, TimelyFacts, TimeConstants DEF ProgressOK
    <3> QED
      BY <1>1, <2>1, <3>1, <3>2, <3>3, <3>4, KeepsTimely
  <2>2. CASE worker' = [worker EXCEPT ![w].pc = "inferring"] /\ UNCHANGED line
    <3> DEFINE r == [worker[w] EXCEPT !.pc = "inferring"]
    <3>1. /\ same(r) /\ r.pc = "inferring" /\ r.stuck = worker[w].stuck
          /\ r.stopping = worker[w].stopping /\ r.progress = worker[w].progress
      BY <1>1, <1>2 DEF WorkerRecord
    <3>2. worker' = [worker EXCEPT ![w] = r]
      BY <2>2 DEF Local
    <3> HIDE DEF r
    <3>3. PlaceOK(r, NoCall, clock)
      BY <1>4, <1>6, <3>1, CallFacts DEF PlaceOK, Receive
    <3>4. ProgressOK(r, NoCall, clock)
      BY <1>6, <3>1, TimelyFacts, TimeConstants, SlackFacts DEF ProgressOK, Receive
    <3> QED
      BY <1>1, <2>2, <3>1, <3>2, <3>3, <3>4, KeepsTimely
  <2> QED
    BY <1>3, <1>4, <1>5, <1>6, <2>1, <2>2 DEF Receive
<1>7. CASE Infer(w)
  <2> DEFINE r == [worker[w] EXCEPT !.progress = clock, !.stuck = FALSE]
  <2>1. /\ same(r) /\ r.pc = "inferring" /\ r.stuck = FALSE
        /\ r.stopping = worker[w].stopping /\ r.progress = clock
    BY <1>1, <1>2, <1>7 DEF Infer, WorkerRecord
  <2>2. worker' = [worker EXCEPT ![w] = r] /\ UNCHANGED line
    BY <1>7 DEF Infer, Local
  <2> HIDE DEF r
  <2>3. PlaceOK(r, NoCall, clock)
    BY <1>5, <1>7, <2>1, CallFacts DEF PlaceOK, Infer
  <2>4. ProgressOK(r, NoCall, clock)
    BY <2>1, TimelyFacts, SlackFacts DEF ProgressOK
  <2> QED
    BY <1>1, <2>1, <2>2, <2>3, <2>4, KeepsTimely
<1>8. CASE Inferred(w)
  <2>1. CASE \E body \in {"result", "invalid"} :
               Resume(w, "execute", [worker[w] EXCEPT !.pc = "committing",
                                       !.body = body, !.progress = clock], NoCall)
    <3>1. PICK body \in {"result", "invalid"} :
               Resume(w, "execute", [worker[w] EXCEPT !.pc = "committing",
                                       !.body = body, !.progress = clock], NoCall)
      BY <2>1
    <3> DEFINE r == [worker[w] EXCEPT !.pc = "committing", !.body = body,
                                      !.progress = clock]
    <3>2. /\ same(r) /\ r.pc = "committing" /\ r.stuck = worker[w].stuck
          /\ r.stopping = worker[w].stopping /\ r.progress = clock
          /\ r.tries = worker[w].tries
      BY <1>1, <1>2 DEF WorkerRecord
    <3>3. worker[w].tries = 0
      BY <1>1, WorkerFacts DEF WorkerOK, Reporting
    <3>4. Resume(w, "execute", r, NoCall)
      BY <3>1
    <3> HIDE DEF r
    <3>5. PlaceOK(r, NoCall, clock)
      BY <1>5, <1>8, <3>2, CallFacts DEF PlaceOK, Inferred
    <3>6. ProgressOK(r, NoCall, clock)
      BY <3>2, <3>3, TimelyFacts, SeriesFacts DEF ProgressOK, ReportsOK
    <3> QED
      BY <1>1, <3>2, <3>4, <3>5, <3>6, ResumeFacts, CallFacts, ExecuteTimely DEF Task
  <2> QED
    BY <1>3, <1>5, <1>8, <2>1 DEF Inferred
<1>9. CASE Stick(w)
  <2> DEFINE r == [worker[w] EXCEPT !.stuck = TRUE]
  <2>1. /\ same(r) /\ r.pc = "inferring" /\ r.stuck
        /\ r.stopping = worker[w].stopping /\ r.cancel = worker[w].cancel
    BY <1>1, <1>2, <1>9 DEF Stick, WorkerRecord
  <2>2. worker' = [worker EXCEPT ![w] = r] /\ UNCHANGED line
    BY <1>9 DEF Stick, Local
  <2> HIDE DEF r
  <2>3. PlaceOK(r, NoCall, clock)
    BY <2>1, TimelyFacts, CallFacts DEF PlaceOK
  <2>4. ProgressOK(r, NoCall, clock)
    BY <2>1 DEF ProgressOK
  <2> QED
    BY <1>1, <2>1, <2>2, <2>3, <2>4, KeepsTimely
<1>10. CASE Stop(w)
  <2> DEFINE r == [worker[w] EXCEPT !.stopping = TRUE, !.cancel = TRUE]
  <2>1. /\ same(r) /\ r.pc = "inferring" /\ r.stuck = worker[w].stuck
        /\ r.cancel /\ r.progress = worker[w].progress
    BY <1>1, <1>2, <1>10 DEF Stop, WorkerRecord
  <2>2. worker' = [worker EXCEPT ![w] = r] /\ UNCHANGED line
    BY <1>10 DEF Stop, Local
  <2> HIDE DEF r
  <2>3. PlaceOK(r, NoCall, clock)
    BY <2>1, CallFacts DEF PlaceOK
  <2>4. ProgressOK(r, NoCall, clock)
    BY <1>10, <2>1, TimelyFacts DEF ProgressOK, Stop
  <2> QED
    BY <1>1, <2>1, <2>2, <2>3, <2>4, KeepsTimely
<1> QED
  BY <1>6, <1>7, <1>8, <1>9, <1>10

\* A call of a report is over, or will be, by the end of its series.
LEMMA ReportedOK ==
    ASSUME Types, Local, Timely, NEW w \in Worker, worker[w].pc \in Reporting,
           line[w]["execute"] # NoCall
    PROVE  /\ worker[w].tries \in 1 .. Attempts
           /\ worker[w].pc = "committing" =>
                 clock <= worker[w].progress + Series(worker[w].tries)
           /\ worker[w].pc = "failing" =>
                 clock <= worker[w].progress + Slack + Series(worker[w].tries)
           /\ worker[w].pc = "committing" => clock <= worker[w].progress + Slack
           /\ ~worker[w].stuck /\ ~worker[w].stopping
<1>1. clock <= line[w]["execute"].sent + Timeout
  BY TimelyFacts DEF PlaceOK
<1>2. worker[w].tries \in 1 .. Attempts
  <2>1. worker[w].tries # 0
    BY WorkerFacts DEF AwaitOK
  <2> QED
    BY <2>1, TimelyFacts, TimeConstants
<1>3. /\ Series(worker[w].tries) \in Nat /\ Series(Attempts) \in Nat
      /\ Series(worker[w].tries) <= Series(Attempts)
  BY <1>2, SeriesFacts
<1>4. ~worker[w].stuck /\ ~worker[w].stopping
  BY TimelyFacts DEF PlaceOK, Reporting
<1>5. CASE worker[w].pc = "committing"
  BY <1>1, <1>2, <1>3, <1>4, <1>5, TimelyFacts, TimeConstants, SlackFacts
     DEF ProgressOK, ReportsOK
<1>6. CASE worker[w].pc = "failing"
  BY <1>1, <1>2, <1>3, <1>4, <1>6, TimelyFacts, TimeConstants, SlackFacts
     DEF ProgressOK, ReportsOK
<1> QED
  BY <1>5, <1>6 DEF Reporting

LEMMA PostTimely ==
    ASSUME Types, Local, Timely, NEW w \in Worker, Post(w)
    PROVE  Timely'
<1> DEFINE r == [worker[w] EXCEPT !.tries = @ + 1, !.wake = 0]
           c == Call("complete", worker[w])
<1>1. /\ worker[w].pc \in Reporting /\ UNCHANGED vars
      /\ line[w]["execute"] = NoCall /\ Resume(w, "execute", r, c)
  BY DEF Post, Reporting
<1>2. worker[w] \in WorkerRecord
  BY WorkerFacts
<1>3. /\ r.heart = worker[w].heart /\ r.job = worker[w].job
      /\ r.token = worker[w].token /\ r.due = worker[w].due
      /\ r.renewed = worker[w].renewed /\ r.misses = worker[w].misses
      /\ r.pc = worker[w].pc /\ r.stuck = worker[w].stuck
      /\ r.stopping = worker[w].stopping /\ r.progress = worker[w].progress
      /\ r.body = worker[w].body /\ r.cancel = worker[w].cancel
      /\ r.tries = worker[w].tries + 1 /\ r.wake = 0
  BY <1>2 DEF WorkerRecord
<1>4. c.sent = clock /\ c.answer = "pending" /\ c # NoCall
  BY CallFacts
<1> HIDE DEF r, c
<1>5. PlaceOK(r, c, clock)
  BY <1>1, <1>3, <1>4, TimelyFacts, TimeConstants DEF PlaceOK, Reporting
<1>6. worker[w].tries \in 0 .. Attempts - 1
  BY <1>1, WorkerFacts, NoCallOK, TimelyFacts, TimeConstants DEF AwaitOK
<1>7. /\ Posts(worker[w].tries) \in Nat
      /\ Series(r.tries) = Posts(worker[w].tries) + Timeout
  BY <1>3, <1>6, SeriesFacts
<1>8. ProgressOK(r, c, clock)
  BY <1>1, <1>3, <1>4, <1>6, <1>7, TimelyFacts, TimeConstants, SlackFacts
     DEF ProgressOK, ReportsOK, Reporting
<1> QED
  BY <1>1, <1>3, <1>4, <1>5, <1>8, ResumeFacts, ExecuteTimely DEF Task

LEMMA PostedTimely ==
    ASSUME Types, Local, Timely, NEW w \in Worker, Posted(w) \/ PostFails(w)
    PROVE  Timely'
<1> DEFINE c == line[w]["execute"]
<1>1. /\ UNCHANGED vars /\ worker[w].pc \in Reporting /\ c # NoCall
      /\ worker[w] \in WorkerRecord
  BY WorkerFacts, CallFacts DEF Posted, PostFails, Reporting, Answered, Failed
<1>2. CASE End(w)
  BY <1>1, <1>2, EndTimely
<1>3. CASE worker[w].pc = "committing" /\ \E body \in {"retry", "fatal"} : Complain(w, body)
  BY <1>1, <1>3, ReportedOK, ComplainTimely
<1>4. ASSUME c.answer = "refused" PROVE worker[w].pc = "committing"
  <2>1. c.body = "invalid" /\ c.body = worker[w].body
    BY <1>1, <1>4, TimelyFacts, WorkerFacts DEF PlaceOK, AwaitOK
  <2> QED
    BY <1>1, <2>1, TimelyFacts DEF PlaceOK, Reporting
<1> DEFINE r == [worker[w] EXCEPT !.wake = clock + Pause[worker[w].tries]]
<1>5. CASE PostFails(w) /\ Resume(w, "execute", r, NoCall)
  <2>1. /\ r.pc = worker[w].pc /\ r.body = worker[w].body
        /\ r.heart = worker[w].heart /\ r.job = worker[w].job
        /\ r.token = worker[w].token /\ r.due = worker[w].due
        /\ r.renewed = worker[w].renewed /\ r.misses = worker[w].misses
        /\ r.stuck = worker[w].stuck /\ r.stopping = worker[w].stopping
        /\ r.cancel = worker[w].cancel /\ r.progress = worker[w].progress
        /\ r.tries = worker[w].tries
        /\ r.wake = clock + Pause[worker[w].tries]
    BY <1>1 DEF WorkerRecord
  <2> HIDE DEF r
  <2>2. PlaceOK(r, NoCall, clock)
    BY <1>1, <2>1, TimelyFacts, CallFacts DEF PlaceOK, Reporting
  <2>3. /\ worker[w].tries \in 1 .. Attempts /\ Pause[worker[w].tries] \in Nat
        /\ Series(worker[w].tries) \in Nat
        /\ Posts(r.tries) = Series(worker[w].tries) + Pause[worker[w].tries]
    BY <1>1, <2>1, ReportedOK, SeriesFacts
  <2>4. ProgressOK(r, NoCall, clock)
    BY <1>1, <2>1, <2>3, ReportedOK, TimelyFacts, SlackFacts
       DEF ProgressOK, ReportsOK, Reporting
  <2> QED
    BY <1>1, <1>5, <2>1, <2>2, <2>4, ResumeFacts, CallFacts, ExecuteTimely DEF Task
<1> QED
  BY <1>1, <1>2, <1>3, <1>4, <1>5 DEF Posted, PostFails, Answered

-----------------------------------------------------------------------------
(* The renewals *)

LEMMA RenewsTimely ==
    ASSUME Types, Local, Timely, NEW w \in Worker, RenewNext(w)
    PROVE  Timely'
<1> DEFINE d == line[w]["renew"]
           same(r) ==
             /\ r.pc = worker[w].pc /\ r.job = worker[w].job
             /\ r.token = worker[w].token /\ r.body = worker[w].body
             /\ r.tries = worker[w].tries /\ r.stuck = worker[w].stuck
             /\ r.wake = worker[w].wake
             /\ r.stopping = worker[w].stopping /\ r.progress = worker[w].progress
             /\ worker[w].cancel => r.cancel
<1>1. /\ UNCHANGED vars /\ worker[w].heart # "off" /\ worker[w] \in WorkerRecord
  BY WorkerFacts DEF RenewNext, Wake, Renewed, RenewFails
<1>2. ASSUME NEW r, r \in {worker[w], [worker[w] EXCEPT !.misses = @ + 1]},
             Resume(w, "renew", Cancelled(r), NoCall)
      PROVE  Timely'
  <2> DEFINE q == Cancelled(r)
  <2>1. same(q) /\ q.heart = "off"
    BY <1>1, <1>2 DEF WorkerRecord, Cancelled
  <2>2. Resume(w, "renew", q, NoCall)
    BY <1>2
  <2> HIDE DEF q
  <2>3. HeartOK(q, NoCall, clock)
    BY <2>1 DEF HeartOK
  <2> QED
    BY <1>1, <2>1, <2>2, <2>3, CallFacts, RenewTimely
<1>3. CASE Wake(w)
  <2> DEFINE r == [worker[w] EXCEPT !.heart = "asking"]
             q == [worker[w] EXCEPT !.body = "none"]
             c == Call("heartbeat", q)
  <2>1. CASE Resume(w, "renew", r, c)
    <3>1. /\ same(r) /\ r.heart = "asking" /\ r.due = worker[w].due
          /\ r.renewed = worker[w].renewed /\ r.misses = worker[w].misses
      BY <1>1 DEF WorkerRecord
    <3>2. q.job = worker[w].job /\ q.token = worker[w].token
      BY <1>1 DEF WorkerRecord
    <3> HIDE DEF r, q
    <3>3. /\ c.kind = "heartbeat" /\ c.job = worker[w].job
          /\ c.token = worker[w].token /\ c.sent = clock /\ c # NoCall
          /\ c.answer = "pending"
      BY <3>2, CallFacts
    <3> HIDE DEF c
    <3>4. clock = worker[w].due
      BY <1>3, TimelyFacts DEF Wake, HeartOK
    <3>5. HeartOK(r, c, clock)
      BY <1>1, <3>1, <3>3, <3>4, TimelyFacts, TimeConstants DEF HeartOK
    <3>6. r.heart # "off" /\ r.misses = 0
             => Floor(job, r.job, r.token, r.due - Period - (Timeout - 1))
      BY <1>1, <3>1, TimelyFacts DEF FloorOK
    <3> QED
      BY <1>1, <2>1, <3>1, <3>3, <3>5, <3>6, RenewTimely
  <2> QED
    BY <1>2, <1>3, <2>1 DEF Wake
<1>4. CASE Renewed(w)
  <2> DEFINE r == [Asleep(worker[w]) EXCEPT !.renewed = d.sent, !.misses = 0]
  <2>1. CASE Answered(w, "renew", "ok") /\ Resume(w, "renew", r, NoCall)
    <3>1. /\ same(r) /\ r.heart = "asleep" /\ r.due = clock + Period
          /\ r.renewed = d.sent /\ r.misses = 0
      BY <1>1 DEF WorkerRecord, Asleep
    <3>2. d.answer = "ok" /\ clock < d.sent + Timeout
      BY <2>1 DEF Answered, InTime
    <3>3. d.job = worker[w].job /\ d.token = worker[w].token
      BY <1>4, TimelyFacts DEF Renewed, HeartOK
    <3>4. Floor(job, d.job, d.token, d.sent)
      BY <3>2, TimelyFacts DEF FloorOK
    <3>5. d.sent \in Nat /\ clock \in Nat
      BY TimelyFacts
    <3> HIDE DEF r, d
    <3>6. HeartOK(r, NoCall, clock)
      BY <3>1, <3>2, <3>5, TimeConstants DEF HeartOK, ShortCalls
    <3>7. worker[w].job \in Job /\ job[worker[w].job].lease \in Nat
      BY <1>1, WorkerFacts DEF WorkerOK, Types, TypeOK, JobRecord
    <3>8. Floor(job, r.job, r.token, r.due - Period - (Timeout - 1))
      <4>1. r.due - Period - (Timeout - 1) <= d.sent
        BY <3>1, <3>2, <3>5, TimeConstants
      <4> QED
        BY <3>1, <3>3, <3>4, <3>5, <3>7, <4>1, TimeConstants DEF Floor
    <3> QED
      BY <1>1, <2>1, <3>1, <3>6, <3>8, CallFacts, RenewTimely
  <2> QED
    BY <1>2, <1>4, <2>1 DEF Renewed
<1>5. CASE RenewFails(w)
  <2> DEFINE q == [worker[w] EXCEPT !.misses = @ + 1]
             r == Asleep(q)
  <2>1. CASE Resume(w, "renew", r, NoCall) /\ ~GivesUp(q)
    <3>1. /\ same(r) /\ r.heart = "asleep" /\ r.due = clock + Period
          /\ r.renewed = worker[w].renewed /\ r.misses = worker[w].misses + 1
          /\ q.renewed = worker[w].renewed
      BY <1>1 DEF WorkerRecord, Asleep
    <3>2. clock < worker[w].renewed + Lease
      BY <2>1, <3>1, TimelyFacts, TimeConstants DEF GivesUp
    <3> HIDE DEF r, q
    <3>3. HeartOK(r, NoCall, clock)
      BY <3>1, <3>2, TimelyFacts, TimeConstants DEF HeartOK
    <3>4. r.misses # 0
      BY <3>1, TimelyFacts
    <3> QED
      BY <1>1, <2>1, <3>1, <3>3, <3>4, CallFacts, RenewTimely
  <2> QED
    BY <1>2, <1>5, <2>1 DEF RenewFails
<1> QED
  BY <1>3, <1>4, <1>5 DEF RenewNext

-----------------------------------------------------------------------------
(* The API's side, and time *)

LEMMA FloorStays ==
    ASSUME Types, Local, Timely, [Next]_vars, NEW w \in Worker
    PROVE  FloorOK(worker[w], line[w]["execute"], line[w]["renew"], job')
<1> DEFINE r == worker[w]
           c == line[w]["execute"]
           d == line[w]["renew"]
<1>1. FloorOK(r, c, d, job)
  BY TimelyFacts
<1>2. c.kind = "claim" /\ c.answer = "ok" => Floor(job', c.job, c.token, c.sent)
  <2>1. SUFFICES ASSUME c.kind = "claim", c.answer = "ok"
                 PROVE  Floor(job', c.job, c.token, c.sent)
    OBVIOUS
  <2>2. c.job \in Job /\ c # NoCall
    BY <2>1, WorkerFacts, CallFacts DEF CallOK
  <2>3. c.sent \in Int /\ c.sent <= clock
    BY <2>2, TimelyFacts DEF PlaceOK
  <2> QED
    BY <1>1, <2>1, <2>2, <2>3, StepFloor DEF FloorOK
<1>3. d.answer = "ok" => Floor(job', d.job, d.token, d.sent)
  <2>1. SUFFICES ASSUME d.answer = "ok"
                 PROVE  Floor(job', d.job, d.token, d.sent)
    OBVIOUS
  <2>2. d # NoCall
    BY <2>1, CallFacts
  <2>3. d.kind = "heartbeat" /\ d.sent <= clock
    BY <2>2, TimelyFacts DEF HeartOK
  <2>4. d.job \in Job /\ d.sent \in Int
    BY <2>3, WorkerFacts, TimelyFacts DEF CallOK
  <2> QED
    BY <1>1, <2>1, <2>3, <2>4, StepFloor DEF FloorOK
<1>4. ASSUME r.heart # "off", r.misses = 0
      PROVE  Floor(job', r.job, r.token, r.due - Period - (Timeout - 1))
  <2>1. r.job \in Job
    BY <1>4, WorkerFacts DEF WorkerOK
  <2>2. r.heart \in {"asleep", "asking"}
    BY <1>4, WorkerFacts DEF WorkerRecord
  <2>3. r.due <= clock + Period
    BY <2>2, TimelyFacts, TimeConstants DEF HeartOK
  <2>4. /\ r.due - Period - (Timeout - 1) \in Int
        /\ r.due - Period - (Timeout - 1) <= clock
    BY <2>3, TimelyFacts, TimeConstants
  <2>5. Floor(job, r.job, r.token, r.due - Period - (Timeout - 1))
    BY <1>1, <1>4 DEF FloorOK
  <2> QED
    BY <2>1, <2>4, <2>5, StepFloor
<1> QED
  BY <1>2, <1>3, <1>4 DEF FloorOK

\* The queue moves within an instant, and no worker notices.
LEMMA QueueTimely ==
    ASSUME Types, Local, Timely, [Next]_vars, UNCHANGED <<clock, worker, line>>
    PROVE  Timely'
<1>1. \A w \in Worker :
         TimelyOK(worker[w], line[w]["execute"], line[w]["renew"], clock, job')
  BY TimelyFacts, FloorStays DEF TimelyOK
<1> QED
  BY <1>1 DEF Timely

\* A request changes the queue and not the clock.
LEMMA HandleClock ==
    ASSUME NEW c, NEW answer, NEW j, Handle(c, answer, j)
    PROVE  /\ clock' = clock
           /\ answer = "refused" => c.body = "invalid"
BY DEF Handle, HandleClaim, HandleHeartbeat, HandleComplete, Fenced, ClaimWith,
       Heartbeat, FinishResult, FinishRetry, FinishError, Settle, vars

LEMMA ServeTimely ==
    ASSUME Types, Local, Timely, NEW w \in Worker, NEW k \in Task, Serve(w, k)
    PROVE  Timely'
<1> DEFINE c == line[w]["execute"]
           d == line[w]["renew"]
<1>1. PICK e : e = line[w][k]
  OBVIOUS
<1>2. PICK answer \in {"ok", "empty", "fenced", "refused"}, j \in Job \cup {NoJob} :
         /\ Handle(e, answer, j)
         /\ line' = [line EXCEPT ![w][k] =
                        [e EXCEPT !.answer = answer, !.job = j,
                                  !.token = IF e.kind = "claim" /\ j # NoJob
                                            THEN job'[j].token ELSE @]]
  BY <1>1 DEF Serve
<1>3. PICK f : f = [e EXCEPT !.answer = answer, !.job = j,
                             !.token = IF e.kind = "claim" /\ j # NoJob
                                       THEN job'[j].token ELSE @]
  OBVIOUS
<1>4. e \in CallRecord /\ CallOK(e) /\ e # NoCall /\ UNCHANGED worker
  BY <1>1, WorkerFacts, CallFacts DEF Serve
<1>5. /\ f.kind = e.kind /\ f.body = e.body /\ f.sent = e.sent /\ f.answer = answer
      /\ f.job = j
      /\ e.kind # "claim" => f.token = e.token
  BY <1>3, <1>4 DEF CallRecord
<1>6. f # NoCall
  BY <1>4, <1>5, <1>2 DEF NoCall
<1>7. /\ [Next]_vars
      /\ e.kind \in {"claim", "heartbeat", "complete"}
      /\ e.kind = "claim" => (answer = "ok" \/ j # NoJob => j \in Job)
      /\ e.kind # "claim" => j = e.job /\ j \in Job
  BY <1>2, <1>4, HandleIsStep
<1>8. clock' = clock /\ (answer = "refused" => e.body = "invalid")
  BY <1>2, HandleClock
<1>9. \A v \in Worker, i \in Task :
         line'[v][i] = IF v = w /\ i = k THEN f ELSE line[v][i]
  BY <1>2, <1>3 DEF Local
<1>10. e.sent \in Int /\ e.sent <= clock
  <2>1. CASE k = "execute"
    BY <1>1, <1>4, <2>1, TimelyFacts DEF PlaceOK
  <2>2. CASE k = "renew"
    BY <1>1, <1>4, <2>2, TimelyFacts DEF HeartOK
  <2> QED
    BY <2>1, <2>2 DEF Task
<1>11. e.kind \in {"claim", "heartbeat"} /\ answer = "ok"
       => \A n : Floor(job', j, n, e.sent)
  BY <1>2, <1>7, <1>10, GrantFloor DEF Handle
<1> DEFINE newC == line'[w]["execute"]
           newD == line'[w]["renew"]
<1>12. FloorOK(worker[w], c, d, job')
  BY <1>7, FloorStays
<1>13. HeartOK(worker[w], newD, clock)
  <2>1. CASE k = "execute"
    BY <1>9, <2>1, TimelyFacts DEF Task
  <2>2. CASE k = "renew"
    <3>1. newD = f /\ d = e
      BY <1>1, <1>9, <2>2 DEF Task
    <3>2. HeartOK(worker[w], e, clock)
      BY <3>1, TimelyFacts
    <3> QED
      BY <1>4, <1>5, <1>6, <1>7, <3>1, <3>2 DEF HeartOK
  <2> QED
    BY <2>1, <2>2 DEF Task
<1>14. /\ PlaceOK(worker[w], newC, clock)
       /\ ProgressOK(worker[w], newC, clock)
  <2>1. CASE k = "renew"
    BY <1>9, <2>1, TimelyFacts DEF Task
  <2>2. CASE k = "execute"
    <3>1. newC = f /\ c = e
      BY <1>1, <1>9, <2>2 DEF Task
    <3>2. PlaceOK(worker[w], e, clock) /\ ProgressOK(worker[w], e, clock)
      BY <3>1, TimelyFacts
    <3>3. PlaceOK(worker[w], f, clock)
      BY <1>4, <1>5, <1>6, <1>7, <1>8, <3>2 DEF PlaceOK
    <3>4. ProgressOK(worker[w], f, clock)
      BY <1>4, <1>5, <1>6, <3>2 DEF ProgressOK, ReportsOK
    <3> QED
      BY <3>1, <3>3, <3>4
  <2> QED
    BY <2>1, <2>2 DEF Task
<1>15. FloorOK(worker[w], newC, newD, job')
  <2>1. CASE k = "renew"
    <3>1. newD = f /\ newC = c /\ d = e
      BY <1>1, <1>9, <2>1 DEF Task
    <3>2. e.kind = "heartbeat"
      BY <1>4, <3>1, TimelyFacts, WorkerFacts DEF HeartOK, WorkerRecord
    <3> QED
      BY <1>5, <1>11, <1>12, <3>1, <3>2 DEF FloorOK
  <2>2. CASE k = "execute"
    <3>1. newC = f /\ newD = d
      BY <1>9, <2>2 DEF Task
    <3> QED
      BY <1>5, <1>11, <1>12, <3>1 DEF FloorOK
  <2> QED
    BY <2>1, <2>2 DEF Task
<1>16. TimelyOK(worker[w], newC, newD, clock, job')
  BY <1>13, <1>14, <1>15 DEF TimelyOK
<1>17. \A v \in Worker : v # w =>
          TimelyOK(worker[v], line[v]["execute"], line[v]["renew"], clock, job')
  BY <1>7, TimelyFacts, FloorStays DEF TimelyOK
<1>18. \A v \in Worker : v # w => /\ line'[v]["execute"] = line[v]["execute"]
                                  /\ line'[v]["renew"] = line[v]["renew"]
  BY <1>9 DEF Task
<1> HIDE DEF c, d
<1> QED
  BY <1>4, <1>8, <1>16, <1>17, <1>18 DEF Timely

LEMMA ServeAudioTimely ==
    ASSUME Types, Local, Timely, NEW w \in Worker, ServeAudio(w)
    PROVE  Timely'
<1> DEFINE c == line[w]["execute"]
           e == line'[w]["execute"]
           d == line[w]["renew"]
<1>1. /\ c.kind = "audio" /\ c \in CallRecord /\ c # NoCall
      /\ UNCHANGED <<vars, worker>> /\ c.answer \in {"pending", "checked"}
  BY WorkerFacts, NoCallOK DEF ServeAudio
<1>2. /\ e.kind = "audio" /\ e.sent = c.sent /\ e.job = c.job /\ e.token = c.token
      /\ e.answer \in {"checked", "fenced", "ok"}
      /\ line'[w]["renew"] = line[w]["renew"]
      /\ \A v \in Worker : v # w => line'[v] = line[v]
  <2>1. line[w] \in [Task -> CallRecord] /\ "execute" \in Task
    BY DEF Local, Task
  <2>2. \/ e = [c EXCEPT !.answer = "checked", !.upload = job[c.job].upload]
        \/ e = [c EXCEPT !.answer = "fenced"]
        \/ e = [c EXCEPT !.answer = "ok"]
    BY <2>1 DEF ServeAudio, Local
  <2>3. /\ line'[w]["renew"] = line[w]["renew"]
        /\ \A v \in Worker : v # w => line'[v] = line[v]
    BY <2>1 DEF ServeAudio, Local, Task
  <2> HIDE DEF e
  <2> QED
    BY <1>1, <2>2, <2>3 DEF CallRecord
<1>3. e # NoCall
  BY <1>2, NoCallOK
<1>4. worker[w].pc \notin {"committing", "failing"}
  BY <1>1, WorkerFacts DEF AwaitOK, Reporting
<1> HIDE DEF e
<1>5. PlaceOK(worker[w], e, clock)
  BY <1>1, <1>2, <1>3, TimelyFacts DEF PlaceOK
<1>6. ProgressOK(worker[w], e, clock)
  BY <1>4, TimelyFacts DEF ProgressOK
<1>7. FloorOK(worker[w], e, d, job)
  BY <1>1, <1>2, TimelyFacts DEF FloorOK
<1>8. TimelyOK(worker[w], e, d, clock, job)
  BY <1>5, <1>6, <1>7, TimelyFacts DEF TimelyOK
<1> QED
  BY <1>1, <1>2, <1>8, ChangeTimely DEF e

LEMMA PassesTimely ==
    ASSUME Types, Local, Timely, TimePasses
    PROVE  Timely'
<1>1. clock' = clock + 1 /\ UNCHANGED <<job, worker, line>>
  BY DEF TimePasses, Tick
<1>2. SUFFICES ASSUME NEW w \in Worker
      PROVE  TimelyOK(worker[w], line[w]["execute"], line[w]["renew"], clock + 1, job)
  BY <1>1 DEF Timely
<1> DEFINE r == worker[w]
           c == line[w]["execute"]
           d == line[w]["renew"]
<1>3. /\ r.heart = "asleep" => clock < r.due
      /\ c # NoCall => clock < c.sent + Timeout
      /\ d # NoCall => clock < d.sent + Timeout
      /\ r.pc \in {"committing", "failing"} => c # NoCall \/ clock < r.wake
      /\ r.pc = "receiving" => clock < r.progress + 2 * Timeout
      /\ r.pc = "inferring" /\ ~r.stuck => clock < r.progress + Pace
  BY DEF TimePasses, InTime, Task
<1>4. HeartOK(r, d, clock + 1)
  BY <1>3, TimelyFacts, TimeConstants DEF HeartOK
<1>5. PlaceOK(r, c, clock + 1)
  BY <1>3, TimelyFacts, TimeConstants DEF PlaceOK
<1>6. ASSUME NEW s \in Nat, r.pc \in Reporting, ReportsOK(r, c, s, clock)
      PROVE  ReportsOK(r, c, s, clock + 1)
  <2>1. CASE c # NoCall
    BY <1>6, <2>1 DEF ReportsOK
  <2>2. CASE c = NoCall
    <3>1. clock < r.wake /\ r.wake <= r.progress + s + Posts(r.tries)
      BY <1>3, <1>6, <2>2 DEF ReportsOK, Reporting
    <3>2. r.tries \in 0 .. Attempts - 1
      BY <1>6, <2>2, WorkerFacts, NoCallOK, TimelyFacts, TimeConstants DEF AwaitOK
    <3>3. Posts(r.tries) \in Nat
      BY <3>2, SeriesFacts
    <3>4. clock \in Nat /\ r.wake \in Nat /\ r.progress \in Nat
      BY TimelyFacts
    <3>5. clock + 1 <= r.progress + s + Posts(r.tries)
      BY <3>1, <3>3, <3>4
    <3> QED
      BY <2>2, <3>1, <3>5 DEF ReportsOK
  <2> QED
    BY <2>1, <2>2
<1>7. ProgressOK(r, c, clock + 1)
  BY <1>3, <1>6, TimelyFacts, TimeConstants, SlackFacts DEF ProgressOK, Reporting
<1> QED
  BY <1>4, <1>5, <1>7, TimelyFacts DEF TimelyOK

LEMMA InitTimely == WorkersInit => Timely
BY IdleTimely DEF WorkersInit, Timely, Task

LEMMA StepTimely ==
    ASSUME Types, Local, Truthful, Timely, [WorkersNext]_workersVars
    PROVE  Timely'
<1>1. [Next]_vars
  BY StepLocal
<1>2. CASE UNCHANGED workersVars
  BY <1>1, <1>2, QueueTimely DEF workersVars, own, vars
<1>3. CASE ApiNext
  <2>1. clock' = clock /\ UNCHANGED <<worker, line>>
    BY <1>3 DEF ApiNext, own, SaveNext, SaveBegin, SaveWrite, SaveEOF, SaveDrop,
                SaveReject, SaveCommit, DiscardUpload, Submit, Delete, New
  <2> QED
    BY <1>1, <2>1, QueueTimely
<1>4. CASE \E c \in late : ServeLate(c)
  <2>1. clock' = clock /\ UNCHANGED <<worker, line>>
    BY <1>4, HandleClock DEF ServeLate
  <2> QED
    BY <1>1, <2>1, QueueTimely
<1>5. ASSUME NEW w \in Worker, ExecuteNext(w) PROVE Timely'
  BY <1>5, PollTimely, BeginTimely, FetchTimely, InferTimely, PostTimely,
     PostedTimely DEF ExecuteNext
<1>6. ASSUME NEW w \in Worker, FaultNext(w) PROVE Timely'
  BY <1>6, PollTimely, InferTimely DEF FaultNext
<1> QED
  BY <1>2, <1>3, <1>4, <1>5, <1>6, RenewsTimely, ServeTimely, ServeAudioTimely,
     PassesTimely DEF WorkersNext

\* At every moment each call, sleep and pause has lasted no longer than it may, and
\* while an attempt lasts its lease covers what was granted (execute, renew).
THEOREM TimelyInvariant ==
    WorkersSpec => [](Types /\ Local /\ Truthful /\ Timely)
<1>1. WorkersInit => Types /\ Local /\ Truthful /\ Timely
  BY InitTypes, InitLocal, InitTimely DEF WorkersInit
<1>2. Types /\ Local /\ Truthful /\ Timely /\ [WorkersNext]_workersVars
        => (Types /\ Local /\ Truthful /\ Timely)'
  BY StepLocal, StepTypes, StepTimely
<1> QED
  BY <1>1, <1>2, PTL DEF WorkersSpec

\* A worker that the API cannot be reached from, or that was fenced out, stops:
\* where a call is no longer than a lease, the last renewal that was answered
\* well is never older than a lease, a period and a call (renew).
THEOREM RenewalsAreFresh == ShortCalls => (WorkersSpec => []RenewalFresh)
<1> SUFFICES ASSUME ShortCalls PROVE WorkersSpec => []RenewalFresh
  OBVIOUS
<1>1. ASSUME Types, Local, Timely, NEW w \in Worker, worker[w].heart # "off"
      PROVE  clock - worker[w].renewed < Lease + Period + Timeout
  <2>1. worker[w].heart \in {"asleep", "asking"}
    BY <1>1, WorkerFacts DEF WorkerRecord
  <2> QED
    BY <1>1, <2>1, TimelyFacts, TimeConstants DEF HeartOK
<1>2. Types /\ Local /\ Timely => RenewalFresh
  BY <1>1 DEF RenewalFresh
<1> QED
  BY <1>2, TimelyInvariant, PTL

\* Who is entrusted with a job holds its lease.
LEMMA EntrustedHolds ==
    ASSUME RenewalsInTime, Types, Local, Timely, NEW w \in Worker, Entrusted(w, 0)
    PROVE  Holds(w)
<1> DEFINE r == worker[w]
<1>1. /\ r.heart \in {"asleep", "asking"} /\ r.misses = 0 /\ r.job \in Job
      /\ r.heart = "asking" => clock < line[w]["renew"].sent + Timeout
  BY WorkerFacts, TimelyFacts DEF WorkerRecord, WorkerOK, Entrusted, InTime
<1>2. clock < r.due + Timeout
  BY <1>1, TimelyFacts, TimeConstants DEF HeartOK
<1>3. Floor(job, r.job, r.token, r.due - Period - (Timeout - 1))
  BY <1>1, TimelyFacts DEF FloorOK
<1>4. job[r.job].lease \in Nat
  BY <1>1 DEF Types, TypeOK, JobRecord
<1>5. job[r.job].status = "processing" /\ job[r.job].token = r.token
  BY DEF Entrusted
<1>6. r.due \in Nat /\ clock \in Nat
  BY TimelyFacts
<1>7. r.due - Period - (Timeout - 1) + Lease <= job[r.job].lease + Skew
  BY <1>3, <1>5 DEF Floor
<1> HIDE DEF r
<1>8. job[r.job].lease > clock
  BY <1>2, <1>4, <1>6, <1>7, TimeConstants DEF RenewalsInTime
<1> QED
  BY <1>5, <1>8 DEF Holds, Leased, r

\* A worker whose renewals are answered keeps its lease, however late within its
\* timeout each answer comes and whatever the API and other workers do: where
\* RenewalsInTime holds the lease does not run out under it (renew).
THEOREM LeasesAreKept == RenewalsInTime => (WorkersSpec => []LeaseKept)
<1> SUFFICES ASSUME RenewalsInTime PROVE WorkersSpec => []LeaseKept
  OBVIOUS
<1>1. Types /\ Local /\ Timely => LeaseKept
  BY EntrustedHolds DEF LeaseKept
<1> QED
  BY <1>1, TimelyInvariant, PTL

\* Who works makes progress.
LEMMA WorksOn ==
    ASSUME Patience, Types, Local, Timely, NEW w \in Worker,
           ~worker[w].stuck, ~worker[w].stopping,
           worker[w].pc \notin {"idle", "claiming"}
    PROVE  clock - worker[w].progress < Stall
<1> DEFINE r == worker[w]
           c == line[w]["execute"]
<1>1. /\ r.pc \in {"fetching", "receiving", "inferring", "committing", "failing"}
      /\ r.progress \in Nat /\ clock \in Nat /\ c.sent \in Nat
      /\ c # NoCall => clock <= c.sent + Timeout
  BY WorkerFacts, TimelyFacts DEF WorkerRecord, PlaceOK
<1>2. r.pc \in Reporting =>
         IF c = NoCall THEN Posts(r.tries) \in Nat /\ Posts(r.tries) <= Series(Attempts)
         ELSE Series(r.tries) \in Nat /\ Series(r.tries) <= Series(Attempts)
  <2>1. CASE r.pc \in Reporting /\ c = NoCall
    <3>1. r.tries \in 0 .. Attempts - 1
      BY <2>1, WorkerFacts, NoCallOK, TimelyFacts, TimeConstants DEF AwaitOK
    <3> QED
      BY <2>1, <3>1, SeriesFacts
  <2>2. CASE r.pc \in Reporting /\ c # NoCall
    BY <2>2, ReportedOK, SeriesFacts
  <2> QED
    BY <2>1, <2>2
<1>3. CASE r.pc = "fetching"
  BY <1>1, <1>2, <1>3, TimelyFacts, TimeConstants, SlackFacts DEF PlaceOK, Patience
<1>4. CASE r.pc \in {"receiving", "inferring"}
  BY <1>1, <1>2, <1>4, TimelyFacts, TimeConstants, SlackFacts
     DEF ProgressOK, Patience
<1>5. CASE r.pc = "committing"
  BY <1>1, <1>2, <1>5, TimelyFacts, TimeConstants, SlackFacts
     DEF ProgressOK, ReportsOK, Patience, Reporting
<1>6. CASE r.pc = "failing"
  BY <1>1, <1>2, <1>6, TimelyFacts, TimeConstants, SlackFacts
     DEF ProgressOK, ReportsOK, Patience, Reporting
<1> QED
  BY <1>1, <1>3, <1>4, <1>5, <1>6

\* The probe never restarts a worker that works: where Patience holds, the longest
\* time without progress before a failure and the series of reports of it, every
\* call and every pause between two calls counted, stay below the limit of a
\* stall together (health, post, execute).
THEOREM ProbeSparesWorkers == Patience => (WorkersSpec => []HealthyUnlessStuck)
<1> SUFFICES ASSUME Patience PROVE WorkersSpec => []HealthyUnlessStuck
  OBVIOUS
<1>1. Types /\ Local /\ Timely => HealthyUnlessStuck
  BY WorksOn DEF HealthyUnlessStuck, Healthy
<1> QED
  BY <1>1, TimelyInvariant, PTL

-----------------------------------------------------------------------------
(* Whose attempt it is *)

\* Attempt k of j, seen from a worker: it has been told of it.
Owns(r, c, j, k) ==
    \/ c.kind = "claim" /\ c.answer = "ok" /\ c.job = j /\ c.token = k
    \/ r.pc \notin {"idle", "claiming"} /\ r.job = j /\ r.token = k

\* Nothing has gone wrong with it yet.
Attends(r, c, d, now, j, k) ==
    \/ /\ c.kind = "claim" /\ c.answer = "ok" /\ c.job = j /\ c.token = k
       /\ now < c.sent + Timeout
    \/ /\ r.pc \notin {"idle", "claiming"} /\ r.job = j /\ r.token = k
       /\ r.heart # "off" /\ r.misses = 0
       /\ ~r.stuck /\ ~r.stopping /\ ~r.cancel
       /\ ~(r.pc = "failing" /\ r.body = "retry")
       /\ c # NoCall => now < c.sent + Timeout
       /\ d # NoCall => now < d.sent + Timeout
       /\ c.answer # "fenced" /\ ~Granted(c) /\ d.answer # "fenced"

Attended(j) ==
    \E w \in Worker :
        Attends(worker[w], line[w]["execute"], line[w]["renew"], clock,
                j, job[j].token)

\* Attempt k of j was begun.
Begun(jobs, j, k) ==
    /\ j \in Job /\ k \in Nat \ {0}
    /\ k <= jobs[j].attempts \/ jobs[j].status = "gone"

\* A report that asks for another attempt.
Retries(c) == c.kind = "complete" /\ c.body = "retry"

Failing(r) == r.pc = "failing" /\ r.body = "retry"

\* Each attempt has one owner; a report that asks for another attempt is its
\* owner's, who works on it no more; and audio is that of the job.
TicketsOK ==
    /\ \A w \in Worker : \A j, k :
          Owns(worker[w], line[w]["execute"], j, k) => Begun(job, j, k)
    /\ \A v, w \in Worker : \A j, k :
          /\ Owns(worker[v], line[v]["execute"], j, k)
          /\ Owns(worker[w], line[w]["execute"], j, k)
          => v = w
    /\ \A c \in late : Retries(c) =>
          /\ Begun(job, c.job, c.token)
          /\ \A w \in Worker :
                Owns(worker[w], line[w]["execute"], c.job, c.token)
                => Failing(worker[w])
    /\ \A w \in Worker :
          LET c == line[w]["execute"]
          IN  c.answer = "checked" =>
                /\ c.kind = "audio"
                /\ job[c.job].status = "processing" /\ job[c.job].token = c.token
                   => c.upload = job[c.job].upload
    /\ \A j \in Job : job[j].status = "unborn" => job[j].attempts = 0

-----------------------------------------------------------------------------
(* Who pays for it *)

\* Claims that nobody waits for: they may still take a job, for no worker.
LostClaims == {c \in late : c.kind = "claim"}

OverdueClaims ==
    {p \in Worker \X Task :
        LET c == line[p[1]][p[2]]
        IN  c.kind = "claim" /\ c.answer = "pending" /\ ~InTime(c)}

Reserve == Cardinality(LostClaims) + Cardinality(OverdueClaims)

\* There is a failure for each of n attempts, and one for each such claim.
Covered(n) == n + Reserve <= faults

\* Every attempt has cost a failure, but for one that is attended to.
Charged ==
    /\ IsFiniteSet(late)
    /\ Covered(0)
    /\ \A j \in Job :
          /\ job[j].status = "queued" => Covered(job[j].attempts)
          /\ job[j].status = "processing" =>
                /\ Covered(job[j].attempts - 1)
                /\ Attended(j) \/ Covered(job[j].attempts)
          /\ job[j].cause = "expired" => MaxAttempts <= faults

-----------------------------------------------------------------------------
(* What a step of a worker does to its attempt *)

\* The worker learns of no other attempt, a report that asks for another one is
\* its last word, a call is sent now, and it goes on with an attempt unless
\* something fails.
GoesOn(w) ==
    /\ \A j, k : Owns(worker'[w], line'[w]["execute"], j, k)
                 => Owns(worker[w], line[w]["execute"], j, k)
    /\ Failing(worker[w]) =>
          \/ Failing(worker'[w])
          \/ \A j, k : ~Owns(worker'[w], line'[w]["execute"], j, k)
    /\ LET c == line'[w]["execute"]
       IN  \/ c \in {line[w]["execute"], NoCall}
           \/ c.sent = clock /\ c.answer = "pending"
    /\ \A j, k :
          Attends(worker[w], line[w]["execute"], line[w]["renew"], clock, j, k)
          => \/ Attends(worker'[w], line'[w]["execute"], line'[w]["renew"], clock,
                        j, k)
             \/ faults' > faults
    /\ faults' >= faults

LEMMA IdleOwnsNothing ==
    ASSUME NEW j, NEW k
    PROVE  ~Owns(Idle, NoCall, j, k)
BY DEF Owns, Idle, NoCall

LEMMA EndGoesOn ==
    ASSUME Local, NEW w \in Worker, End(w), faults' >= faults,
           \/ faults' > faults
           \/ \A j, k : ~Attends(worker[w], line[w]["execute"], line[w]["renew"],
                                 clock, j, k)
    PROVE  GoesOn(w)
<1>1. worker'[w] = Idle /\ line'[w]["execute"] = NoCall
  BY DEF End, Line, Local, Task
<1> QED
  BY <1>1, IdleOwnsNothing, CallFacts DEF GoesOn

\* Who is at work awaits no claim.
LEMMA AtWork ==
    ASSUME Types, Local, Timely, NEW w \in Worker,
           worker[w].pc \notin {"idle", "claiming"}
    PROVE  /\ line[w]["execute"].kind # "claim"
           /\ line[w]["execute"].kind = "complete" => worker[w].pc \in Reporting
<1>1. worker[w].pc \in {"fetching", "receiving", "inferring", "committing", "failing"}
  BY WorkerFacts DEF WorkerRecord
<1> QED
  BY <1>1, TimelyFacts, WorkerFacts, NoCallOK DEF PlaceOK, AwaitOK, Reporting

\* Who is not has been told of an attempt by the answer to its claim.
LEMMA AtRest ==
    ASSUME Types, Local, Timely, NEW w \in Worker,
           worker[w].pc \in {"idle", "claiming"}
    PROVE  /\ worker[w].pc = "idle" => line[w]["execute"] = NoCall
           /\ worker[w].pc = "claiming" => line[w]["execute"].kind = "claim"
           /\ ~Failing(worker[w]) /\ worker[w].heart = "off"
           /\ line[w]["renew"] = NoCall
BY TimelyFacts, WorkerFacts DEF PlaceOK, HeartOK, AwaitOK, Failing

\* execute goes on with its job, as r and with the call c or none.
LEMMA ExecuteGoesOn ==
    ASSUME Types, Local, Timely, NEW w \in Worker, NEW r, NEW c,
           worker'[w] = r, line'[w]["execute"] = c,
           line'[w]["renew"] = line[w]["renew"], faults' >= faults,
           worker[w].pc \notin {"idle", "claiming"},
           r.pc \notin {"idle", "claiming"},
           r.job = worker[w].job, r.token = worker[w].token,
           \/ c = NoCall
           \/ c.kind # "claim" /\ c.sent = clock /\ c.answer = "pending",
           Failing(worker[w]) => Failing(r),
           \/ faults' > faults
           \/ /\ r.heart = worker[w].heart /\ r.misses = worker[w].misses
              /\ r.stuck => worker[w].stuck
              /\ r.stopping = worker[w].stopping /\ r.cancel = worker[w].cancel
              /\ Failing(r) => Failing(worker[w])
    PROVE  GoesOn(w)
<1>1. line[w]["execute"].kind # "claim"
  BY AtWork
<1>2. c.kind # "claim" /\ c.answer \notin {"ok", "checked", "fenced"}
  BY CallFacts, NoCallOK
<1>3. ~Granted(c)
  BY <1>2 DEF Granted
<1>4. c # NoCall => clock < c.sent + Timeout
  BY TimelyFacts, TimeConstants
<1>5. \A j, k : Owns(r, c, j, k) => Owns(worker[w], line[w]["execute"], j, k)
  BY <1>1, <1>2 DEF Owns
<1>6. ASSUME NEW j, NEW k, ~(faults' > faults),
             Attends(worker[w], line[w]["execute"], line[w]["renew"], clock, j, k)
      PROVE  Attends(r, c, line[w]["renew"], clock, j, k)
  BY <1>1, <1>2, <1>3, <1>4, <1>6 DEF Attends, Failing
<1> QED
  BY <1>2, <1>5, <1>6 DEF GoesOn

LEMMA ComplainGoesOn ==
    ASSUME Types, Local, Timely, NEW w \in Worker,
           worker[w].pc \notin {"idle", "claiming"},
           NEW body \in {"retry", "fatal"}, Complain(w, body), faults' >= faults,
           body = "retry" =>
              \/ faults' > faults
              \/ \A j, k : ~Attends(worker[w], line[w]["execute"],
                                    line[w]["renew"], clock, j, k),
           ~(Failing(worker[w]) /\ body = "fatal")
    PROVE  GoesOn(w)
<1> DEFINE r == [worker[w] EXCEPT !.pc = "failing", !.body = body, !.tries = 0]
<1>1. CASE worker[w].cancel
  <2>1. End(w)
    BY <1>1 DEF Complain
  <2>2. \A j, k : ~Attends(worker[w], line[w]["execute"], line[w]["renew"], clock, j, k)
    BY <1>1, AtWork DEF Attends
  <2> QED
    BY <2>1, <2>2, EndGoesOn
<1>2. CASE ~worker[w].cancel
  <2>1. Resume(w, "execute", r, NoCall)
    BY <1>2 DEF Complain
  <2>2. worker[w] \in WorkerRecord
    BY WorkerFacts
  <2>3. /\ r.pc = "failing" /\ r.body = body
        /\ r.heart = worker[w].heart /\ r.job = worker[w].job
        /\ r.token = worker[w].token /\ r.misses = worker[w].misses
        /\ r.stuck = worker[w].stuck /\ r.stopping = worker[w].stopping
        /\ r.cancel = worker[w].cancel
    BY <2>2 DEF WorkerRecord
  <2> HIDE DEF r
  <2>4. /\ worker'[w] = r /\ line'[w]["execute"] = NoCall
        /\ line'[w]["renew"] = line[w]["renew"]
    BY <2>1, ResumeFacts DEF Task
  <2>5. CASE body = "fatal" \/ faults' > faults
    BY <2>3, <2>4, <2>5, ExecuteGoesOn DEF Failing
  <2>6. CASE body = "retry" /\ ~(faults' > faults)
    <3>1. \A j, k : Owns(r, NoCall, j, k) => Owns(worker[w], line[w]["execute"], j, k)
      BY <2>3, NoCallOK DEF Owns
    <3> QED
      BY <2>3, <2>4, <2>6, <3>1, CallFacts DEF GoesOn, Failing
  <2> QED
    BY <2>5, <2>6
<1> QED
  BY <1>1, <1>2

LEMMA PollGoesOn ==
    ASSUME Types, Local, Timely, NEW w \in Worker, Poll(w) \/ PollAgain(w)
    PROVE  GoesOn(w)
<1> DEFINE r == [worker[w] EXCEPT !.pc = "claiming"]
<1>1. worker[w].pc \in {"idle", "claiming"} /\ faults \in Nat
  BY DEF Poll, PollAgain, Local
<1>2. CASE Poll(w)
  <2>1. /\ worker'[w] = r /\ line'[w]["execute"] = Call("claim", worker[w])
        /\ line[w]["execute"] = NoCall /\ faults' = faults
    BY <1>2, ResumeFacts, AtRest DEF Poll, Task
  <2>2. r.pc = "claiming"
    BY WorkerFacts DEF WorkerRecord
  <2> HIDE DEF r
  <2>3. \A j, k : ~Owns(r, Call("claim", worker[w]), j, k)
    BY <2>2, CallFacts DEF Owns
  <2>4. \A j, k : ~Attends(worker[w], NoCall, line[w]["renew"], clock, j, k)
    BY <1>1, NoCallOK DEF Attends
  <2> QED
    BY <1>1, <2>1, <2>3, <2>4, CallFacts DEF GoesOn
<1>3. CASE PollAgain(w)
  <2>1. End(w) /\ worker[w].pc = "claiming"
    BY <1>3 DEF PollAgain
  <2>2. CASE Answered(w, "execute", "empty")
    BY <1>1, <2>1, <2>2, EndGoesOn DEF Answered, Attends
  <2>3. CASE Failed(w, "execute")
    <3>1. faults' >= faults /\ (InTime(line[w]["execute"]) => faults' > faults)
      BY <1>1, <2>3 DEF Failed
    <3> QED
      BY <1>1, <2>1, <3>1, EndGoesOn DEF Attends, InTime
  <2> QED
    BY <1>3, <2>2, <2>3 DEF PollAgain
<1> QED
  BY <1>2, <1>3

LEMMA BeginGoesOn ==
    ASSUME Types, Local, Timely, NEW w \in Worker, Begin(w)
    PROVE  GoesOn(w)
<1> DEFINE c == line[w]["execute"]
           r == [Idle EXCEPT !.pc = "fetching", !.job = c.job, !.token = c.token,
                             !.progress = clock, !.heart = "asleep",
                             !.due = clock + Period, !.renewed = clock]
<1>1. /\ r.pc = "fetching" /\ r.job = c.job /\ r.token = c.token
      /\ r.heart = "asleep" /\ r.misses = 0 /\ ~r.stuck /\ ~r.stopping /\ ~r.cancel
  BY DEF Idle
<1>2. /\ worker[w].pc = "claiming" /\ faults' = faults /\ faults \in Nat
      /\ c.answer = "ok" /\ Resume(w, "execute", r, Call("audio", r))
  BY DEF Begin, Answered, Local
<1>3. c.kind = "claim" /\ line[w]["renew"] = NoCall /\ ~Failing(worker[w])
  BY <1>2, AtRest
<1> HIDE DEF r
<1>4. /\ worker'[w] = r /\ line'[w]["execute"] = Call("audio", r)
      /\ line'[w]["renew"] = NoCall
  BY <1>2, <1>3, ResumeFacts DEF Task
<1>5. ~Granted(Call("audio", r))
  BY CallFacts DEF Granted
<1>6. clock < clock + Timeout
  BY TimelyFacts, TimeConstants
<1> HIDE DEF c
<1>7. ASSUME NEW j, NEW k, Owns(r, Call("audio", r), j, k)
      PROVE  Owns(worker[w], c, j, k)
  BY <1>1, <1>2, <1>3, <1>7, CallFacts DEF Owns
<1>8. ASSUME NEW j, NEW k, Attends(worker[w], c, NoCall, clock, j, k)
      PROVE  Attends(r, Call("audio", r), NoCall, clock, j, k)
  BY <1>1, <1>2, <1>3, <1>5, <1>6, <1>8, CallFacts DEF Attends
<1> QED
  BY <1>2, <1>3, <1>4, <1>7, <1>8, CallFacts DEF GoesOn, c

\* A call fails in time only if something failed.
LEMMA FailedFacts ==
    ASSUME Types, Local, Timely, NEW w \in Worker, NEW k \in Task, Failed(w, k),
           worker[w].pc \notin {"idle", "claiming"}
    PROVE  /\ line[w][k] # NoCall /\ faults' >= faults
           /\ \/ faults' > faults
              \/ \A j, i : ~Attends(worker[w], line[w]["execute"],
                                    line[w]["renew"], clock, j, i)
<1>1. faults \in Nat
  BY DEF Local
<1>2. CASE InTime(line[w][k])
  BY <1>1, <1>2 DEF Failed
<1>3. CASE ~InTime(line[w][k])
  <2>1. line[w][k] # NoCall /\ faults' = faults
    BY <1>3 DEF Failed
  <2>2. ~(clock < line[w][k].sent + Timeout)
    BY <1>3 DEF InTime
  <2> QED
    BY <1>1, <2>1, <2>2, AtWork DEF Attends, Task
<1> QED
  BY <1>2, <1>3

LEMMA FetchGoesOn ==
    ASSUME Types, Local, Timely, NEW w \in Worker, Fetched(w)
    PROVE  GoesOn(w)
<1> DEFINE r == [worker[w] EXCEPT !.pc = "receiving"]
<1>1. worker[w].pc = "fetching" /\ ~Failing(worker[w]) /\ faults \in Nat
  BY DEF Fetched, Failing, Local
<1>2. CASE Answered(w, "execute", "ok") /\ Resume(w, "execute", r, NoCall)
  <2>1. /\ r.pc = "receiving"
        /\ r.heart = worker[w].heart /\ r.job = worker[w].job
        /\ r.token = worker[w].token /\ r.misses = worker[w].misses
        /\ r.stuck = worker[w].stuck /\ r.stopping = worker[w].stopping
        /\ r.cancel = worker[w].cancel
    BY WorkerFacts DEF WorkerRecord
  <2> HIDE DEF r
  <2>2. /\ worker'[w] = r /\ line'[w]["execute"] = NoCall
        /\ line'[w]["renew"] = line[w]["renew"]
    BY <1>2, ResumeFacts DEF Task
  <2> QED
    BY <1>1, <1>2, <2>1, <2>2, ExecuteGoesOn DEF Failing, Answered
<1>3. CASE Answered(w, "execute", "fenced") /\ End(w)
  BY <1>1, <1>3, EndGoesOn, AtWork DEF Attends, Answered
<1>4. CASE Failed(w, "execute") /\ Complain(w, "retry")
  BY <1>1, <1>4, FailedFacts, ComplainGoesOn DEF Task
<1> QED
  BY <1>2, <1>3, <1>4 DEF Fetched

\* execute works on without a call.
LEMMA KeepsGoingOn ==
    ASSUME Types, Local, Timely, NEW w \in Worker, NEW r,
           worker[w].pc \in {"receiving", "inferring"},
           worker'[w] = r, line' = line,
           r.pc \in {"receiving", "inferring"}, r.job = worker[w].job,
           r.token = worker[w].token, faults' >= faults,
           \/ faults' > faults
           \/ /\ r.heart = worker[w].heart /\ r.misses = worker[w].misses
              /\ r.stuck => worker[w].stuck
              /\ r.stopping = worker[w].stopping /\ r.cancel = worker[w].cancel
    PROVE  GoesOn(w)
<1>1. line[w]["execute"] = NoCall
  BY TimelyFacts DEF PlaceOK
<1> QED
  BY <1>1, ExecuteGoesOn DEF Failing

LEMMA InferGoesOn ==
    ASSUME Types, Local, Timely, NEW w \in Worker,
           Receive(w) \/ Infer(w) \/ Inferred(w) \/ Stick(w) \/ Stop(w)
    PROVE  GoesOn(w)
<1>1. /\ worker[w].pc \in {"receiving", "inferring"} /\ ~Failing(worker[w])
      /\ faults \in Nat /\ worker[w] \in WorkerRecord
  BY WorkerFacts DEF Receive, Infer, Inferred, Stick, Stop, Failing, Local
<1>2. ASSUME NEW r, worker' = [worker EXCEPT ![w] = r], line' = line,
             \/ /\ r \in {[worker[w] EXCEPT !.progress = clock],
                         [worker[w] EXCEPT !.pc = "inferring"],
                         [worker[w] EXCEPT !.progress = clock, !.stuck = FALSE]}
                /\ faults' = faults
             \/ /\ r \in {[worker[w] EXCEPT !.stuck = TRUE],
                         [worker[w] EXCEPT !.stopping = TRUE, !.cancel = TRUE]}
                /\ faults' = faults + 1
      PROVE  GoesOn(w)
  <2>1. /\ r.pc \in {"receiving", "inferring"} /\ r.job = worker[w].job
        /\ r.token = worker[w].token
    BY <1>1, <1>2 DEF WorkerRecord
  <2>4. /\ worker'[w] = r /\ line' = line /\ faults' >= faults
        /\ worker[w].pc \in {"receiving", "inferring"}
    BY <1>1, <1>2 DEF Local
  <2>2. CASE faults' = faults + 1
    <3>1. faults' > faults
      BY <1>1, <2>2
    <3> QED
      BY <2>1, <2>4, <3>1, KeepsGoingOn
  <2>3. CASE /\ r \in {[worker[w] EXCEPT !.progress = clock],
                      [worker[w] EXCEPT !.pc = "inferring"],
                      [worker[w] EXCEPT !.progress = clock, !.stuck = FALSE]}
             /\ faults' = faults
    <3>1. /\ r.heart = worker[w].heart /\ r.misses = worker[w].misses
          /\ r.stuck => worker[w].stuck
          /\ r.stopping = worker[w].stopping /\ r.cancel = worker[w].cancel
      BY <1>1, <2>3 DEF WorkerRecord
    <3> QED
      BY <2>1, <2>4, <3>1, KeepsGoingOn
  <2> QED
    BY <1>2, <2>2, <2>3
<1>3. worker \in [Worker -> WorkerRecord]
  BY DEF Local
<1>4. ASSUME faults' = faults + 1, Complain(w, "retry") PROVE GoesOn(w)
  BY <1>1, <1>4, ComplainGoesOn
<1>5. ASSUME Complain(w, "fatal"), faults' = faults PROVE GoesOn(w)
  BY <1>1, <1>5, ComplainGoesOn
<1>6. CASE Receive(w)
  BY <1>2, <1>3, <1>4, <1>5, <1>6 DEF Receive
<1>7. CASE Infer(w)
  BY <1>2, <1>3, <1>7 DEF Infer
<1>8. CASE Stick(w) \/ Stop(w)
  BY <1>2, <1>3, <1>8 DEF Stick, Stop
<1>9. CASE Inferred(w)
  <2>1. ASSUME NEW body,
               Resume(w, "execute", [worker[w] EXCEPT !.pc = "committing",
                                        !.body = body, !.progress = clock], NoCall),
               faults' = faults
        PROVE  GoesOn(w)
    <3> DEFINE r == [worker[w] EXCEPT !.pc = "committing", !.body = body,
                                      !.progress = clock]
    <3>1. /\ r.pc = "committing"
          /\ r.heart = worker[w].heart /\ r.job = worker[w].job
          /\ r.token = worker[w].token /\ r.misses = worker[w].misses
          /\ r.stuck = worker[w].stuck /\ r.stopping = worker[w].stopping
          /\ r.cancel = worker[w].cancel
      BY <1>1 DEF WorkerRecord
    <3>2. Resume(w, "execute", r, NoCall)
      BY <2>1
    <3> HIDE DEF r
    <3>3. /\ worker'[w] = r /\ line'[w]["execute"] = NoCall
          /\ line'[w]["renew"] = line[w]["renew"]
      BY <3>2, ResumeFacts DEF Task
    <3> QED
      BY <1>1, <2>1, <3>1, <3>3, ExecuteGoesOn DEF Failing
  <2> QED
    BY <1>4, <1>5, <1>9, <2>1 DEF Inferred
<1> QED
  BY <1>6, <1>7, <1>8, <1>9

LEMMA PostGoesOn ==
    ASSUME Types, Local, Timely, NEW w \in Worker,
           Post(w) \/ Posted(w) \/ PostFails(w) \/ Interrupted(w)
    PROVE  GoesOn(w)
<1>1. /\ worker[w].pc \notin {"idle", "claiming"} /\ faults \in Nat
      /\ worker[w] \in WorkerRecord
  BY WorkerFacts DEF Post, Posted, PostFails, Interrupted, Local
<1>2. CASE Post(w)
  <2> DEFINE r == [worker[w] EXCEPT !.tries = @ + 1, !.wake = 0]
  <2>1. /\ r.pc = worker[w].pc /\ r.body = worker[w].body
        /\ r.heart = worker[w].heart /\ r.job = worker[w].job
        /\ r.token = worker[w].token /\ r.misses = worker[w].misses
        /\ r.stuck = worker[w].stuck /\ r.stopping = worker[w].stopping
        /\ r.cancel = worker[w].cancel
    BY <1>1 DEF WorkerRecord
  <2>2. Resume(w, "execute", r, Call("complete", worker[w])) /\ faults' = faults
    BY <1>2 DEF Post
  <2> HIDE DEF r
  <2>3. /\ worker'[w] = r /\ line'[w]["execute"] = Call("complete", worker[w])
        /\ line'[w]["renew"] = line[w]["renew"]
    BY <2>2, ResumeFacts DEF Task
  <2> QED
    BY <1>1, <2>1, <2>2, <2>3, CallFacts, ExecuteGoesOn DEF Failing
<1>3. CASE Posted(w)
  <2>1. line[w]["execute"].answer \in {"ok", "fenced", "refused"} /\ faults' = faults
    BY <1>3 DEF Posted, Answered
  <2>2. /\ line[w]["execute"].kind = "complete"
        /\ line[w]["execute"].body = worker[w].body
    BY <1>3, <2>1, CallFacts, WorkerFacts DEF AwaitOK, Posted, Reporting
  <2>3. CASE line[w]["execute"].answer \in {"ok", "fenced"}
    <3>1. End(w)
      BY <1>3, <2>3 DEF Posted, Answered
    <3>2. \A j, k : ~Attends(worker[w], line[w]["execute"], line[w]["renew"],
                             clock, j, k)
      BY <2>2, <2>3 DEF Attends, Granted
    <3> QED
      BY <1>1, <2>1, <3>1, <3>2, EndGoesOn
  <2>4. CASE line[w]["execute"].answer = "refused"
    <3>1. Complain(w, "fatal")
      BY <1>3, <2>4 DEF Posted, Answered
    <3>2. worker[w].body = "invalid"
      BY <2>2, <2>4, TimelyFacts DEF PlaceOK
    <3> QED
      BY <1>1, <2>1, <3>1, <3>2, ComplainGoesOn DEF Failing
  <2> QED
    BY <2>1, <2>3, <2>4
<1>4. CASE PostFails(w)
  <2>1. /\ Failed(w, "execute") /\ faults' >= faults
        /\ \/ faults' > faults
           \/ \A j, i : ~Attends(worker[w], line[w]["execute"],
                                 line[w]["renew"], clock, j, i)
    BY <1>1, <1>4, FailedFacts DEF PostFails, Task
  <2>2. CASE End(w)
    BY <2>1, <2>2, EndGoesOn
  <2>3. CASE worker[w].pc = "committing" /\ Complain(w, "retry")
    BY <1>1, <2>1, <2>3, ComplainGoesOn
  <2> DEFINE r == [worker[w] EXCEPT !.wake = clock + Pause[worker[w].tries]]
  <2>4. CASE Resume(w, "execute", r, NoCall)
    <3>1. /\ r.pc = worker[w].pc /\ r.body = worker[w].body
          /\ r.heart = worker[w].heart /\ r.job = worker[w].job
          /\ r.token = worker[w].token /\ r.misses = worker[w].misses
          /\ r.stuck = worker[w].stuck /\ r.stopping = worker[w].stopping
          /\ r.cancel = worker[w].cancel
      BY <1>1 DEF WorkerRecord
    <3> HIDE DEF r
    <3>2. /\ worker'[w] = r /\ line'[w]["execute"] = NoCall
          /\ line'[w]["renew"] = line[w]["renew"]
      BY <2>4, ResumeFacts DEF Task
    <3> QED
      BY <1>1, <2>1, <3>1, <3>2, ExecuteGoesOn DEF Failing
  <2> QED
    BY <1>4, <2>2, <2>3, <2>4 DEF PostFails
<1>5. CASE Interrupted(w)
  <2>1. End(w) /\ worker[w].cancel /\ faults' = faults
    BY <1>5 DEF Interrupted
  <2> QED
    BY <1>1, <2>1, AtWork, EndGoesOn DEF Attends
<1> QED
  BY <1>2, <1>3, <1>4, <1>5

\* renew goes on, as r and with the call d or none.
LEMMA RenewalGoesOn ==
    ASSUME Types, Local, Timely, NEW w \in Worker, NEW r, NEW d,
           Resume(w, "renew", r, d), worker[w].heart # "off",
           r.pc = worker[w].pc, r.job = worker[w].job, r.token = worker[w].token,
           r.body = worker[w].body, faults' >= faults,
           \/ faults' > faults
           \/ \A j, k : ~Attends(worker[w], line[w]["execute"], line[w]["renew"],
                                 clock, j, k)
           \/ /\ r.heart # "off"
              /\ worker[w].misses = 0 => r.misses = 0
              /\ r.stuck = worker[w].stuck /\ r.stopping = worker[w].stopping
              /\ r.cancel = worker[w].cancel
              /\ d # NoCall => d.sent = clock
              /\ d.answer # "fenced"
    PROVE  GoesOn(w)
<1>1. /\ worker'[w] = r /\ line'[w]["execute"] = line[w]["execute"]
      /\ line'[w]["renew"] = d
  BY ResumeFacts DEF Task
<1>2. /\ \A j, k : Owns(r, line[w]["execute"], j, k)
                   => Owns(worker[w], line[w]["execute"], j, k)
      /\ Failing(r) <=> Failing(worker[w])
  BY DEF Owns, Failing
<1>3. clock < clock + Timeout
  BY TimelyFacts, TimeConstants
<1>4. ASSUME NEW j, NEW k, ~(faults' > faults),
             Attends(worker[w], line[w]["execute"], line[w]["renew"], clock, j, k)
      PROVE  Attends(r, line[w]["execute"], d, clock, j, k)
  BY <1>3, <1>4 DEF Attends
<1> QED
  BY <1>1, <1>2, <1>4 DEF GoesOn

LEMMA RenewsGoOn ==
    ASSUME Patience, Types, Local, Timely, NEW w \in Worker, RenewNext(w)
    PROVE  GoesOn(w)
<1>1. /\ worker[w].heart # "off" /\ faults \in Nat /\ worker[w] \in WorkerRecord
      /\ worker[w].pc \notin {"idle", "claiming"}
  <2>1. worker[w].heart # "off"
    BY DEF RenewNext, Wake, Renewed, RenewFails
  <2> QED
    BY <2>1, AtRest, WorkerFacts DEF Local
<1>2. CASE Wake(w)
  <2>1. CASE worker[w].stopping \/ Stalled(worker[w])
    <3> DEFINE r == Cancelled(worker[w])
    <3>1. /\ r.pc = worker[w].pc /\ r.job = worker[w].job
          /\ r.token = worker[w].token /\ r.body = worker[w].body
      BY <1>1 DEF Cancelled, WorkerRecord
    <3>2. Resume(w, "renew", r, NoCall) /\ faults' = faults
      BY <1>2, <2>1 DEF Wake
    <3> HIDE DEF r
    <3>3. worker[w].stopping \/ worker[w].stuck
      BY <1>1, <2>1, WorksOn, TimelyFacts, TimeConstants DEF Stalled
    <3>4. \A j, k : ~Attends(worker[w], line[w]["execute"], line[w]["renew"],
                             clock, j, k)
      BY <1>1, <3>3, AtWork DEF Attends
    <3> QED
      BY <1>1, <3>1, <3>2, <3>4, RenewalGoesOn
  <2>2. CASE ~(worker[w].stopping \/ Stalled(worker[w]))
    <3> DEFINE r == [worker[w] EXCEPT !.heart = "asking"]
               q == [worker[w] EXCEPT !.body = "none"]
               d == Call("heartbeat", q)
    <3>1. /\ r.pc = worker[w].pc /\ r.job = worker[w].job
          /\ r.token = worker[w].token /\ r.body = worker[w].body
          /\ r.heart = "asking" /\ r.misses = worker[w].misses
          /\ r.stuck = worker[w].stuck /\ r.stopping = worker[w].stopping
          /\ r.cancel = worker[w].cancel
      BY <1>1 DEF WorkerRecord
    <3>2. Resume(w, "renew", r, d) /\ faults' = faults
      BY <1>2, <2>2 DEF Wake
    <3> HIDE DEF r, q
    <3>3. d.sent = clock /\ d.answer = "pending"
      BY CallFacts
    <3> HIDE DEF d
    <3> QED
      BY <1>1, <3>1, <3>2, <3>3, RenewalGoesOn
  <2> QED
    BY <2>1, <2>2
<1>3. CASE Renewed(w)
  <2>1. CASE Answered(w, "renew", "ok")
    <3> DEFINE r == [Asleep(worker[w]) EXCEPT !.renewed = line[w]["renew"].sent,
                                              !.misses = 0]
    <3>1. /\ r.pc = worker[w].pc /\ r.job = worker[w].job
          /\ r.token = worker[w].token /\ r.body = worker[w].body
          /\ r.heart = "asleep" /\ r.misses = 0
          /\ r.stuck = worker[w].stuck /\ r.stopping = worker[w].stopping
          /\ r.cancel = worker[w].cancel
      BY <1>1 DEF WorkerRecord, Asleep
    <3>2. Resume(w, "renew", r, NoCall) /\ faults' = faults
      BY <1>3, <2>1 DEF Renewed, Answered
    <3> HIDE DEF r
    <3> QED
      BY <1>1, <3>1, <3>2, CallFacts, RenewalGoesOn
  <2>2. CASE Answered(w, "renew", "fenced")
    <3> DEFINE r == Cancelled(worker[w])
    <3>1. /\ r.pc = worker[w].pc /\ r.job = worker[w].job
          /\ r.token = worker[w].token /\ r.body = worker[w].body
      BY <1>1 DEF Cancelled, WorkerRecord
    <3>2. Resume(w, "renew", r, NoCall) /\ faults' = faults
      BY <1>3, <2>2 DEF Renewed, Answered
    <3> HIDE DEF r
    <3>3. \A j, k : ~Attends(worker[w], line[w]["execute"], line[w]["renew"],
                             clock, j, k)
      BY <1>1, <2>2, AtWork DEF Attends, Answered
    <3> QED
      BY <1>1, <3>1, <3>2, <3>3, RenewalGoesOn
  <2> QED
    BY <1>3, <2>1, <2>2 DEF Renewed
<1>4. CASE RenewFails(w)
  <2> DEFINE q == [worker[w] EXCEPT !.misses = @ + 1]
             r == IF GivesUp(q) THEN Cancelled(q) ELSE Asleep(q)
  <2>1. /\ r.pc = worker[w].pc /\ r.job = worker[w].job
        /\ r.token = worker[w].token /\ r.body = worker[w].body
    BY <1>1 DEF WorkerRecord, Cancelled, Asleep
  <2>2. Resume(w, "renew", r, NoCall) /\ Failed(w, "renew")
    BY <1>4 DEF RenewFails
  <2> HIDE DEF r
  <2> QED
    BY <1>1, <2>1, <2>2, FailedFacts, RenewalGoesOn DEF Task
<1> QED
  BY <1>2, <1>3, <1>4 DEF RenewNext

LEMMA EndsGoOn ==
    ASSUME Patience, Types, Local, Timely, NEW w \in Worker, Die(w) \/ Probe(w)
    PROVE  GoesOn(w)
<1>1. End(w) /\ faults \in Nat
  BY DEF Die, Probe, Local
<1>2. CASE Die(w)
  BY <1>1, <1>2, EndGoesOn DEF Die
<1>3. CASE Probe(w)
  <2>1. /\ worker[w].pc \notin {"idle", "claiming"}
        /\ worker[w].stopping \/ worker[w].stuck
    BY <1>3, WorksOn, TimelyFacts DEF Probe, Healthy, PlaceOK
  <2> QED
    BY <1>1, <1>3, <2>1, AtWork, EndGoesOn DEF Attends, Probe
<1> QED
  BY <1>2, <1>3

LEMMA WorkerGoesOn ==
    ASSUME Patience, Types, Local, Timely, NEW w \in Worker,
           ExecuteNext(w) \/ RenewNext(w) \/ FaultNext(w)
    PROVE  GoesOn(w)
<1>1. CASE ExecuteNext(w)
  BY <1>1, PollGoesOn, BeginGoesOn, FetchGoesOn, InferGoesOn, PostGoesOn
     DEF ExecuteNext
<1>2. CASE FaultNext(w)
  BY <1>2, InferGoesOn, EndsGoOn DEF FaultNext
<1> QED
  BY <1>1, <1>2, RenewsGoOn

-----------------------------------------------------------------------------
(* Each attempt has one owner *)

\* What w changes of its own, and the requests it leaves behind.
LeavesBehind(w) ==
    /\ UNCHANGED vars
    /\ \A v \in Worker : v # w => worker'[v] = worker[v] /\ line'[v] = line[v]
    /\ late \subseteq late'
    /\ \A c \in late' \ late : \E k \in Task :
          /\ c = [line[w][k] EXCEPT !.sent = CopyNumber(line[w][k])]
          /\ line[w][k].answer = "pending" /\ line'[w][k] # line[w][k]

LEMMA WorkerLeaves ==
    ASSUME Local, NEW w \in Worker,
           ExecuteNext(w) \/ RenewNext(w) \/ FaultNext(w)
    PROVE  LeavesBehind(w)
<1>1. worker \in [Worker -> WorkerRecord] /\ line \in [Worker -> [Task -> CallRecord]]
  BY DEF Local
<1>2. ASSUME NEW r, NEW c, worker' = [worker EXCEPT ![w] = r], Line(w, c),
             UNCHANGED vars
      PROVE  LeavesBehind(w)
  <2>1. line'[w] = c
    BY <1>1, <1>2 DEF Line
  <2> QED
    BY <1>1, <1>2, <2>1 DEF Line, LeavesBehind
<1>3. ASSUME NEW r, worker' = [worker EXCEPT ![w] = r], UNCHANGED <<vars, line, late>>
      PROVE  LeavesBehind(w)
  BY <1>1, <1>3 DEF LeavesBehind
<1>4. ASSUME NEW k, NEW r, NEW c, Resume(w, k, r, c), UNCHANGED vars
      PROVE  LeavesBehind(w)
  BY <1>2, <1>4 DEF Resume
<1>5. ASSUME End(w), UNCHANGED vars PROVE LeavesBehind(w)
  BY <1>2, <1>5 DEF End
<1>6. ASSUME NEW body, Complain(w, body), UNCHANGED vars PROVE LeavesBehind(w)
  BY <1>4, <1>5, <1>6 DEF Complain
<1>7. CASE Poll(w) \/ PollAgain(w) \/ Begin(w) \/ Fetched(w)
  BY <1>4, <1>5, <1>6, <1>7 DEF Poll, PollAgain, Begin, Fetched
<1>8. CASE Receive(w) \/ Infer(w) \/ Stick(w) \/ Stop(w)
  BY <1>1, <1>3, <1>6, <1>8 DEF Receive, Infer, Stick, Stop
<1>9. CASE Inferred(w) \/ Interrupted(w) \/ Die(w) \/ Probe(w)
  BY <1>4, <1>5, <1>6, <1>9 DEF Inferred, Interrupted, Die, Probe
<1>10. CASE Post(w) \/ Posted(w) \/ PostFails(w)
  BY <1>4, <1>5, <1>6, <1>10 DEF Post, Posted, PostFails
<1>11. CASE RenewNext(w)
  BY <1>4, <1>11 DEF RenewNext, Wake, Renewed, RenewFails
<1> QED
  BY <1>7, <1>8, <1>9, <1>10, <1>11 DEF ExecuteNext, FaultNext

\* A report that asks for another attempt is that of a worker that failed.
LEMMA RetryIsFailing ==
    ASSUME Types, Local, Timely, NEW w \in Worker, NEW k \in Task,
           Retries(line[w][k])
    PROVE  /\ k = "execute" /\ Failing(worker[w])
           /\ Owns(worker[w], line[w]["execute"], line[w][k].job, line[w][k].token)
<1>1. k = "execute"
  BY TimelyFacts, NoCallOK DEF HeartOK, Retries, Task
<1>2. worker[w].pc \in Reporting
  BY <1>1, AtRest, AtWork, NoCallOK DEF Retries
<1> QED
  BY <1>1, <1>2, WorkerFacts, NoCallOK
     DEF AwaitOK, WorkerOK, Reporting, Retries, Failing, Owns

LEMMA WorkerTickets ==
    ASSUME Patience, Types, Local, Timely, TicketsOK, NEW w \in Worker,
           ExecuteNext(w) \/ RenewNext(w) \/ FaultNext(w)
    PROVE  TicketsOK'
<1>1. GoesOn(w) /\ LeavesBehind(w)
  BY WorkerGoesOn, WorkerLeaves
<1>2. job' = job
  BY <1>1 DEF LeavesBehind, vars
<1>3. ASSUME NEW v \in Worker, NEW j, NEW k,
             Owns(worker'[v], line'[v]["execute"], j, k)
      PROVE  Owns(worker[v], line[v]["execute"], j, k)
  BY <1>1, <1>3 DEF GoesOn, LeavesBehind
<1>4. \A v \in Worker : \A j, k :
         Owns(worker'[v], line'[v]["execute"], j, k) => Begun(job', j, k)
  BY <1>2, <1>3 DEF TicketsOK
<1>5. \A u, v \in Worker : \A j, k :
         /\ Owns(worker'[u], line'[u]["execute"], j, k)
         /\ Owns(worker'[v], line'[v]["execute"], j, k)
         => u = v
  BY <1>3 DEF TicketsOK
<1>6. ASSUME NEW c \in late', Retries(c)
      PROVE  /\ Begun(job', c.job, c.token)
             /\ \A v \in Worker :
                   Owns(worker'[v], line'[v]["execute"], c.job, c.token)
                   => Failing(worker'[v])
  <2>1. /\ Begun(job, c.job, c.token)
        /\ \A v \in Worker : Owns(worker[v], line[v]["execute"], c.job, c.token)
                             => Failing(worker[v])
    <3>1. CASE c \in late
      BY <1>6, <3>1 DEF TicketsOK
    <3>2. CASE c \notin late
      <4>1. PICK k \in Task : c = [line[w][k] EXCEPT !.sent = CopyNumber(line[w][k])]
        BY <1>1, <1>6, <3>2 DEF LeavesBehind
      <4>2. line[w][k] \in CallRecord
        BY WorkerFacts
      <4>3. /\ c.kind = line[w][k].kind /\ c.body = line[w][k].body
            /\ c.job = line[w][k].job /\ c.token = line[w][k].token
        BY <4>1, <4>2 DEF CallRecord
      <4>4. /\ Failing(worker[w])
            /\ Owns(worker[w], line[w]["execute"], c.job, c.token)
        BY <1>6, <4>3, RetryIsFailing DEF Retries
      <4> QED
        BY <4>4 DEF TicketsOK
    <3> QED
      BY <3>1, <3>2
  <2>2. ASSUME NEW v \in Worker,
               Owns(worker'[v], line'[v]["execute"], c.job, c.token)
        PROVE  Failing(worker'[v])
    BY <1>1, <1>3, <2>1, <2>2 DEF GoesOn, LeavesBehind
  <2> QED
    BY <1>2, <2>1, <2>2
<1>7. ASSUME NEW v \in Worker, line'[v]["execute"].answer = "checked"
      PROVE  line'[v]["execute"] = line[v]["execute"]
  BY <1>1, <1>7, NoCallOK, CallFacts DEF GoesOn, LeavesBehind
<1>8. \A v \in Worker :
         LET c == line'[v]["execute"]
         IN  c.answer = "checked" =>
               /\ c.kind = "audio"
               /\ job'[c.job].status = "processing" /\ job'[c.job].token = c.token
                  => c.upload = job'[c.job].upload
  BY <1>2, <1>7 DEF TicketsOK
<1> QED
  BY <1>2, <1>4, <1>5, <1>6, <1>8 DEF TicketsOK

LEMMA BegunLasts ==
    ASSUME Types, TicketsOK, [Next]_vars, NEW j, NEW k, Begun(job, j, k)
    PROVE  Begun(job', j, k)
<1>1. /\ MovesOn(j) /\ j \in Job /\ job[j] \in JobRecord /\ k \in Nat \ {0}
      /\ job[j].attempts \in Nat
      /\ job[j].status = "unborn" => job[j].attempts = 0
  BY StepMoves DEF Begun, Types, TypeOK, TicketsOK, JobRecord
<1>2. CASE job[j].status = "gone"
  BY <1>1, <1>2, StepOutcomes DEF Begun
<1>3. CASE job[j].status = "unborn"
  BY <1>1, <1>3 DEF Begun
<1>4. CASE IsTaken(j) /\ k <= job[j].attempts
  <2>1. job'[j].attempts = job[j].attempts + 1
    BY <1>1, <1>4 DEF IsTaken, Leasing, SetStatus, JobRecord
  <2> QED
    BY <1>1, <1>4, <2>1 DEF Begun
<1>5. CASE IsRemoved(j)
  BY <1>1, <1>5 DEF IsRemoved, NoRecord, Begun
<1>6. CASE /\ job'[j] = job[j] \/ IsRenewed(j) \/ IsReturned(j) \/ IsCompleted(j)
              \/ IsFailed(j)
           /\ k <= job[j].attempts
  <2>1. job'[j].attempts = job[j].attempts
    BY <1>1, <1>6 DEF IsRenewed, IsReturned, IsCompleted, IsFailed, Fail, SetStatus,
                      JobRecord
  <2> QED
    BY <1>1, <1>6, <2>1 DEF Begun
<1> QED
  BY <1>1, <1>2, <1>3, <1>4, <1>5, <1>6 DEF MovesOn, IsEntered, Begun

LEMMA LeavesProcessing ==
    ASSUME Types, NEW j \in Job,
           IsReturned(j) \/ IsCompleted(j) \/ IsFailed(j) \/ IsRemoved(j)
    PROVE  job'[j].status \notin {"unborn", "processing"}
<1>1. job[j] \in JobRecord
  BY DEF Types, TypeOK
<1>2. CASE IsReturned(j)
  BY <1>1, <1>2 DEF IsReturned, SetStatus, JobRecord
<1>3. CASE IsCompleted(j)
  BY <1>1, <1>3 DEF IsCompleted, SetStatus, JobRecord
<1>4. CASE IsFailed(j)
  BY <1>1, <1>4 DEF IsFailed, Fail, SetStatus, JobRecord
<1>5. CASE IsRemoved(j)
  BY <1>5 DEF IsRemoved, NoRecord
<1> QED
  BY <1>2, <1>3, <1>4, <1>5

\* A job that is attempted now, and was not attempted anew, was before.
LEMMA SameAttempt ==
    ASSUME Types, TicketsOK, [Next]_vars, NEW j, NEW k, Begun(job, j, k),
           job'[j].status = "processing", job'[j].token = k
    PROVE  /\ job[j].status = "processing" /\ job[j].token = k
           /\ job'[j].upload = job[j].upload
           /\ job'[j].attempts = job[j].attempts /\ job'[j].cause = job[j].cause
<1>1. /\ MovesOn(j) /\ j \in Job /\ job[j] \in JobRecord /\ k \in Nat \ {0}
      /\ job[j].attempts \in Nat
  BY StepMoves DEF Begun, Types, TypeOK, JobRecord
<1>2. CASE job'[j] = job[j]
  BY <1>2
<1>3. CASE IsEntered(j)
  BY <1>3 DEF IsEntered, Submitted, SetStatus, NoRecord
<1>4. CASE IsTaken(j)
  <2>1. job'[j].token = job[j].attempts + 1 /\ job[j].status \in Pending
    BY <1>1, <1>4, TakenFacts DEF IsTaken, Leasing, SetStatus, JobRecord, Oldest
  <2> QED
    BY <1>1, <2>1 DEF Begun, Pending
<1>5. CASE IsRenewed(j)
  BY <1>1, <1>5 DEF IsRenewed, JobRecord
<1> QED
  BY <1>1, <1>2, <1>3, <1>4, <1>5, LeavesProcessing DEF MovesOn

LEMMA UnbornLasts ==
    ASSUME Types, TicketsOK, [Next]_vars, NEW j \in Job, job'[j].status = "unborn"
    PROVE  job'[j].attempts = 0
<1>1. /\ MovesOn(j) /\ job[j] \in JobRecord
      /\ job[j].status = "unborn" => job[j].attempts = 0
  BY StepMoves DEF Types, TypeOK, TicketsOK
<1>2. ~IsEntered(j) /\ ~IsTaken(j)
  BY <1>1 DEF IsEntered, Submitted, IsTaken, Leasing, SetStatus, NoRecord, JobRecord
<1>3. ~IsRenewed(j)
  BY <1>1 DEF IsRenewed, JobRecord
<1> QED
  BY <1>1, <1>2, <1>3, LeavesProcessing DEF MovesOn

-----------------------------------------------------------------------------
(* What the API does to the jobs *)

LEMMA TakesAttempt ==
    ASSUME Types, NEW j \in Job, IsTaken(j)
    PROVE  /\ job'[j].status = "processing"
           /\ job'[j].attempts = job[j].attempts + 1
           /\ job'[j].token = job[j].attempts + 1
           /\ job'[j].cause = job[j].cause
           /\ job[j].attempts \in Nat
           /\ job[j].status \in Pending
           /\ job[j].status = "processing" => job[j].lease <= clock
<1>1. job[j] \in JobRecord /\ job[j].attempts \in Nat
  BY DEF Types, TypeOK, JobRecord
<1>2. PICK t \in RecentPast : j \in Waiting(t) /\ job'[j] = Leasing(job[j], t)
  BY DEF IsTaken, Oldest
<1> QED
  BY <1>1, <1>2, TakenFacts DEF Leasing, SetStatus, JobRecord

LEMMA ReturnsStatus ==
    ASSUME Types, NEW j \in Job, IsReturned(j)
    PROVE  job[j].status = "processing" /\ job'[j].status = "queued"
BY LeavesProcessing DEF IsReturned, SetStatus, JobRecord, Types, TypeOK

\* What leaves a job as it is neither returns nor takes it.
LEMMA NothingMoves ==
    ASSUME Types, NEW j \in Job, job'[j].attempts = job[j].attempts,
           job'[j].status # "queued" \/ job[j].status # "processing"
    PROVE  ~IsReturned(j) /\ ~IsTaken(j)
BY ReturnsStatus, TakesAttempt

LEMMA ClaimEffect ==
    ASSUME Types, NEW answer, NEW j \in Job \cup {NoJob}, HandleClaim(answer, j)
    PROVE  /\ answer \in {"ok", "empty"} /\ (answer = "ok" <=> j \in Job)
           /\ j \in Job => IsTaken(j)
           /\ \A i \in Job : IsTaken(i) => i = j
           /\ \A i \in Job : IsReturned(i) => job[i].lease <= clock
<1>1. PICK t \in RecentPast :
         /\ IF Waiting(t) = {} THEN j = NoJob ELSE j \in Oldest(Waiting(t))
         /\ ClaimWith(j, t)
         /\ answer = IF j = NoJob THEN "empty" ELSE "ok"
  BY DEF HandleClaim
<1>2. NoJob \notin Job
  BY IdentifiersAssumption
<1>3. j \in Job => IsTaken(j)
  BY <1>1, <1>2 DEF IsTaken, ClaimWith
<1>4. ASSUME NEW i \in Job, IsTaken(i) PROVE i = j
  BY <1>1, <1>4, ClaimLeaves, TakesAttempt
<1>5. ASSUME NEW i \in Job, IsReturned(i) PROVE job[i].lease <= clock
  <2>1. i # j
    BY <1>3, <1>5, TakesAttempt, ReturnsStatus
  <2>2. i \in Waiting(t)
    BY <1>1, <1>5, <2>1, ClaimLeaves, ReturnsStatus
  <2> QED
    BY <1>5, <2>2, TakenFacts, ReturnsStatus
<1> QED
  BY <1>1, <1>2, <1>3, <1>4, <1>5

LEMMA HeartbeatEffect ==
    ASSUME Types, NEW c, c.job \in Job, NEW answer, HandleHeartbeat(c, answer)
    PROVE  /\ answer \in {"ok", "fenced"}
           /\ answer = "fenced" => \E t \in RecentPast : ~Leased(c.job, c.token, t)
           /\ \A i \in Job : ~IsReturned(i) /\ ~IsTaken(i)
<1>1. job \in [Job -> JobRecord]
  BY DEF Types, TypeOK
<1>2. \A i \in Job : /\ job'[i].attempts = job[i].attempts
                     /\ job'[i].status = job[i].status
  <2>1. CASE \E t \in RecentPast : Heartbeat(c.job, c.token, t)
    BY <1>1, <2>1 DEF Heartbeat, JobRecord
  <2>2. CASE \E t \in RecentPast : Fenced(c, answer, t)
    BY <2>2 DEF Fenced, vars
  <2> QED
    BY <2>1, <2>2 DEF HandleHeartbeat
<1>3. \A i \in Job : ~IsReturned(i) /\ ~IsTaken(i)
  BY <1>2, NothingMoves
<1> QED
  BY <1>3 DEF HandleHeartbeat, Fenced

LEMMA CompleteEffect ==
    ASSUME Types, NEW c, c.job \in Job, NEW answer, HandleComplete(c, answer)
    PROVE  /\ answer \in {"ok", "fenced", "refused"}
           /\ answer = "fenced" => \E t \in RecentPast : ~Leased(c.job, c.token, t)
           /\ answer = "ok" => /\ job[c.job].status = "processing"
                              /\ job[c.job].token = c.token
                              /\ job'[c.job].status # "processing"
           /\ \A i \in Job : ~IsTaken(i)
           /\ \A i \in Job : IsReturned(i) =>
                 i = c.job /\ answer = "ok" /\ c.body = "retry"
<1>1. job \in [Job -> JobRecord]
  BY DEF Types, TypeOK
<1>2. CASE UNCHANGED vars /\ answer = "refused"
  BY <1>2, NothingMoves DEF vars
<1>3. CASE \E t \in RecentPast : Fenced(c, answer, t)
  BY <1>3, NothingMoves DEF Fenced, vars
<1>4. ASSUME NEW t \in RecentPast, answer = "ok",
             \/ c.body = "result" /\ FinishResult(c.job, c.token, t)
             \/ c.body = "retry" /\ FinishRetry(c.job, c.token, t)
             \/ c.body = "retry" /\ FinishError(c.job, c.token, t, TRUE)
             \/ c.body = "fatal" /\ FinishError(c.job, c.token, t, FALSE)
      PROVE  /\ job[c.job].status = "processing" /\ job[c.job].token = c.token
             /\ job'[c.job].status # "processing"
             /\ \A i \in Job : ~IsTaken(i)
             /\ \A i \in Job : IsReturned(i) => i = c.job /\ c.body = "retry"
  <2>1. PICK r : /\ job' = [job EXCEPT ![c.job] = r]
                 /\ r.attempts = job[c.job].attempts
                 /\ r.status \in {"completed", "queued", "error"}
                 /\ r.status = "queued" => c.body = "retry"
    <3>1. CASE FinishResult(c.job, c.token, t)
      <4> DEFINE r == [SetStatus(job[c.job], "completed") EXCEPT
                         !.result = c.token, !.updated = t]
      <4>1. r.attempts = job[c.job].attempts /\ r.status = "completed"
        BY <1>1 DEF SetStatus, JobRecord
      <4>2. job' = [job EXCEPT ![c.job] = r]
        BY <3>1 DEF FinishResult, Settle
      <4> HIDE DEF r
      <4> QED
        BY <4>1, <4>2
    <3>2. CASE c.body = "retry" /\ FinishRetry(c.job, c.token, t)
      <4> DEFINE r == SetStatus(job[c.job], "queued")
      <4>1. r.attempts = job[c.job].attempts /\ r.status = "queued"
        BY <1>1 DEF SetStatus, JobRecord
      <4>2. job' = [job EXCEPT ![c.job] = r]
        BY <3>2 DEF FinishRetry
      <4> HIDE DEF r
      <4> QED
        BY <3>2, <4>1, <4>2
    <3>3. ASSUME NEW b, FinishError(c.job, c.token, t, b)
          PROVE  /\ job' = [job EXCEPT ![c.job] = Fail(job[c.job], "reported", t)]
                 /\ Fail(job[c.job], "reported", t).attempts = job[c.job].attempts
                 /\ Fail(job[c.job], "reported", t).status = "error"
      BY <1>1, <3>3 DEF FinishError, Settle, Fail, SetStatus, JobRecord
    <3> QED
      BY <1>4, <3>1, <3>2, <3>3
  <2>2. job[c.job].status = "processing" /\ job[c.job].token = c.token
    BY <1>4 DEF FinishResult, FinishRetry, FinishError, Leased
  <2>3. /\ job'[c.job] = r
        /\ \A i \in Job : i # c.job => job'[i] = job[i]
    BY <1>1, <2>1
  <2>4. ASSUME NEW i \in Job
        PROVE  /\ job'[i].attempts = job[i].attempts
               /\ i # c.job => job'[i].status = job[i].status
    BY <2>1, <2>3
  <2> QED
    BY <2>1, <2>2, <2>3, <2>4, TakesAttempt, ReturnsStatus
<1> QED
  BY <1>2, <1>3, <1>4 DEF HandleComplete

-----------------------------------------------------------------------------
(* A step of the API leaves each attempt its one owner *)

LEMMA AudioIsOwned ==
    ASSUME Types, Local, Timely, NEW w \in Worker, line[w]["execute"].kind = "audio"
    PROVE  Owns(worker[w], line[w]["execute"], line[w]["execute"].job,
                line[w]["execute"].token)
<1>1. worker[w].pc \notin {"idle", "claiming"}
  BY AtRest, NoCallOK
<1>2. worker[w].pc = "fetching"
  BY <1>1, WorkerFacts, TimelyFacts, NoCallOK
     DEF WorkerRecord, PlaceOK, AwaitOK, Reporting
<1> QED
  BY <1>1, <1>2, TimelyFacts DEF PlaceOK, Owns

LEMMA CheckedStays ==
    ASSUME Types, Local, Timely, TicketsOK, [Next]_vars, NEW w \in Worker,
           line'[w]["execute"] = line[w]["execute"] 
    PROVE  LET c == line'[w]["execute"]
           IN  c.answer = "checked" =>
                 /\ c.kind = "audio"
                 /\ job'[c.job].status = "processing" /\ job'[c.job].token = c.token
                    => c.upload = job'[c.job].upload
<1> DEFINE c == line[w]["execute"]
<1> SUFFICES ASSUME c.answer = "checked"
             PROVE  /\ c.kind = "audio"
                    /\ job'[c.job].status = "processing" /\ job'[c.job].token = c.token
                       => c.upload = job'[c.job].upload
  OBVIOUS
<1>1. /\ c.kind = "audio"
      /\ job[c.job].status = "processing" /\ job[c.job].token = c.token
         => c.upload = job[c.job].upload
  BY DEF TicketsOK
<1>2. Begun(job, c.job, c.token)
  BY <1>1, AudioIsOwned DEF TicketsOK
<1> QED
  BY <1>1, <1>2, SameAttempt

\* Nobody is told of an attempt.
LEMMA KeepTickets ==
    ASSUME Types, TicketsOK, [Next]_vars, UNCHANGED worker, late' \subseteq late,
           \A w \in Worker : \A j, k :
              Owns(worker[w], line'[w]["execute"], j, k)
              => Owns(worker[w], line[w]["execute"], j, k),
           \A w \in Worker :
              LET c == line'[w]["execute"]
              IN  c.answer = "checked" =>
                    /\ c.kind = "audio"
                    /\ job'[c.job].status = "processing" /\ job'[c.job].token = c.token
                       => c.upload = job'[c.job].upload
    PROVE  TicketsOK'
<1>1. \A w \in Worker : \A j, k :
         Owns(worker'[w], line'[w]["execute"], j, k) => Begun(job', j, k)
  BY BegunLasts DEF TicketsOK
<1>2. \A v, w \in Worker : \A j, k :
         /\ Owns(worker'[v], line'[v]["execute"], j, k)
         /\ Owns(worker'[w], line'[w]["execute"], j, k)
         => v = w
  BY DEF TicketsOK
<1>3. \A c \in late' : Retries(c) =>
         /\ Begun(job', c.job, c.token)
         /\ \A w \in Worker :
               Owns(worker'[w], line'[w]["execute"], c.job, c.token)
               => Failing(worker'[w])
  BY BegunLasts DEF TicketsOK
<1> QED
  BY <1>1, <1>2, <1>3, UnbornLasts DEF TicketsOK

LEMMA QuietTickets ==
    ASSUME Types, Local, Timely, TicketsOK, [Next]_vars, UNCHANGED <<worker, line>>,
           late' \subseteq late
    PROVE  TicketsOK'
BY KeepTickets, CheckedStays

LEMMA ServeAudioTickets ==
    ASSUME Types, Local, Timely, TicketsOK, NEW w \in Worker, ServeAudio(w)
    PROVE  TicketsOK'
<1> DEFINE c == line[w]["execute"]
           e == line'[w]["execute"]
<1>1. /\ c.kind = "audio" /\ c \in CallRecord
      /\ UNCHANGED <<vars, worker, late>> /\ job' = job
  BY WorkerFacts DEF ServeAudio, vars
<1>2. /\ e.kind = "audio" /\ e.job = c.job /\ e.token = c.token
      /\ e.answer = "checked" => e.upload = job[c.job].upload
      /\ \A v \in Worker : v # w => line'[v] = line[v]
  <2>1. line[w] \in [Task -> CallRecord] /\ "execute" \in Task
    BY DEF Local, Task
  <2>2. \/ e = [c EXCEPT !.answer = "checked", !.upload = job[c.job].upload]
        \/ e = [c EXCEPT !.answer = "fenced"]
        \/ e = [c EXCEPT !.answer = "ok"]
    BY <2>1 DEF ServeAudio, Local
  <2>3. \A v \in Worker : v # w => line'[v] = line[v]
    BY <2>1 DEF ServeAudio, Local
  <2> HIDE DEF e
  <2> QED
    BY <1>1, <2>2, <2>3 DEF CallRecord
<1> HIDE DEF e
<1>3. \A j, k : Owns(worker[w], e, j, k) => Owns(worker[w], c, j, k)
  BY <1>1, <1>2 DEF Owns
<1>4. \A v \in Worker : \A j, k :
         Owns(worker[v], line'[v]["execute"], j, k)
         => Owns(worker[v], line[v]["execute"], j, k)
  BY <1>2, <1>3 DEF e
<1>5. \A v \in Worker :
         LET d == line'[v]["execute"]
         IN  d.answer = "checked" =>
               /\ d.kind = "audio"
               /\ job'[d.job].status = "processing" /\ job'[d.job].token = d.token
                  => d.upload = job'[d.job].upload
  BY <1>1, <1>2 DEF TicketsOK, e
<1> QED
  BY <1>1, <1>4, <1>5, KeepTickets

\* What Serve does to the call it answers.
LEMMA ServeEffect ==
    ASSUME Types, Local, NEW w \in Worker, NEW k \in Task, Serve(w, k)
    PROVE  \E answer \in {"ok", "empty", "fenced", "refused"},
              j \in Job \cup {NoJob} :
              LET c == line[w][k]
                  f == line'[w][k]
              IN  /\ Handle(c, answer, j)
                  /\ c.answer = "pending" /\ InTime(c) /\ CallOK(c)
                  /\ f.kind = c.kind /\ f.body = c.body /\ f.sent = c.sent
                  /\ f.answer = answer /\ f.job = j
                  /\ c.kind # "claim" => f.token = c.token
                  /\ c.kind = "claim" /\ j # NoJob => f.token = job'[j].token
                  /\ UNCHANGED <<worker, late, faults>>
                  /\ \A v \in Worker, i \in Task :
                        v # w \/ i # k => line'[v][i] = line[v][i]
<1>1. PICK c : c = line[w][k] /\ c \in CallRecord /\ CallOK(c)
  BY WorkerFacts
<1>2. PICK answer \in {"ok", "empty", "fenced", "refused"}, j \in Job \cup {NoJob} :
         /\ Handle(c, answer, j)
         /\ line' = [line EXCEPT ![w][k] =
                        [c EXCEPT !.answer = answer, !.job = j,
                                  !.token = IF c.kind = "claim" /\ j # NoJob
                                            THEN job'[j].token ELSE @]]
  BY <1>1 DEF Serve
<1>3. PICK f : f = [c EXCEPT !.answer = answer, !.job = j,
                             !.token = IF c.kind = "claim" /\ j # NoJob
                                       THEN job'[j].token ELSE @]
  OBVIOUS
<1>4. /\ f.kind = c.kind /\ f.body = c.body /\ f.sent = c.sent
      /\ f.answer = answer /\ f.job = j
      /\ c.kind # "claim" => f.token = c.token
      /\ c.kind = "claim" /\ j # NoJob => f.token = job'[j].token
  BY <1>1, <1>3 DEF CallRecord
<1>5. /\ line'[w][k] = f
      /\ \A v \in Worker, i \in Task :
            v # w \/ i # k => line'[v][i] = line[v][i]
  BY <1>2, <1>3 DEF Local
<1>6. c.answer = "pending" /\ InTime(c) /\ UNCHANGED <<worker, late, faults>>
  BY <1>1 DEF Serve
<1> QED
  BY <1>1, <1>2, <1>4, <1>5, <1>6

\* A worker is told of the next attempt of a job that nobody has been told of.
LEMMA ClaimTickets ==
    ASSUME Types, Local, Timely, TicketsOK, [Next]_vars, NEW j \in Job, IsTaken(j),
           UNCHANGED <<worker, late>>, NEW w \in Worker,
           line[w]["execute"].kind = "claim", line[w]["execute"].answer = "pending",
           line'[w]["execute"].kind = "claim", line'[w]["execute"].answer = "ok",
           line'[w]["execute"].job = j, line'[w]["execute"].token = job'[j].token,
           \A v \in Worker : v # w => line'[v]["execute"] = line[v]["execute"]
    PROVE  TicketsOK'
<1> DEFINE n == job[j].attempts + 1
<1>1. /\ job'[j].token = n /\ job'[j].attempts = n /\ n \in Nat \ {0}
      /\ ~Begun(job, j, n)
  BY TakesAttempt DEF Begun, Pending
<1>2. worker[w].pc \in {"idle", "claiming"}
  BY AtWork
<1> HIDE DEF n
<1>3. ASSUME NEW i, NEW m, Owns(worker[w], line'[w]["execute"], i, m)
      PROVE  i = j /\ m = n
  BY <1>1, <1>2, <1>3 DEF Owns
<1>4. Begun(job', j, n)
  BY <1>1 DEF Begun
<1>5. ASSUME NEW v \in Worker, NEW i, NEW m,
             Owns(worker'[v], line'[v]["execute"], i, m)
      PROVE  Begun(job', i, m)
  BY <1>3, <1>4, <1>5, BegunLasts DEF TicketsOK
<1>6. ASSUME NEW u \in Worker, NEW v \in Worker, NEW i, NEW m,
             Owns(worker'[u], line'[u]["execute"], i, m),
             Owns(worker'[v], line'[v]["execute"], i, m), u # v
      PROVE  FALSE
  <2>1. CASE u # w /\ v # w
    BY <1>6, <2>1 DEF TicketsOK
  <2>2. CASE u = w \/ v = w
    <3>1. i = j /\ m = n
      BY <1>3, <1>6, <2>2
    <3>2. \E x \in Worker : Owns(worker[x], line[x]["execute"], j, n)
      BY <1>6, <2>2, <3>1
    <3> QED
      BY <1>1, <3>2 DEF TicketsOK
  <2> QED
    BY <2>1, <2>2
<1>7. ASSUME NEW c \in late, Retries(c)
      PROVE  /\ Begun(job', c.job, c.token)
             /\ \A v \in Worker :
                   Owns(worker'[v], line'[v]["execute"], c.job, c.token)
                   => Failing(worker'[v])
  <2>1. Begun(job, c.job, c.token)
    BY <1>7 DEF TicketsOK
  <2>2. ~(c.job = j /\ c.token = n)
    BY <1>1, <2>1
  <2>3. ASSUME NEW v \in Worker,
               Owns(worker[v], line'[v]["execute"], c.job, c.token)
        PROVE  Failing(worker[v])
    <3>1. v # w
      BY <1>3, <2>2, <2>3
    <3> QED
      BY <1>7, <2>3, <3>1 DEF TicketsOK
  <2> QED
    BY <2>1, <2>3, BegunLasts
<1>8. ASSUME NEW v \in Worker
      PROVE  LET c == line'[v]["execute"]
             IN  c.answer = "checked" =>
                   /\ c.kind = "audio"
                   /\ job'[c.job].status = "processing" /\ job'[c.job].token = c.token
                      => c.upload = job'[c.job].upload
  <2>1. CASE v = w
    BY <2>1
  <2>2. CASE v # w
    BY <2>2, CheckedStays
  <2> QED
    BY <2>1, <2>2
<1>9. \A v \in Worker : \A i, m :
         Owns(worker'[v], line'[v]["execute"], i, m) => Begun(job', i, m)
  BY <1>5
<1>10. \A u, v \in Worker : \A i, m :
         /\ Owns(worker'[u], line'[u]["execute"], i, m)
         /\ Owns(worker'[v], line'[v]["execute"], i, m)
         => u = v
  BY <1>6
<1> QED
  BY <1>7, <1>8, <1>9, <1>10, UnbornLasts DEF TicketsOK

LEMMA ServeTickets ==
    ASSUME Types, Local, Timely, TicketsOK, NEW w \in Worker, NEW k \in Task,
           Serve(w, k)
    PROVE  TicketsOK'
<1> DEFINE c == line[w][k]
           f == line'[w][k]
<1>1. PICK answer \in {"ok", "empty", "fenced", "refused"}, j \in Job \cup {NoJob} :
         /\ Handle(c, answer, j)
         /\ c.answer = "pending" /\ InTime(c) /\ CallOK(c)
         /\ f.kind = c.kind /\ f.body = c.body /\ f.sent = c.sent
         /\ f.answer = answer /\ f.job = j
         /\ c.kind # "claim" => f.token = c.token
         /\ c.kind = "claim" /\ j # NoJob => f.token = job'[j].token
         /\ UNCHANGED <<worker, late, faults>>
         /\ \A v \in Worker, i \in Task :
               v # w \/ i # k => line'[v][i] = line[v][i]
  BY ServeEffect
<1>2. /\ [Next]_vars
      /\ c.kind \in {"claim", "heartbeat", "complete"}
      /\ c.kind # "claim" => j = c.job
  BY <1>1, HandleIsStep
<1>3. c.kind = "claim" => k = "execute"
  BY TimelyFacts, NoCallOK DEF HeartOK, Task
<1>4. "execute" \in Task
  BY DEF Task
<1> HIDE DEF c, f
<1>5. CASE c.kind = "claim" /\ answer = "ok"
  <2>1. j \in Job /\ IsTaken(j) /\ NoJob \notin Job
    BY <1>1, <1>5, ClaimEffect, IdentifiersAssumption DEF Handle
  <2> QED
    BY <1>1, <1>2, <1>3, <1>4, <1>5, <2>1, ClaimTickets DEF c, f
<1>6. CASE ~(c.kind = "claim" /\ answer = "ok")
  <2>1. \A i, m : Owns(worker[w], f, i, m) => Owns(worker[w], c, i, m)
    BY <1>1, <1>2, <1>6 DEF Owns
  <2>2. ASSUME NEW v \in Worker, NEW i, NEW m,
               Owns(worker[v], line'[v]["execute"], i, m)
        PROVE  Owns(worker[v], line[v]["execute"], i, m)
    BY <1>1, <1>4, <2>1, <2>2 DEF c, f
  <2>3. ASSUME NEW v \in Worker
        PROVE  LET e == line'[v]["execute"]
               IN  e.answer = "checked" =>
                     /\ e.kind = "audio"
                     /\ job'[e.job].status = "processing" /\ job'[e.job].token = e.token
                        => e.upload = job'[e.job].upload
    <3>1. CASE v = w /\ k = "execute"
      BY <1>1, <3>1 DEF f
    <3>2. CASE ~(v = w /\ k = "execute")
      <4>1. line'[v]["execute"] = line[v]["execute"]
        BY <1>1, <1>4, <3>2
      <4> QED
        BY <1>2, <4>1, CheckedStays
    <3> QED
      BY <3>1, <3>2
  <2> QED
    BY <1>1, <1>2, <2>2, <2>3, KeepTickets
<1> QED
  BY <1>5, <1>6

LEMMA StepTickets ==
    ASSUME Patience, Types, Local, Truthful, Timely, TicketsOK,
           [WorkersNext]_workersVars
    PROVE  TicketsOK'
<1>1. [Next]_vars
  BY StepLocal
<1>2. CASE UNCHANGED workersVars
  BY <1>1, <1>2, QuietTickets DEF workersVars, own
<1>3. CASE ApiNext
  BY <1>1, <1>3, QuietTickets DEF ApiNext, own
<1>4. CASE \E c \in late : ServeLate(c)
  BY <1>1, <1>4, QuietTickets DEF ServeLate
<1>5. CASE TimePasses
  BY <1>1, <1>5, QuietTickets DEF TimePasses
<1> QED
  BY <1>2, <1>3, <1>4, <1>5, WorkerTickets, ServeTickets, ServeAudioTickets
     DEF WorkersNext

LEMMA InitTickets == WorkersInit => TicketsOK
<1> SUFFICES ASSUME WorkersInit PROVE TicketsOK
  OBVIOUS
<1>1. \A w \in Worker : /\ worker[w] = Idle /\ line[w]["execute"] = NoCall
  BY DEF WorkersInit, Task
<1>2. late = {} /\ \A j \in Job : job[j] = NoRecord("unborn")
  BY DEF WorkersInit, Init
<1> QED
  BY <1>1, <1>2, IdleOwnsNothing, CallFacts DEF TicketsOK, NoRecord

-----------------------------------------------------------------------------
(* Claims that may be lost *)

LEMMA ReserveFacts ==
    ASSUME IsFiniteSet(late)
    PROVE  /\ IsFiniteSet(LostClaims) /\ IsFiniteSet(OverdueClaims)
           /\ Cardinality(LostClaims) \in Nat /\ Cardinality(OverdueClaims) \in Nat
           /\ Reserve \in Nat
<1>1. IsFiniteSet(LostClaims)
  BY FS_Subset DEF LostClaims
<1>2. IsFiniteSet(Task)
  <2>1. Task = {"execute"} \cup {"renew"}
    BY DEF Task
  <2> QED
    BY <2>1, FS_Singleton, FS_Union
<1>3. IsFiniteSet(Worker \X Task)
  BY <1>2, WorkersAssumption, FS_Product
<1>4. IsFiniteSet(OverdueClaims)
  BY <1>3, FS_Subset DEF OverdueClaims
<1> QED
  BY <1>1, <1>4, FS_CardinalityType DEF Reserve

LEMMA ReserveBound ==
    ASSUME IsFiniteSet(late), IsFiniteSet(late'),
           LostClaims' \subseteq LostClaims, OverdueClaims' \subseteq OverdueClaims
    PROVE  Reserve' \in Nat /\ Reserve \in Nat /\ Reserve' <= Reserve
<1>1. /\ Cardinality(LostClaims') <= Cardinality(LostClaims)
      /\ Cardinality(OverdueClaims') <= Cardinality(OverdueClaims)
  BY ReserveFacts, FS_Subset
<1> QED
  BY <1>1, ReserveFacts, FS_Subset, FS_CardinalityType DEF Reserve

LEMMA AttendsHolds ==
    ASSUME RenewalsInTime, Types, Local, Timely, NEW w \in Worker, NEW j \in Job,
           job[j].status = "processing",
           Attends(worker[w], line[w]["execute"], line[w]["renew"], clock,
                   j, job[j].token)
    PROVE  /\ job[j].lease > clock /\ clock \in Nat /\ job[j].lease \in Nat
           /\ Owns(worker[w], line[w]["execute"], j, job[j].token)
<1> DEFINE r == worker[w]
           c == line[w]["execute"]
           k == job[j].token
<1>1. job[j].lease \in Nat /\ clock \in Nat /\ c.sent \in Nat
  BY TimelyFacts DEF Types, TypeOK, JobRecord
<1>2. CASE /\ c.kind = "claim" /\ c.answer = "ok" /\ c.job = j /\ c.token = k
           /\ clock < c.sent + Timeout
  <2>1. Floor(job, j, k, c.sent)
    BY <1>2, TimelyFacts DEF FloorOK
  <2>2. c.sent + Lease <= job[j].lease + Skew
    BY <2>1 DEF Floor
  <2>3. Timeout + Skew <= Lease
    BY TimeConstants DEF RenewalsInTime
  <2> QED
    BY <1>1, <1>2, <2>2, <2>3, TimeConstants DEF Owns
<1>3. CASE /\ r.pc \notin {"idle", "claiming"} /\ r.job = j /\ r.token = k
           /\ r.heart # "off" /\ r.misses = 0
           /\ line[w]["renew"] # NoCall => clock < line[w]["renew"].sent + Timeout
  <2>1. Entrusted(w, 0)
    BY <1>3, TimelyFacts DEF Entrusted, HeartOK, InTime
  <2>2. Holds(w)
    BY <2>1, EntrustedHolds
  <2> QED
    BY <1>1, <1>3, <2>2 DEF Holds, Leased, Owns
<1> QED
  BY <1>2, <1>3 DEF Attends

\* A claim that is given up in time was a failure, and was nobody's attempt.
LEMMA ClaimGivenUp ==
    ASSUME Types, Local, Timely, NEW w \in Worker,
           ExecuteNext(w) \/ RenewNext(w) \/ FaultNext(w),
           line[w]["execute"].kind = "claim", line[w]["execute"].answer = "pending",
           line'[w]["execute"] # line[w]["execute"]
    PROVE  /\ InTime(line[w]["execute"]) => faults' = faults + 1
           /\ faults' >= faults /\ faults \in Nat /\ faults' \in Nat
           /\ \A j, k : ~Attends(worker[w], line[w]["execute"], line[w]["renew"],
                                clock, j, k)
<1>1. worker[w].pc = "claiming" /\ worker[w].heart = "off"
  BY AtWork, AtRest, CallFacts
<1>2. \A j, k : ~Attends(worker[w], line[w]["execute"], line[w]["renew"],
                        clock, j, k)
  BY <1>1 DEF Attends
<1>3. ~worker[w].stopping /\ Healthy(w)
  BY <1>1, TimelyFacts DEF PlaceOK, Healthy
<1>4. ~RenewNext(w)
  BY <1>1 DEF RenewNext, Wake, Renewed, RenewFails
<1>5. PollAgain(w) \/ Begin(w) \/ Die(w)
  BY <1>1, <1>3, <1>4
     DEF ExecuteNext, FaultNext, Poll, Fetched, Receive, Infer, Interrupted,
         Inferred, Post, Posted, PostFails, Stick, Stop, Probe
<1>6. CASE PollAgain(w)
  BY <1>2, <1>6 DEF PollAgain, Answered, Failed, Local
<1>7. ~Begin(w)
  BY DEF Begin, Answered
<1>8. CASE Die(w)
  BY <1>2, <1>8 DEF Die, Local
<1> QED
  BY <1>5, <1>6, <1>7, <1>8

LEMMA LeavesFinite ==
    ASSUME NEW w \in Worker, LeavesBehind(w), IsFiniteSet(late)
    PROVE  IsFiniteSet(late')
<1> DEFINE S == {[line[w]["execute"] EXCEPT !.sent = CopyNumber(line[w]["execute"])]}
           T == {[line[w]["renew"] EXCEPT !.sent = CopyNumber(line[w]["renew"])]}
<1>1. late' \subseteq late \cup S \cup T
  BY DEF LeavesBehind, Task
<1>2. IsFiniteSet(S) /\ IsFiniteSet(T)
  BY FS_Singleton
<1> HIDE DEF S, T
<1>3. IsFiniteSet(late \cup S \cup T)
  BY <1>2, FS_Union
<1> QED
  BY <1>1, <1>3, FS_Subset

LEMMA LeftClaims ==
    ASSUME Types, Local, Timely, Patience, NEW w \in Worker, LeavesBehind(w), GoesOn(w)
    PROVE  LET c == line[w]["execute"]
           IN  /\ LostClaims' \subseteq LostClaims \cup {[c EXCEPT !.sent = CopyNumber(c)]}
               /\ \/ LostClaims' \subseteq LostClaims
                  \/ /\ c.kind = "claim" /\ c.answer = "pending"
                     /\ line'[w]["execute"] # c
               /\ <<w, "renew">> \notin OverdueClaims
               /\ line'[w]["renew"].kind # "claim"
                  => OverdueClaims' \subseteq OverdueClaims
               /\ line'[w]["execute"] # c => <<w, "execute">> \notin OverdueClaims'
<1> DEFINE c == line[w]["execute"]
<1>1. line[w]["renew"].kind # "claim"
  BY TimelyFacts, NoCallOK DEF HeartOK
<1>2. UNCHANGED clock /\ clock \in Nat
  BY TimelyFacts DEF LeavesBehind, vars
<1>3. ASSUME NEW d \in LostClaims', d \notin LostClaims
      PROVE  /\ d = [c EXCEPT !.sent = CopyNumber(c)] /\ c.kind = "claim"
             /\ c.answer = "pending" /\ line'[w]["execute"] # c
  <2>1. PICK k \in Task :
           /\ d = [line[w][k] EXCEPT !.sent = CopyNumber(line[w][k])]
           /\ line[w][k].answer = "pending" /\ line'[w][k] # line[w][k]
    BY <1>3 DEF LeavesBehind, LostClaims
  <2>2. line[w][k] \in CallRecord /\ d.kind = "claim"
    BY <1>3, WorkerFacts DEF LostClaims
  <2>3. line[w][k].kind = "claim"
    BY <2>1, <2>2 DEF CallRecord
  <2> QED
    BY <1>1, <2>1, <2>3 DEF Task
<1>4. line'[w]["execute"] # c => <<w, "execute">> \notin OverdueClaims'
  <2>1. SUFFICES ASSUME line'[w]["execute"] # c,
                        line'[w]["execute"].answer = "pending"
                 PROVE  clock' < line'[w]["execute"].sent + Timeout
    BY DEF OverdueClaims, InTime
  <2>2. line'[w]["execute"].sent = clock
    BY <2>1, CallFacts DEF GoesOn
  <2> QED
    BY <1>2, <2>2, TimeConstants
<1>5. ASSUME line'[w]["renew"].kind # "claim", NEW p \in OverdueClaims'
      PROVE  p \in OverdueClaims
  <2>1. PICK v \in Worker, k \in Task : p = <<v, k>>
    BY <1>5 DEF OverdueClaims
  <2>2. line'[v][k].kind = "claim"
    BY <1>5, <2>1 DEF OverdueClaims
  <2>3. line'[v][k] = line[v][k]
    BY <1>4, <1>5, <2>1, <2>2 DEF LeavesBehind, Task
  <2> QED
    BY <1>2, <1>5, <2>1, <2>3 DEF OverdueClaims, InTime
<1>6. <<w, "renew">> \notin OverdueClaims
  BY <1>1 DEF OverdueClaims
<1> QED
  BY <1>3, <1>4, <1>5, <1>6

\* A claim that is given up is paid for, or was by its timeout.
LEMMA WorkerReserve ==
    ASSUME Patience, Types, Local, Truthful, Timely, IsFiniteSet(late), NEW w \in Worker,
           ExecuteNext(w) \/ RenewNext(w) \/ FaultNext(w)
    PROVE  /\ IsFiniteSet(late') /\ Reserve \in Nat /\ Reserve' \in Nat
           /\ faults \in Nat /\ faults' \in Nat /\ faults' >= faults
           /\ \/ Reserve' <= Reserve
              \/ /\ Reserve' <= Reserve + 1 /\ faults' = faults + 1
                 /\ \A j, k : ~Attends(worker[w], line[w]["execute"],
                                      line[w]["renew"], clock, j, k)
<1> DEFINE c == line[w]["execute"]
           p == <<w, "execute">>
<1>1. GoesOn(w) /\ LeavesBehind(w)
  BY WorkerGoesOn, WorkerLeaves
<1>2. IsFiniteSet(late')
  BY <1>1, LeavesFinite
<1>3. /\ [WorkersNext]_workersVars
  BY DEF WorkersNext
<1>4. Types' /\ Local' /\ Timely'
  BY <1>3, StepLocal, StepTypes, StepTimely
<1>5. line'[w]["renew"].kind # "claim"
  BY <1>4, NoCallOK DEF Timely, TimelyOK, HeartOK, Local, LocalOK, WorkerOK,
                        WorkerRecord
<1>6. OverdueClaims' \subseteq OverdueClaims
  BY <1>1, <1>5, LeftClaims
<1>7. /\ IsFiniteSet(LostClaims) /\ IsFiniteSet(OverdueClaims)
      /\ IsFiniteSet(LostClaims') /\ IsFiniteSet(OverdueClaims')
  <2>1. LostClaims' \subseteq late'
    BY DEF LostClaims
  <2> QED
    BY <1>2, <1>6, <2>1, ReserveFacts, FS_Subset
<1>8. /\ Cardinality(LostClaims) \in Nat /\ Cardinality(OverdueClaims) \in Nat
      /\ Cardinality(LostClaims') \in Nat /\ Cardinality(OverdueClaims') \in Nat
      /\ Cardinality(OverdueClaims') <= Cardinality(OverdueClaims)
  BY <1>6, <1>7, FS_CardinalityType, FS_Subset
<1>9. faults \in Nat /\ faults' \in Nat /\ faults' >= faults
  BY <1>1, <1>4 DEF Local, GoesOn
<1>10. CASE LostClaims' \subseteq LostClaims
  <2>1. Cardinality(LostClaims') <= Cardinality(LostClaims)
    BY <1>7, <1>10, FS_Subset
  <2> QED
    BY <1>2, <1>8, <1>9, <2>1 DEF Reserve
<1>11. CASE c.kind = "claim" /\ c.answer = "pending" /\ line'[w]["execute"] # c
  <2> DEFINE d == [c EXCEPT !.sent = CopyNumber(c)]
  <2>1. LostClaims' \subseteq LostClaims \cup {d}
    BY <1>1, LeftClaims
  <2>2. Cardinality(LostClaims') <= Cardinality(LostClaims) + 1
    <3> HIDE DEF d
    <3>1. IsFiniteSet(LostClaims \cup {d})
      BY <1>7, FS_AddElement
    <3>2. Cardinality(LostClaims \cup {d})
            = IF d \in LostClaims THEN Cardinality(LostClaims)
              ELSE Cardinality(LostClaims) + 1
      BY <1>7, FS_AddElement
    <3>3. Cardinality(LostClaims \cup {d}) \in Nat
      BY <3>1, FS_CardinalityType
    <3> QED
      BY <1>8, <2>1, <3>1, <3>2, <3>3, FS_Subset
  <2>3. CASE InTime(c)
    <3>1. /\ faults' = faults + 1
          /\ \A j, k : ~Attends(worker[w], c, line[w]["renew"], clock, j, k)
      BY <1>11, <2>3, ClaimGivenUp
    <3> QED
      BY <1>2, <1>8, <1>9, <2>2, <3>1 DEF Reserve
  <2>4. CASE ~InTime(c)
    <3>1. p \in OverdueClaims /\ p \notin OverdueClaims'
      BY <1>1, <1>11, <2>4, LeftClaims DEF OverdueClaims, Task
    <3>2. OverdueClaims' \subseteq OverdueClaims \ {p}
      BY <1>6, <3>1
    <3> HIDE DEF p
    <3>3. /\ IsFiniteSet(OverdueClaims \ {p})
          /\ Cardinality(OverdueClaims \ {p}) = Cardinality(OverdueClaims) - 1
      BY <1>7, <3>1, FS_RemoveElement
    <3>4. Cardinality(OverdueClaims') <= Cardinality(OverdueClaims) - 1
      BY <3>2, <3>3, FS_Subset
    <3> QED
      BY <1>2, <1>8, <1>9, <2>2, <3>4 DEF Reserve
  <2> QED
    BY <2>3, <2>4
<1> QED
  BY <1>1, <1>10, <1>11, LeftClaims

-----------------------------------------------------------------------------
(* Every attempt has cost a failure *)

LEMMA ChargedFacts ==
    ASSUME Types, Local, Charged, NEW j \in Job
    PROVE  /\ job[j].attempts \in Nat /\ faults \in Nat /\ Reserve \in Nat
           /\ IsFiniteSet(late) /\ Reserve <= faults
           /\ job[j].status = "queued" => job[j].attempts + Reserve <= faults
           /\ job[j].status = "processing" =>
                 /\ job[j].attempts - 1 + Reserve <= faults
                 /\ ~Attended(j) => job[j].attempts + Reserve <= faults
           /\ job[j].cause = "expired" => MaxAttempts <= faults
<1>1. job[j].attempts \in Nat /\ faults \in Nat
  BY DEF Types, TypeOK, JobRecord, Local
<1>2. IsFiniteSet(late) /\ Reserve \in Nat
  BY ReserveFacts DEF Charged
<1> QED
  BY <1>1, <1>2 DEF Charged, Covered

LEMMA WorkerCharged ==
    ASSUME Patience, Types, Local, Truthful, Timely, Charged, NEW w \in Worker,
           ExecuteNext(w) \/ RenewNext(w) \/ FaultNext(w)
    PROVE  Charged'
<1>1. GoesOn(w) /\ LeavesBehind(w)
  BY WorkerGoesOn, WorkerLeaves
<1>2. UNCHANGED <<job, clock>>
  BY <1>1 DEF LeavesBehind, vars
<1>3. /\ IsFiniteSet(late') /\ Reserve \in Nat /\ Reserve' \in Nat
      /\ faults \in Nat /\ faults' \in Nat /\ faults' >= faults
      /\ \/ Reserve' <= Reserve
         \/ /\ Reserve' <= Reserve + 1 /\ faults' = faults + 1
            /\ \A j, k : ~Attends(worker[w], line[w]["execute"],
                                 line[w]["renew"], clock, j, k)
  BY WorkerReserve DEF Charged
<1>4. Reserve <= faults
  BY <1>3 DEF Charged, Covered
<1>5. ASSUME NEW j \in Job, Attended(j)
      PROVE  \/ Attended(j)'
             \/ Reserve' <= Reserve /\ faults' > faults
  <2>1. PICK v \in Worker :
           Attends(worker[v], line[v]["execute"], line[v]["renew"], clock, j,
                   job[j].token)
    BY <1>5 DEF Attended
  <2>2. CASE v # w
    <3>1. worker'[v] = worker[v] /\ line'[v] = line[v]
      BY <1>1, <2>2 DEF LeavesBehind
    <3>2. Attends(worker'[v], line'[v]["execute"], line'[v]["renew"], clock', j,
                  job'[j].token)
      BY <1>2, <2>1, <3>1
    <3> QED
      BY <3>2 DEF Attended
  <2>3. CASE v = w
    <3>1. Reserve' <= Reserve
      BY <1>3, <2>1, <2>3
    <3>2. \/ Attends(worker'[w], line'[w]["execute"], line'[w]["renew"], clock, j,
                     job[j].token)
          \/ faults' > faults
      BY <1>1, <2>1, <2>3 DEF GoesOn
    <3> QED
      BY <1>2, <3>1, <3>2 DEF Attended
  <2> QED
    BY <2>2, <2>3
<1>6. ASSUME NEW j \in Job
      PROVE  /\ job'[j].status = "queued" => job'[j].attempts + Reserve' <= faults'
             /\ job'[j].status = "processing" =>
                   /\ job'[j].attempts - 1 + Reserve' <= faults'
                   /\ Attended(j)' \/ job'[j].attempts + Reserve' <= faults'
             /\ job'[j].cause = "expired" => MaxAttempts <= faults'
  <2>1. MaxAttempts \in Nat
    BY LimitsAssumption
  <2> QED
    BY <1>2, <1>3, <1>5, <2>1, ChargedFacts
<1> QED
  BY <1>3, <1>4, <1>6 DEF Charged, Covered

\* An attempt that is attended to stays so or ends well, and one that begins is
\* attended to, or takes up a claim that was lost.
KeepsAttention(j) ==
    /\ /\ job[j].status = "processing" /\ job'[j].status = "processing"
       /\ job'[j].token = job[j].token /\ Attended(j)
       => Attended(j)'
    /\ IsReturned(j) => ~Attended(j)
    /\ IsTaken(j) => Attended(j)' \/ Reserve' + 1 <= Reserve

LEMMA JobsCharged ==
    ASSUME RenewalsInTime, Types, Local, Timely, Charged, [Next]_vars, faults' = faults,
           IsFiniteSet(late'), Reserve' \in Nat, Reserve' <= Reserve,
           \A j \in Job : KeepsAttention(j)
    PROVE  Charged'
<1>1. ASSUME NEW j \in Job, job[j].status = "processing", Attended(j)
      PROVE  job[j].lease > clock /\ clock \in Nat /\ job[j].lease \in Nat
  BY <1>1, AttendsHolds DEF Attended
<1>2. ASSUME NEW j \in Job
      PROVE  /\ job'[j].status = "queued" => job'[j].attempts + Reserve' <= faults
             /\ job'[j].status = "processing" =>
                   /\ job'[j].attempts - 1 + Reserve' <= faults
                   /\ Attended(j)' \/ job'[j].attempts + Reserve' <= faults
             /\ job'[j].cause = "expired" => MaxAttempts <= faults
  <2>1. /\ MovesOn(j) /\ job[j] \in JobRecord /\ RecordOK(job[j])
        /\ MaxAttempts \in Nat
    BY StepMoves, LimitsAssumption DEF Types, TypeOK, RecordsOK
  <2>2. /\ job[j].attempts \in Nat /\ faults \in Nat /\ Reserve \in Nat
        /\ Reserve <= faults
        /\ job[j].status = "queued" => job[j].attempts + Reserve <= faults
        /\ job[j].status = "processing" =>
              /\ job[j].attempts - 1 + Reserve <= faults
              /\ ~Attended(j) => job[j].attempts + Reserve <= faults
        /\ job[j].cause = "expired" => MaxAttempts <= faults
    BY ChargedFacts
  <2>3. CASE job'[j] = job[j] \/ IsRenewed(j)
    <3>1. /\ job'[j].status = job[j].status /\ job'[j].attempts = job[j].attempts
          /\ job'[j].token = job[j].token /\ job'[j].cause = job[j].cause
      BY <2>1, <2>3 DEF IsRenewed, JobRecord
    <3>2. job[j].status = "processing" /\ Attended(j) => Attended(j)'
      BY <3>1 DEF KeepsAttention
    <3>3. /\ job[j].attempts + Reserve' <= job[j].attempts + Reserve
          /\ job[j].attempts - 1 + Reserve' <= job[j].attempts - 1 + Reserve
      BY <2>2
    <3>4. job[j].status = "queued" => job[j].attempts + Reserve' <= faults
      BY <2>2, <3>3
    <3>5. job[j].status = "processing" =>
             /\ job[j].attempts - 1 + Reserve' <= faults
             /\ ~Attended(j) => job[j].attempts + Reserve' <= faults
      BY <2>2, <3>3
    <3> QED
      BY <2>2, <3>1, <3>2, <3>4, <3>5
  <2>4. CASE IsEntered(j)
    <3>1. /\ job'[j].status = "queued" /\ job'[j].attempts = 0
          /\ job'[j].cause = "none"
      BY <2>4 DEF IsEntered, Submitted, SetStatus, NoRecord
    <3>2. 0 + Reserve' <= faults
      BY <2>2
    <3>3. job'[j].attempts + Reserve' <= faults
      BY <3>1, <3>2
    <3>4. job'[j].status # "processing" /\ job'[j].cause # "expired"
      BY <3>1
    <3> QED
      BY <3>3, <3>4
  <2>5. CASE IsTaken(j)
    <3>1. /\ job'[j].status = "processing" /\ job'[j].cause = job[j].cause
          /\ job'[j].attempts = job[j].attempts + 1
          /\ job[j].status \in Pending
          /\ job[j].status = "processing" => job[j].lease <= clock
      BY <2>5, TakesAttempt
    <3>2. job[j].attempts + Reserve <= faults
      BY <1>1, <2>2, <3>1 DEF Pending
    <3>3. Attended(j)' \/ Reserve' + 1 <= Reserve
      BY <2>5 DEF KeepsAttention
    <3> DEFINE a == job[j].attempts
               x == Reserve
               y == Reserve'
    <3>4. a \in Nat /\ x \in Nat /\ y \in Nat /\ faults \in Nat /\ a + x <= faults /\ y <= x
      BY <2>2, <3>2
    <3>5. a + y <= faults /\ (~Attended(j)' => a + 1 + y <= faults)
      <4>1. Attended(j)' \/ y + 1 <= x
        BY <3>3
      <4> HIDE DEF a, x, y
      <4>2. a + y <= faults
        BY <3>4
      <4>3. y + 1 <= x => a + 1 + y <= faults
        BY <3>4
      <4> QED
        BY <4>1, <4>2, <4>3
    <3>6. job'[j].cause = "expired" => MaxAttempts <= faults
      BY <2>2, <3>1
    <3>7. job'[j].attempts = job[j].attempts + 1 /\ job'[j].status # "queued"
      BY <3>1
    <3>8. job'[j].attempts - 1 + Reserve' <= faults
      <4>1. job'[j].attempts - 1 = job[j].attempts
        BY <2>2, <3>7
      <4> QED
        BY <3>5, <4>1
    <3>9. ~Attended(j)' => job'[j].attempts + Reserve' <= faults
      BY <3>5, <3>7
    <3> QED
      BY <3>6, <3>7, <3>8, <3>9
  <2>6. CASE IsReturned(j)
    <3>1. /\ job'[j].status = "queued" /\ job'[j].attempts = job[j].attempts
          /\ job'[j].cause = job[j].cause /\ job[j].status = "processing"
      BY <2>1, <2>6 DEF IsReturned, SetStatus, JobRecord
    <3>2. ~Attended(j)
      BY <2>6 DEF KeepsAttention
    <3> QED
      BY <2>2, <3>1, <3>2
  <2>7. CASE IsCompleted(j)
    <3>1. job'[j].status = "completed" /\ job'[j].cause = job[j].cause
      BY <2>1, <2>7 DEF IsCompleted, SetStatus, JobRecord
    <3> QED
      BY <2>2, <3>1
  <2>8. CASE IsFailed(j)
    <3>1. PICK c, t : /\ job'[j] = Fail(job[j], c, t)
                      /\ c = "expired" => \E s \in RecentPast : j \in Exhausted(s)
      BY <2>8 DEF IsFailed
    <3>2. job'[j].status = "error" /\ job'[j].cause = c
      BY <2>1, <3>1 DEF Fail, SetStatus, JobRecord
    <3>3. ASSUME c = "expired" PROVE MaxAttempts <= faults
      <4>1. PICK s \in RecentPast : j \in Exhausted(s)
        BY <3>1, <3>3
      <4>2. /\ job[j].status = "processing" /\ job[j].attempts = MaxAttempts
            /\ job[j].lease <= s
        BY <4>1, ClaimSets DEF Exhausted, Lapsed
      <4>3. s <= clock /\ s \in Nat
        BY RecentPastIsTime DEF Types, TypeOK, Time
      <4>4. ~Attended(j)
        BY <1>1, <4>2, <4>3
      <4> QED
        BY <2>2, <4>2, <4>4
    <3> QED
      BY <3>2, <3>3
  <2>9. CASE IsRemoved(j)
    BY <2>9 DEF IsRemoved, NoRecord
  <2> QED
    BY <2>1, <2>3, <2>4, <2>5, <2>6, <2>7, <2>8, <2>9 DEF MovesOn
<1>3. Reserve <= faults /\ Reserve \in Nat /\ faults \in Nat
  BY ReserveFacts DEF Charged, Covered, Local
<1>4. 0 + Reserve' <= faults'
  <2>1. Reserve' <= faults
    BY <1>3
  <2>2. \A n \in Nat : 0 + n = n
    OBVIOUS
  <2> QED
    BY <2>1, <2>2
<1>5. \A j \in Job :
         /\ job'[j].status = "queued" => job'[j].attempts + Reserve' <= faults'
         /\ job'[j].status = "processing" =>
               /\ job'[j].attempts - 1 + Reserve' <= faults'
               /\ Attended(j)' \/ job'[j].attempts + Reserve' <= faults'
         /\ job'[j].cause = "expired" => MaxAttempts <= faults'
  BY <1>2
<1> HIDE <1>2
<1> QED
  BY <1>4, <1>5 DEF Charged, Covered

\* What a fenced answer says is not so while the attempt is attended to.
LEMMA NotFenced ==
    ASSUME RenewalsInTime, Types, Local, Timely, NEW w \in Worker, NEW j \in Job,
           job[j].status = "processing",
           Attends(worker[w], line[w]["execute"], line[w]["renew"], clock,
                   j, job[j].token)
    PROVE  \A t \in RecentPast : Leased(j, job[j].token, t)
<1>1. job[j].lease > clock /\ clock \in Nat /\ job[j].lease \in Nat
  BY AttendsHolds
<1>2. ASSUME NEW t \in RecentPast PROVE Leased(j, job[j].token, t)
  <2>1. t \in Nat /\ t <= clock
    BY RecentPastIsTime DEF Types, TypeOK, Time
  <2> QED
    BY <1>1, <2>1 DEF Leased
<1> QED
  BY <1>2

LEMMA ServeAttended ==
    ASSUME RenewalsInTime, Types, Local, Timely, TicketsOK, NEW w \in Worker,
           NEW k \in Task, Serve(w, k), NEW j \in Job
    PROVE  KeepsAttention(j)
<1> DEFINE c == line[w][k]
           f == line'[w][k]
           n == job[j].token
<1>1. PICK answer \in {"ok", "empty", "fenced", "refused"}, i \in Job \cup {NoJob} :
         /\ Handle(c, answer, i)
         /\ c.answer = "pending" /\ InTime(c) /\ CallOK(c)
         /\ f.kind = c.kind /\ f.body = c.body /\ f.sent = c.sent
         /\ f.answer = answer /\ f.job = i
         /\ c.kind # "claim" => f.token = c.token
         /\ c.kind = "claim" /\ i # NoJob => f.token = job'[i].token
         /\ UNCHANGED <<worker, late, faults>>
         /\ \A v \in Worker, m \in Task :
               v # w \/ m # k => line'[v][m] = line[v][m]
  BY ServeEffect
<1>2. /\ [Next]_vars
      /\ c.kind \in {"claim", "heartbeat", "complete"}
      /\ c.kind # "claim" => i = c.job /\ i \in Job
  BY <1>1, HandleIsStep
<1>3. UNCHANGED clock /\ clock \in Nat /\ "execute" \in Task /\ "renew" \in Task
  BY <1>1, HandleClock, TimelyFacts DEF Task
<1>4. /\ k = "renew" => c.kind = "heartbeat"
      /\ k = "execute" => c.kind # "heartbeat"
  <2>1. k = "renew" => c.kind = "heartbeat"
    BY <1>2, TimelyFacts, NoCallOK DEF HeartOK
  <2>2. k = "execute" => c.kind # "heartbeat"
    BY <1>2, TimelyFacts, WorkerFacts, NoCallOK
       DEF PlaceOK, AwaitOK, WorkerRecord, Reporting
  <2> QED
    BY <2>1, <2>2
<1> HIDE DEF c, f, n
<1>5. ASSUME NEW v \in Worker, v # w
      PROVE  /\ worker'[v] = worker[v]
             /\ line'[v]["execute"] = line[v]["execute"]
             /\ line'[v]["renew"] = line[v]["renew"]
  BY <1>1, <1>3, <1>5
\* Everybody else's attention lasts.
<1>6. ASSUME job'[j].token = n, NEW v \in Worker, v # w,
             Attends(worker[v], line[v]["execute"], line[v]["renew"], clock, j, n)
      PROVE  Attended(j)'
  <2>1. Attends(worker'[v], line'[v]["execute"], line'[v]["renew"], clock', j,
                job'[j].token)
    BY <1>3, <1>5, <1>6
  <2> QED
    BY <2>1 DEF Attended
<1>7. CASE c.kind = "claim"
  <2>1. k = "execute" /\ HandleClaim(answer, i)
    BY <1>1, <1>4, <1>7 DEF Task, Handle
  <2>2. ~Attends(worker[w], line[w]["execute"], line[w]["renew"], clock, j, n)
    BY <1>1, <1>7, <2>1, AtWork DEF Attends, c
  <2>3. IsReturned(j) => ~Attended(j)
    BY <2>1, ClaimEffect, AttendsHolds, ReturnsStatus DEF Attended, n
  <2>4. ASSUME IsTaken(j) PROVE Attended(j)'
    <3>1. i = j /\ answer = "ok"
      BY <2>1, <2>4, ClaimEffect
    <3>2. /\ f.kind = "claim" /\ f.answer = "ok" /\ f.job = j
          /\ f.token = job'[j].token /\ clock < f.sent + Timeout
      BY <1>1, <1>7, <3>1, IdentifiersAssumption DEF InTime
    <3>3. Attends(worker'[w], line'[w]["execute"], line'[w]["renew"], clock', j,
                  job'[j].token)
      BY <1>3, <2>1, <3>2 DEF Attends, f
    <3> QED
      BY <3>3 DEF Attended
  <2> QED
    BY <1>6, <2>2, <2>3, <2>4 DEF Attended, KeepsAttention, n
<1>8. CASE c.kind = "heartbeat"
  <2>1. k = "renew" /\ HandleHeartbeat(c, answer) /\ c.job \in Job
    BY <1>1, <1>2, <1>4, <1>8 DEF Task, Handle
  <2>2. ~IsReturned(j) /\ ~IsTaken(j) /\ answer \in {"ok", "fenced"}
        /\ (answer = "fenced" => \E t \in RecentPast : ~Leased(c.job, c.token, t))
    BY <2>1, HeartbeatEffect
  <2>3. ASSUME job[j].status = "processing", job'[j].token = n,
               Attends(worker[w], line[w]["execute"], line[w]["renew"], clock, j, n)
        PROVE  Attended(j)'
    <3>1. /\ worker[w].pc \notin {"idle", "claiming"}
          /\ worker[w].job = j /\ worker[w].token = n
          /\ c.job = worker[w].job /\ c.token = worker[w].token
      <4>1. line[w]["renew"] = c /\ c # NoCall
        BY <1>8, <2>1, NoCallOK DEF c
      <4>2. worker[w].heart = "asking" /\ c.job = worker[w].job
            /\ c.token = worker[w].token
        BY <4>1, TimelyFacts DEF HeartOK
      <4>3. worker[w].pc \notin {"idle", "claiming"}
        BY <4>2, AtRest
      <4> QED
        BY <2>3, <4>2, <4>3, AtWork DEF Attends
    <3>2. answer # "fenced"
      BY <2>2, <2>3, <3>1, NotFenced DEF n
    <3>3. Attends(worker[w], line[w]["execute"], f, clock, j, n)
      BY <1>1, <2>3, <3>1, <3>2, AtWork DEF Attends, InTime
    <3>4. Attends(worker'[w], line'[w]["execute"], line'[w]["renew"], clock', j,
                  job'[j].token)
      BY <1>1, <1>3, <2>1, <2>3, <3>3 DEF f
    <3> QED
      BY <3>4 DEF Attended
  <2> QED
    BY <1>6, <2>2, <2>3 DEF Attended, KeepsAttention, n
<1>9. CASE c.kind = "complete"
  <2>1. k = "execute" /\ HandleComplete(c, answer) /\ c.job \in Job
    BY <1>1, <1>2, <1>4, <1>9 DEF Task, Handle
  <2>2. /\ worker[w].pc \in Reporting /\ c.job = worker[w].job
        /\ c.token = worker[w].token /\ c.body = worker[w].body
    BY <1>9, <2>1, AtRest, AtWork, WorkerFacts, NoCallOK DEF AwaitOK, c
  <2>3. Owns(worker[w], line[w]["execute"], c.job, c.token)
    BY <2>2 DEF Owns, Reporting
  <2>4. ASSUME IsReturned(j) PROVE ~Attended(j)
    <3>1. j = c.job /\ c.body = "retry" /\ answer = "ok"
      BY <2>1, <2>4, CompleteEffect
    <3>2. n = c.token /\ job[j].status = "processing"
      BY <2>1, <3>1, CompleteEffect DEF n
    <3>3. Failing(worker[w])
      BY <2>2, <3>1, WorkerFacts DEF WorkerOK, Failing, Reporting
    <3>4. ASSUME NEW v \in Worker,
                 Attends(worker[v], line[v]["execute"], line[v]["renew"], clock, j, n)
          PROVE  FALSE
      <4>1. v = w
        BY <2>3, <3>1, <3>2, <3>4, AttendsHolds DEF TicketsOK, n
      <4> QED
        BY <1>9, <2>1, <3>3, <3>4, <4>1 DEF Attends, Failing, c
    <3> QED
      BY <3>4 DEF Attended, n
  <2>5. ASSUME job[j].status = "processing", job'[j].status = "processing",
               job'[j].token = n,
               Attends(worker[w], line[w]["execute"], line[w]["renew"], clock, j, n)
        PROVE  Attended(j)'
    <3>1. worker[w].job = j /\ worker[w].token = n
      BY <1>9, <2>1, <2>5 DEF Attends, c
    <3>2. answer = "refused"
      BY <2>1, <2>2, <2>5, <3>1, CompleteEffect, NotFenced DEF n
    <3>3. Attends(worker[w], f, line[w]["renew"], clock, j, n)
      BY <1>1, <1>9, <2>1, <2>5, <3>2 DEF Attends, InTime, Granted, c
    <3>4. Attends(worker'[w], line'[w]["execute"], line'[w]["renew"], clock', j,
                  job'[j].token)
      BY <1>1, <1>3, <2>1, <2>5, <3>3 DEF f
    <3> QED
      BY <3>4 DEF Attended
  <2>6. ~IsTaken(j)
    BY <2>1, CompleteEffect
  <2> QED
    BY <1>6, <2>4, <2>5, <2>6 DEF Attended, KeepsAttention, n
<1> QED
  BY <1>2, <1>7, <1>8, <1>9

\* Where no worker is concerned, attention lasts with the attempt.
LEMMA QuietAttention ==
    ASSUME UNCHANGED <<worker, line, clock>>, NEW j \in Job, Attended(j),
           job'[j].token = job[j].token
    PROVE  Attended(j)'
BY DEF Attended

LEMMA QuietReserve ==
    ASSUME IsFiniteSet(late), late' \subseteq late, UNCHANGED <<line, clock>>
    PROVE  IsFiniteSet(late') /\ Reserve' \in Nat /\ Reserve' <= Reserve
<1>1. IsFiniteSet(late')
  BY FS_Subset
<1>2. LostClaims' \subseteq LostClaims
  BY DEF LostClaims
<1>3. OverdueClaims' \subseteq OverdueClaims
  BY DEF OverdueClaims, InTime
<1> QED
  BY <1>1, <1>2, <1>3, ReserveBound

LEMMA ServeCharged ==
    ASSUME RenewalsInTime, Types, Local, Timely, TicketsOK, Charged, NEW w \in Worker,
           NEW k \in Task, Serve(w, k)
    PROVE  Charged'
<1> DEFINE c == line[w][k]
<1>1. PICK answer \in {"ok", "empty", "fenced", "refused"}, i \in Job \cup {NoJob} :
         LET f == line'[w][k]
         IN  /\ Handle(c, answer, i)
             /\ InTime(c) /\ CallOK(c) /\ f.answer = answer
             /\ UNCHANGED <<worker, late, faults>>
             /\ \A v \in Worker, m \in Task :
                   v # w \/ m # k => line'[v][m] = line[v][m]
  BY ServeEffect
<1>2. [Next]_vars /\ UNCHANGED clock /\ IsFiniteSet(late)
  BY <1>1, HandleIsStep, HandleClock DEF Charged
<1>3. line'[w][k].answer # "pending"
  BY <1>1
<1>4. ASSUME NEW p \in OverdueClaims' PROVE p \in OverdueClaims
  <2>1. PICK v \in Worker, m \in Task : p = <<v, m>>
    BY <1>4 DEF OverdueClaims
  <2>2. line'[v][m].answer = "pending"
    BY <1>4, <2>1 DEF OverdueClaims
  <2>3. line'[v][m] = line[v][m]
    BY <1>1, <1>3, <2>2
  <2> QED
    BY <1>2, <1>4, <2>1, <2>3 DEF OverdueClaims, InTime
<1>5. LostClaims' \subseteq LostClaims /\ IsFiniteSet(late')
  BY <1>1, <1>2 DEF LostClaims
<1>6. Reserve' \in Nat /\ Reserve' <= Reserve
  BY <1>2, <1>4, <1>5, ReserveBound
<1> QED
  BY <1>1, <1>2, <1>5, <1>6, JobsCharged, ServeAttended

LEMMA ServeLateCharged ==
    ASSUME RenewalsInTime, Types, Local, Timely, TicketsOK, Charged, NEW c \in late,
           ServeLate(c)
    PROVE  Charged'
<1>1. PICK answer \in {"ok", "empty", "fenced", "refused"}, i \in Job \cup {NoJob} :
         Handle(c, answer, i)
  BY DEF ServeLate
<1>2. /\ late' = late \ {c} /\ UNCHANGED <<worker, line, faults>>
      /\ CallOK(c) /\ IsFiniteSet(late)
  BY DEF ServeLate, Local, Charged
<1>3. /\ [Next]_vars /\ UNCHANGED clock
      /\ c.kind \in {"claim", "heartbeat", "complete"}
      /\ c.kind # "claim" => i = c.job /\ i \in Job
  BY <1>1, <1>2, HandleIsStep, HandleClock
<1>4. IsFiniteSet(late') /\ Reserve' \in Nat /\ Reserve' <= Reserve
  BY <1>2, <1>3, QuietReserve
<1>5. c.kind = "claim" => Reserve' + 1 <= Reserve
  <2>1. SUFFICES ASSUME c.kind = "claim" PROVE Reserve' + 1 <= Reserve
    OBVIOUS
  <2>2. c \in LostClaims /\ LostClaims' = LostClaims \ {c}
    BY <1>2, <2>1 DEF LostClaims
  <2>3. OverdueClaims' = OverdueClaims
    BY <1>2, <1>3 DEF OverdueClaims, InTime
  <2>4. Cardinality(LostClaims') = Cardinality(LostClaims) - 1
    BY <1>2, <2>2, ReserveFacts, FS_RemoveElement
  <2>5. Reserve' = Cardinality(LostClaims) - 1 + Cardinality(OverdueClaims)
    BY <2>3, <2>4 DEF Reserve
  <2>6. /\ Cardinality(LostClaims) \in Nat /\ Cardinality(OverdueClaims) \in Nat
        /\ Reserve = Cardinality(LostClaims) + Cardinality(OverdueClaims)
    BY <1>2, ReserveFacts DEF Reserve
  <2> QED
    BY <2>5, <2>6
<1>6. ASSUME NEW j \in Job PROVE KeepsAttention(j)
  <2>1. job'[j].token = job[j].token /\ Attended(j) => Attended(j)'
    BY <1>2, <1>3, QuietAttention
  <2>2. CASE c.kind = "claim"
    <3>1. HandleClaim(answer, i)
      BY <1>1, <2>2 DEF Handle
    <3>2. IsReturned(j) => ~Attended(j)
      BY <3>1, ClaimEffect, AttendsHolds, ReturnsStatus DEF Attended
    <3> QED
      BY <1>5, <2>1, <2>2, <3>2 DEF KeepsAttention
  <2>3. CASE c.kind = "heartbeat"
    <3>1. ~IsReturned(j) /\ ~IsTaken(j)
      BY <1>1, <1>3, <2>3, HeartbeatEffect DEF Handle
    <3> QED
      BY <2>1, <3>1 DEF KeepsAttention
  <2>4. CASE c.kind = "complete"
    <3>1. HandleComplete(c, answer) /\ c.job \in Job
      BY <1>1, <1>3, <2>4 DEF Handle
    <3>2. ~IsTaken(j)
      BY <3>1, CompleteEffect
    <3>3. ASSUME IsReturned(j) PROVE ~Attended(j)
      <4>1. /\ j = c.job /\ Retries(c)
            /\ job[j].token = c.token /\ job[j].status = "processing"
        BY <2>4, <3>1, <3>3, CompleteEffect DEF Retries
      <4>2. ASSUME NEW v \in Worker,
                   Attends(worker[v], line[v]["execute"], line[v]["renew"], clock,
                           j, job[j].token)
            PROVE  FALSE
        <5>1. Owns(worker[v], line[v]["execute"], j, job[j].token)
          BY <4>1, <4>2, AttendsHolds
        <5>2. Failing(worker[v])
          BY <4>1, <5>1 DEF TicketsOK
        <5>3. line[v]["execute"].kind # "claim"
          BY <5>2, AtWork DEF Failing
        <5> QED
          BY <4>2, <5>2, <5>3 DEF Attends, Failing
      <4> QED
        BY <4>2 DEF Attended
    <3> QED
      BY <2>1, <3>2, <3>3 DEF KeepsAttention
  <2> QED
    BY <1>3, <2>2, <2>3, <2>4
<1> QED
  BY <1>2, <1>3, <1>4, <1>6, JobsCharged

LEMMA ServeAudioCharged ==
    ASSUME RenewalsInTime, Types, Links, AudioAvailable, Local, Timely, TicketsOK,
           Charged, NEW w \in Worker, ServeAudio(w)
    PROVE  Charged'
<1> DEFINE c == line[w]["execute"]
           e == line'[w]["execute"]
<1>1. /\ c.kind = "audio" /\ c \in CallRecord /\ InTime(c)
      /\ c.answer \in {"pending", "checked"}
      /\ UNCHANGED <<vars, worker, late, faults>>
      /\ UNCHANGED <<job, clock>> /\ IsFiniteSet(late)
  BY WorkerFacts DEF ServeAudio, vars, Charged
<1>2. /\ e.kind = "audio" /\ e.sent = c.sent
      /\ e.answer = "fenced" =>
            \/ ~Leased(c.job, c.token, clock)
            \/ c.answer = "checked" /\ file[c.upload] = Absent
      /\ line'[w]["renew"] = line[w]["renew"]
      /\ \A v \in Worker : v # w => line'[v] = line[v]
  <2>1. line[w] \in [Task -> CallRecord] /\ "execute" \in Task
    BY DEF Local, Task
  <2>2. \/ e = [c EXCEPT !.answer = "checked", !.upload = job[c.job].upload]
        \/ /\ e = [c EXCEPT !.answer = "fenced"]
           /\ \/ ~Leased(c.job, c.token, clock)
              \/ c.answer = "checked" /\ file[c.upload] = Absent
        \/ e = [c EXCEPT !.answer = "ok"]
    BY <2>1 DEF ServeAudio, Local
  <2>3. /\ line'[w]["renew"] = line[w]["renew"]
        /\ \A v \in Worker : v # w => line'[v] = line[v]
    BY <2>1 DEF ServeAudio, Local, Task
  <2> HIDE DEF e
  <2> QED
    BY <1>1, <2>2, <2>3 DEF CallRecord
<1> HIDE DEF e
<1>3. OverdueClaims' \subseteq OverdueClaims
  <2>1. SUFFICES ASSUME NEW v \in Worker, NEW k \in Task,
                        <<v, k>> \in OverdueClaims'
                 PROVE  <<v, k>> \in OverdueClaims
    BY DEF OverdueClaims
  <2>2. line'[v][k].kind = "claim"
    BY <2>1 DEF OverdueClaims
  <2>3. line'[v][k] = line[v][k]
    BY <1>2, <2>2 DEF Task, e
  <2> QED
    BY <1>1, <2>1, <2>3 DEF OverdueClaims, InTime
<1>4. LostClaims' \subseteq LostClaims /\ IsFiniteSet(late')
  BY <1>1 DEF LostClaims
<1>5. Reserve' \in Nat /\ Reserve' <= Reserve
  BY <1>1, <1>3, <1>4, ReserveBound
<1>6. ASSUME NEW j \in Job PROVE KeepsAttention(j)
  <2>1. ~IsReturned(j) /\ ~IsTaken(j)
    BY <1>1, NothingMoves
  <2>2. ASSUME job[j].status = "processing", NEW v \in Worker,
               Attends(worker[v], line[v]["execute"], line[v]["renew"], clock,
                       j, job[j].token)
        PROVE  Attended(j)'
    <3>1. CASE v # w
      <4>1. Attends(worker'[v], line'[v]["execute"], line'[v]["renew"], clock', j,
                    job'[j].token)
        BY <1>1, <1>2, <2>2, <3>1
      <4> QED
        BY <4>1 DEF Attended
    <3>2. CASE v = w
      <4>1. /\ Owns(worker[w], c, j, job[j].token)
            /\ Leased(j, job[j].token, clock)
        BY <2>2, <3>2, AttendsHolds DEF Leased
      <4>2. c.job = j /\ c.token = job[j].token
        <5>1. Owns(worker[w], c, c.job, c.token)
          BY <1>1, AudioIsOwned
        <5> QED
          BY <1>1, <4>1, <5>1 DEF Owns
      <4>3. c.answer = "checked" => file[c.upload] # Absent
        <5>1. SUFFICES ASSUME c.answer = "checked" PROVE file[c.upload] # Absent
          OBVIOUS
        <5>2. c.upload = job[j].upload
          BY <2>2, <4>2, <5>1 DEF TicketsOK
        <5>3. /\ c.upload \in Upload /\ upload[c.upload].state = "stored"
              /\ upload[c.upload].bytes > 0
          BY <2>2, <5>2 DEF Links, LinksAgree, Live, Pending
        <5> QED
          BY <5>3 DEF AudioAvailable
      <4>4. e.answer # "fenced"
        BY <1>2, <4>1, <4>2, <4>3
      <4>5. Attends(worker[w], e, line[w]["renew"], clock, j, job[j].token)
        BY <1>1, <1>2, <2>2, <3>2, <4>4 DEF Attends, InTime, Granted
      <4>6. Attends(worker'[w], line'[w]["execute"], line'[w]["renew"], clock', j,
                    job'[j].token)
        BY <1>1, <1>2, <4>5 DEF e
      <4> QED
        BY <4>6 DEF Attended
    <3> QED
      BY <3>1, <3>2
  <2> QED
    BY <2>1, <2>2 DEF KeepsAttention, Attended
<1>7. [Next]_vars
  BY <1>1
<1> QED
  BY <1>1, <1>4, <1>5, <1>6, <1>7, JobsCharged

\* Clients, and a restart, neither lease a job nor put it back in the queue.
LEMMA ApiMovesNothing ==
    ASSUME Types, ApiNext, NEW j \in Job
    PROVE  ~IsReturned(j) /\ ~IsTaken(j)
<1>1. job \in [Job -> JobRecord]
  BY DEF Types, TypeOK
<1>2. SUFFICES ASSUME job[j].status \in Pending
               PROVE  \/ /\ job'[j].status # "processing"
                         /\ job'[j].status # "queued"
                      \/ job'[j] = job[j]
  BY <1>1, NothingMoves, ReturnsStatus, TakesAttempt DEF Pending
<1>3. CASE \E u \in Upload : SaveNext(u) \/ DiscardUpload(u)
  BY <1>3 DEF SaveNext, SaveBegin, SaveWrite, SaveEOF, SaveDrop, SaveReject,
              SaveCommit, DiscardUpload
<1>4. CASE \E u \in Upload, i \in Job, t \in RecentPast : Submit(u, i, t)
  BY <1>1, <1>2, <1>4 DEF Submit, Pending
<1>5. CASE \E i \in Job : Delete(i)
  BY <1>1, <1>2, <1>5 DEF Delete, NoRecord
<1>6. CASE New
  BY <1>1, <1>2, <1>6 DEF New, NoRecord, Pending
<1> QED
  BY <1>3, <1>4, <1>5, <1>6 DEF ApiNext

LEMMA ApiCharged ==
    ASSUME RenewalsInTime, Types, Local, Truthful, Timely, Charged, ApiNext
    PROVE  Charged'
<1>1. /\ [Next]_vars /\ UNCHANGED <<worker, line, late, faults, clock>>
      /\ IsFiniteSet(late)
  <2>1. UNCHANGED clock
    BY DEF ApiNext, SaveNext, SaveBegin, SaveWrite, SaveEOF, SaveDrop, SaveReject,
           SaveCommit, DiscardUpload, Submit, Delete, New
  <2> QED
    BY <2>1, ApiNextOK DEF ApiNext, own, Charged
<1>2. IsFiniteSet(late') /\ Reserve' \in Nat /\ Reserve' <= Reserve
  BY <1>1, QuietReserve
<1>3. ASSUME NEW j \in Job PROVE KeepsAttention(j)
  BY <1>1, ApiMovesNothing, QuietAttention DEF KeepsAttention
<1> QED
  BY <1>1, <1>2, <1>3, JobsCharged

\* A call that runs into its timeout is a failure, and pays for itself: for the
\* claim that may still take a job, or for the attempt that may be lost with it.
LEMMA PassesCharged ==
    ASSUME Types, Local, Timely, Charged, TimePasses
    PROVE  Charged'
<1> DEFINE timedOut == {p \in Worker \X Task :
                          /\ line[p[1]][p[2]] # NoCall
                          /\ clock + 1 >= line[p[1]][p[2]].sent + Timeout}
<1>1. /\ clock' = clock + 1 /\ UNCHANGED <<job, worker, line, late>>
      /\ faults' = faults + Cardinality(timedOut)
  BY DEF TimePasses, Tick
<1>2. /\ clock \in Nat /\ faults \in Nat /\ IsFiniteSet(late)
      /\ Covered(0)
  BY DEF Types, TypeOK, Time, Local, Charged
<1>3. IsFiniteSet(timedOut) /\ Cardinality(timedOut) \in Nat
  <2>1. IsFiniteSet(Task)
    <3>1. Task = {"execute"} \cup {"renew"}
      BY DEF Task
    <3> QED
      BY <3>1, FS_Singleton, FS_Union
  <2>2. IsFiniteSet(Worker \X Task)
    BY <2>1, WorkersAssumption, FS_Product
  <2>3. timedOut \subseteq Worker \X Task
    OBVIOUS
  <2> HIDE DEF timedOut
  <2> QED
    BY <2>2, <2>3, FS_Subset, FS_CardinalityType
<1>4. OverdueClaims = {}
  BY NoCallOK DEF OverdueClaims, TimePasses
<1>5. OverdueClaims' \subseteq timedOut
  <2>1. SUFFICES ASSUME NEW v \in Worker, NEW k \in Task,
                        <<v, k>> \in OverdueClaims'
                 PROVE  <<v, k>> \in timedOut
    BY DEF OverdueClaims
  <2>2. line[v][k].kind = "claim" /\ ~(clock + 1 < line[v][k].sent + Timeout)
    BY <1>1, <2>1 DEF OverdueClaims, InTime
  <2>3. line[v][k].sent \in Nat
    BY TimelyFacts DEF Task
  <2> QED
    BY <1>2, <2>2, <2>3, NoCallOK, TimeConstants
<1> DEFINE n == Cardinality(LostClaims)
           x == Cardinality(OverdueClaims')
           t == Cardinality(timedOut)
<1>6. /\ n \in Nat /\ x \in Nat /\ t \in Nat /\ x <= t
      /\ Reserve = n /\ Reserve' = n + x
  <2>1. IsFiniteSet(OverdueClaims') /\ x <= t
    BY <1>3, <1>5, FS_Subset
  <2>2. x \in Nat /\ n \in Nat
    BY <1>2, <2>1, FS_CardinalityType, ReserveFacts
  <2>3. LostClaims' = LostClaims
    BY <1>1 DEF LostClaims
  <2>4. Cardinality(OverdueClaims) = 0
    BY <1>4, FS_EmptySet
  <2> QED
    BY <1>3, <2>1, <2>2, <2>3, <2>4 DEF Reserve
<1>7. ASSUME NEW p \in timedOut, p \notin OverdueClaims' PROVE x + 1 <= t
  <2>1. OverdueClaims' \subseteq timedOut \ {p}
    BY <1>5, <1>7
  <2>2. IsFiniteSet(timedOut \ {p}) /\ Cardinality(timedOut \ {p}) = t - 1
    BY <1>3, <1>7, FS_RemoveElement
  <2>3. x <= t - 1
    BY <2>1, <2>2, FS_Subset
  <2> HIDE DEF x, t
  <2> QED
    BY <1>6, <2>3
<1>8. ASSUME NEW j \in Job, Attended(j), ~Attended(j)' PROVE x + 1 <= t
  <2>1. PICK v \in Worker :
           Attends(worker[v], line[v]["execute"], line[v]["renew"], clock, j,
                   job[j].token)
    BY <1>8 DEF Attended
  <2>2. ~Attends(worker[v], line[v]["execute"], line[v]["renew"], clock + 1, j,
                 job[j].token)
    BY <1>1, <1>8 DEF Attended
  <2>3. line[v]["execute"].sent \in Nat /\ line[v]["renew"].sent \in Nat
    BY TimelyFacts
  <2>4. CASE line[v]["execute"].kind = "claim"
    <3>1. /\ line[v]["execute"].answer = "ok" /\ line[v]["execute"] # NoCall
          /\ ~(clock + 1 < line[v]["execute"].sent + Timeout)
      BY <2>1, <2>2, <2>4, AtWork, NoCallOK DEF Attends
    <3>2. <<v, "execute">> \in timedOut /\ <<v, "execute">> \notin OverdueClaims'
      BY <1>1, <1>2, <2>3, <3>1, TimeConstants DEF OverdueClaims, Task
    <3> QED
      BY <1>7, <3>2
  <2>5. CASE line[v]["execute"].kind # "claim"
    <3>1. PICK k \in Task : /\ line[v][k] # NoCall
                            /\ ~(clock + 1 < line[v][k].sent + Timeout)
      BY <2>1, <2>2, <2>5 DEF Attends, Task
    <3>2. line[v][k].kind # "claim"
      BY <2>5, TimelyFacts, NoCallOK DEF HeartOK, Task
    <3>3. line[v][k].sent \in Nat
      BY <2>3 DEF Task
    <3>4. <<v, k>> \in timedOut /\ <<v, k>> \notin OverdueClaims'
      BY <1>1, <1>2, <3>1, <3>2, <3>3, TimeConstants DEF OverdueClaims
    <3> QED
      BY <1>7, <3>4
  <2> QED
    BY <2>4, <2>5
<1> HIDE DEF n, x, t, timedOut
<1>9. ASSUME NEW j \in Job
      PROVE  /\ job'[j].status = "queued" => job'[j].attempts + Reserve' <= faults'
             /\ job'[j].status = "processing" =>
                   /\ job'[j].attempts - 1 + Reserve' <= faults'
                   /\ Attended(j)' \/ job'[j].attempts + Reserve' <= faults'
             /\ job'[j].cause = "expired" => MaxAttempts <= faults'
  <2>1. faults' = faults + t /\ MaxAttempts \in Nat
    BY <1>1, LimitsAssumption DEF t
  <2> QED
    BY <1>1, <1>6, <1>8, <2>1, ChargedFacts
<1>10. 0 + Reserve' <= faults'
  BY <1>1, <1>2, <1>6 DEF Covered, t
<1>11. IsFiniteSet(late')
  BY <1>1, <1>2
<1> QED
  BY <1>9, <1>10, <1>11 DEF Charged, Covered

LEMMA StepCharged ==
    ASSUME RenewalsInTime, Patience, Types, Links, AudioAvailable, Local, Truthful,
           Timely, TicketsOK, Charged, [WorkersNext]_workersVars
    PROVE  Charged'
<1>1. CASE UNCHANGED workersVars
  BY <1>1 DEF workersVars, own, vars, Charged, Covered, Reserve, LostClaims,
              OverdueClaims, InTime, Attended
<1> QED
  BY <1>1, WorkerCharged, ServeCharged, ServeAudioCharged, ServeLateCharged,
     ApiCharged, PassesCharged DEF WorkersNext

LEMMA InitCharged == WorkersInit => Charged
<1> SUFFICES ASSUME WorkersInit PROVE Charged
  OBVIOUS
<1>1. late = {} /\ faults = 0 /\ \A j \in Job : job[j] = NoRecord("unborn")
  BY DEF WorkersInit, Init
<1>2. LostClaims = {} /\ OverdueClaims = {}
  BY <1>1, NoCallOK DEF WorkersInit, LostClaims, OverdueClaims
<1>3. Reserve = 0 /\ IsFiniteSet(late)
  BY <1>1, <1>2, FS_EmptySet DEF Reserve
<1> QED
  BY <1>1, <1>3 DEF Charged, Covered, NoRecord

\* No attempt is wasted by the protocol itself: where renewals come in time and
\* the probe is patient, a job is given up for lapsed leases only after as many
\* separate failures as it has attempts, and each failure of a call, of a worker
\* or of an inference uses up one attempt at most (Claim, execute, renew).
THEOREM ExpiryIsEarned ==
    RenewalsInTime /\ Patience => (WorkersSpec => []ExpiryNeedsFaults)
<1> SUFFICES ASSUME RenewalsInTime, Patience
             PROVE  WorkersSpec => []ExpiryNeedsFaults
  OBVIOUS
<1> DEFINE Established == Types /\ Links /\ AudioAvailable /\ Local /\ Truthful /\ Timely
           Ledger == TicketsOK /\ Charged
<1>1. WorkersSpec => []Established
  BY TimelyInvariant, QueueHoldsWithWorkers, WorkersUseStore, LinksInvariant, PTL
<1>2. WorkersInit => Ledger
  BY InitTickets, InitCharged
<1>3. Established /\ Ledger /\ [WorkersNext]_workersVars => Ledger'
  BY StepTickets, StepCharged
<1>4. Charged => ExpiryNeedsFaults
  BY DEF Charged, ExpiryNeedsFaults
<1> QED
  BY <1>1, <1>2, <1>3, <1>4, PTL DEF WorkersSpec
=============================================================================
