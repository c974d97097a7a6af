---------------------------- MODULE WorkersProofs ----------------------------
(***************************************************************************)
(* What holds of Workers for every set of workers and every time limit.    *)
(*                                                                         *)
(* Each request that reaches the API is an action of Store, or changes     *)
(* nothing, if it names a job: LocalOK says what a worker and its calls    *)
(* know.  The queue with workers is then a queue, and what is proved of    *)
(* Store holds of it; and a worker that was told 200 was told the truth.   *)
(***************************************************************************)
EXTENDS Workers, StoreAccountingProofs

-----------------------------------------------------------------------------
(* The invariant *)

Reporting == {"committing", "failing"}

\* A worker with a job knows it, and starts to count its reports from zero.
WorkerOK(r) ==
    /\ r \in WorkerRecord
    /\ r.pc \notin {"idle", "claiming"} \/ r.heart # "off" => r.job \in Job
    /\ r.pc = "committing" => r.body \in {"result", "invalid"}
    /\ r.pc \notin Reporting => r.tries = 0

\* A request names a job; so does the answer to a claim that found one.
CallOK(c) ==
    /\ c \in CallRecord
    /\ c.kind \in {"heartbeat", "audio", "complete"} => c.job \in Job
    /\ c.kind = "claim" /\ c.answer = "ok" => c.job \in Job

\* What execute waits for is what its place in the code says.
AwaitOK(r, c) ==
    /\ r.pc = "claiming" /\ c # NoCall => c.kind = "claim"
    /\ r.pc \in Reporting =>
          \/ c = NoCall /\ r.tries < Attempts
          \/ /\ c.kind = "complete" /\ c.job = r.job /\ c.token = r.token
             /\ c.body = r.body /\ r.tries # 0

LocalOK(r, c) ==
    /\ WorkerOK(r) /\ AwaitOK(r, c["execute"])
    /\ \A k \in Task : CallOK(c[k])

Local ==
    /\ worker \in [Worker -> WorkerRecord]
    /\ line \in [Worker -> [Task -> CallRecord]]
    /\ \A w \in Worker : LocalOK(worker[w], line[w])
    /\ \A c \in late : CallOK(c)
    /\ IsFiniteSet(late)
    /\ faults \in Nat

\* The result of attempt k is what job j completed with, until it is removed.
Committed(j, k) ==
    /\ j \in Job /\ k \in 1 .. MaxAttempts
    /\ job[j].result = k \/ job[j].status = "gone"

\* An answer that a worker will count as a completion.
Granted(c) == c.kind = "complete" /\ c.answer = "ok"

\* Every such answer, read or not, is about a result that was committed.
Truthful ==
    /\ \A w \in Worker, k \in Task : Granted(line[w][k]) =>
          /\ line[w][k].body # "invalid"
          /\ line[w][k].body = "result"
             => Committed(line[w][k].job, line[w][k].token)
    /\ \A a \in acked : a \in Attempt /\ Committed(a[1], a[2])

-----------------------------------------------------------------------------
(* Requests as actions of Store *)

\* A commit lasts, whatever the queue does next.
LEMMA CommittedLasts ==
    ASSUME Types, [Next]_vars, NEW j, NEW k, Committed(j, k)
    PROVE  Committed(j, k)'
<1>1. RecordOK(job[j])
  BY DEF Types, RecordsOK, Committed
<1>2. CASE job[j].status = "gone"
  BY <1>2, StepOutcomes DEF Committed
<1>3. CASE job[j].result = k
  <2>1. job[j].status = "completed"
    BY <1>1, <1>3 DEF RecordOK, Committed
  <2>2. job'[j] = job[j] \/ job'[j].status = "gone"
    BY <2>1, StepOutcomes DEF Committed, Finished, NoRecord
  <2> QED
    BY <1>3, <2>2 DEF Committed
<1> QED
  BY <1>2, <1>3 DEF Committed

\* Who holds a lease holds a token that was issued.
LEMMA LeasedIsIssued ==
    ASSUME Types, NEW j \in Job, NEW k, NEW t, Leased(j, k, t)
    PROVE  k \in Issued(j) /\ k \in 1 .. MaxAttempts
BY DEF Types, RecordsOK, RecordOK, JobRecord, Leased, Issued

LEMMA HandleClaimIsStep ==
    ASSUME Types, NEW answer, NEW j \in Job \cup {NoJob}, HandleClaim(answer, j)
    PROVE  /\ Next
           /\ answer = "ok" => j \in Job
           /\ j # NoJob => j \in Job
<1>1. PICK t \in RecentPast :
         /\ IF Waiting(t) = {} THEN j = NoJob ELSE j \in Oldest(Waiting(t))
         /\ ClaimWith(j, t)
         /\ answer = IF j = NoJob THEN "empty" ELSE "ok"
  BY DEF HandleClaim
<1>2. Claim(t)
  BY <1>1 DEF Claim
<1> QED
  BY <1>1, <1>2 DEF Next

LEMMA HandleHeartbeatIsStep ==
    ASSUME Types, NEW c, c.job \in Job, NEW answer, HandleHeartbeat(c, answer)
    PROVE  [Next]_vars
<1>1. CASE \E t \in RecentPast : answer = "ok" /\ Heartbeat(c.job, c.token, t)
  <2>1. PICK t \in RecentPast : Heartbeat(c.job, c.token, t)
    BY <1>1
  <2>2. c.token \in Issued(c.job)
    BY <2>1, LeasedIsIssued DEF Heartbeat
  <2>3. WorkerNext(c.job, c.token, t)
    BY <2>1 DEF WorkerNext
  <2> QED
    BY <2>2, <2>3 DEF Next
<1>2. CASE \E t \in RecentPast : Fenced(c, answer, t)
  BY <1>2 DEF Fenced
<1> QED
  BY <1>1, <1>2 DEF HandleHeartbeat

LEMMA HandleCompleteIsStep ==
    ASSUME Types, NEW c, c.job \in Job, NEW answer, HandleComplete(c, answer)
    PROVE  /\ [Next]_vars
           /\ answer = "ok" => /\ c.body # "invalid"
                               /\ c.body = "result" => Committed(c.job, c.token)'
<1>1. CASE c.body = "invalid" \/ \E t \in RecentPast : Fenced(c, answer, t)
  BY <1>1 DEF HandleComplete, Fenced
<1>2. CASE /\ c.body # "invalid" /\ answer = "ok"
           /\ \E t \in RecentPast :
                \/ c.body = "result" /\ FinishResult(c.job, c.token, t)
                \/ c.body = "retry" /\ FinishRetry(c.job, c.token, t)
                \/ c.body = "retry" /\ FinishError(c.job, c.token, t, TRUE)
                \/ c.body = "fatal" /\ FinishError(c.job, c.token, t, FALSE)
  <2>1. PICK t \in RecentPast :
                \/ c.body = "result" /\ FinishResult(c.job, c.token, t)
                \/ c.body = "retry" /\ FinishRetry(c.job, c.token, t)
                \/ c.body = "retry" /\ FinishError(c.job, c.token, t, TRUE)
                \/ c.body = "fatal" /\ FinishError(c.job, c.token, t, FALSE)
    BY <1>2
  <2>2. Leased(c.job, c.token, t)
    BY <2>1 DEF FinishResult, FinishRetry, FinishError
  <2>3. c.token \in Issued(c.job) /\ c.token \in 1 .. MaxAttempts
    BY <2>2, LeasedIsIssued
  <2>4. WorkerNext(c.job, c.token, t)
    BY <2>1 DEF WorkerNext
  <2>5. Next
    BY <2>3, <2>4 DEF Next
  <2>6. c.body = "result" => job'[c.job].result = c.token
    <3>1. job \in [Job -> JobRecord]
      BY DEF Types, TypeOK
    <3> QED
      BY <2>1, <3>1 DEF FinishResult, Settle, SetStatus, JobRecord
  <2> QED
    BY <1>2, <2>3, <2>5, <2>6 DEF Committed
<1> QED
  BY <1>1, <1>2 DEF HandleComplete

\* A request is an action of the queue or leaves it alone, and its answer is
\* true.
LEMMA HandleIsStep ==
    ASSUME Types, NEW c, CallOK(c), NEW answer, NEW j \in Job \cup {NoJob},
           Handle(c, answer, j)
    PROVE  /\ [Next]_vars
           /\ c.kind \in {"claim", "heartbeat", "complete"}
           /\ c.kind = "claim" => (answer = "ok" \/ j # NoJob => j \in Job)
           /\ c.kind # "claim" => j = c.job /\ j \in Job
           /\ c.kind = "complete" /\ answer = "ok" =>
                /\ c.body # "invalid"
                /\ c.body = "result" => Committed(c.job, c.token)'
<1>1. CASE c.kind = "claim" /\ HandleClaim(answer, j)
  BY <1>1, HandleClaimIsStep
<1>2. CASE c.kind = "heartbeat" /\ j = c.job /\ HandleHeartbeat(c, answer)
  <2>1. c.job \in Job
    BY <1>2 DEF CallOK
  <2> QED
    BY <1>2, <2>1, HandleHeartbeatIsStep
<1>3. CASE c.kind = "complete" /\ j = c.job /\ HandleComplete(c, answer)
  <2>1. c.job \in Job
    BY <1>3 DEF CallOK
  <2> QED
    BY <1>3, <2>1, HandleCompleteIsStep
<1> QED
  BY <1>1, <1>2, <1>3 DEF Handle

-----------------------------------------------------------------------------
(* What a task knows when it goes on *)

LEMMA Constants ==
    /\ 0 \in Time /\ 0 \in 0 .. MaxAttempts /\ 0 \in 0 .. Attempts /\ 0 \in Nat
    /\ 0 < Attempts /\ MaxAttempts \in Nat /\ Attempts \in Nat
    /\ NoJob \notin Job /\ Period \in Nat /\ Time \subseteq Nat
    /\ \A n \in 1 .. Attempts : Pause[n] \in Nat
BY WorkersAssumption, PauseAssumption, TimesAssumption, LimitsAssumption, IdentifiersAssumption
   DEF Time

LEMMA NoCallOK == CallOK(NoCall) /\ ~Granted(NoCall) /\ NoCall.kind = "none"
BY Constants DEF CallOK, NoCall, CallRecord, Granted

LEMMA IdleOK == WorkerOK(Idle) /\ AwaitOK(Idle, NoCall)
BY Constants DEF WorkerOK, AwaitOK, Idle, WorkerRecord, Reporting

\* A request that is sent.
LEMMA SentOK ==
    ASSUME TypeOK, NEW r \in WorkerRecord,
           NEW kind \in {"claim", "heartbeat", "audio", "complete"},
           kind # "claim" => r.job \in Job
    PROVE  /\ CallOK(Call(kind, r)) /\ ~Granted(Call(kind, r))
           /\ Call(kind, r) # NoCall
           /\ Call(kind, r).kind = kind /\ Call(kind, r).job = r.job
           /\ Call(kind, r).token = r.token /\ Call(kind, r).body = r.body
<1>1. clock \in Nat
  BY Constants DEF TypeOK
<1> QED
  BY <1>1, Constants DEF Call, CallOK, NoCall, CallRecord, WorkerRecord, Granted

\* There are fewer late requests than numbers, so one number is free.
LEMMA NumberIsFree ==
    ASSUME IsFiniteSet(late), NEW c \in CallRecord
    PROVE  CopyNumber(c) \in Nat /\ [c EXCEPT !.sent = CopyNumber(c)] \notin late
<1> DEFINE K == Cardinality(late)
           f == [n \in 0 .. K |-> [c EXCEPT !.sent = n]]
<1>1. K \in Nat
  BY FS_CardinalityType
<1>2. ASSUME \A n \in 0 .. K : f[n] \in late
      PROVE  FALSE
  <2>1. f \in [0 .. K -> late]
    BY <1>2
  <2>2. \A m, n \in 0 .. K : f[m] = f[n] => m = n
    <3>1. \A n \in 0 .. K : f[n].sent = n
      BY DEF CallRecord
    <3> QED
      BY <3>1
  <2> HIDE DEF f
  <2>3. f \in Injection(0 .. K, late)
    BY <2>1, <2>2 DEF Injection, IsInjective
  <2>4. Cardinality(0 .. K) <= K
    BY <2>3, FS_Injection
  <2>5. Cardinality(0 .. K) = K + 1
    BY <1>1, FS_Interval
  <2> QED
    BY <1>1, <2>4, <2>5
<1>3. \E n \in 0 .. K : [c EXCEPT !.sent = n] \notin late
  BY <1>2
<1> QED
  BY <1>1, <1>3 DEF CopyNumber

\* Worker w goes on with its calls c: what is left unread may still come.
LEMMA ChangeLocal ==
    ASSUME Local, NEW w \in Worker, NEW r, NEW c \in [Task -> CallRecord],
           LocalOK(r, c), worker' = [worker EXCEPT ![w] = r], Line(w, c),
           faults' \in Nat
    PROVE  Local'
<1>1. r \in WorkerRecord
  BY DEF LocalOK, WorkerOK
<1>2. worker' \in [Worker -> WorkerRecord] /\ line' \in [Worker -> [Task -> CallRecord]]
  BY <1>1 DEF Local, Line
<1>3. \A v \in Worker : LocalOK(worker'[v], line'[v])
  BY DEF Local, Line
<1>4. ASSUME NEW d \in late' PROVE CallOK(d)
  <2>1. CASE d \in late
    BY <2>1 DEF Local
  <2>2. CASE \E k \in Task : d = [line[w][k] EXCEPT !.sent = CopyNumber(line[w][k])]
    <3>1. PICK k \in Task : d = [line[w][k] EXCEPT !.sent = CopyNumber(line[w][k])]
      BY <2>2
    <3>2. CallOK(line[w][k])
      BY DEF Local, LocalOK
    <3>3. CopyNumber(line[w][k]) \in Nat
      BY <3>2, NumberIsFree DEF CallOK, Local
    <3> QED
      BY <3>1, <3>2, <3>3 DEF CallOK, CallRecord
  <2> QED
    BY <2>1, <2>2 DEF Line
<1>5. (\A d \in late : CallOK(d))'
  BY <1>4
<1>6. IsFiniteSet(late')
  <2> DEFINE Left(k) == {[line[w][k] EXCEPT !.sent = CopyNumber(line[w][k])]}
  <2>1. late' \subseteq late \cup Left("execute") \cup Left("renew")
    BY DEF Line, Task
  <2>2. IsFiniteSet(Left("execute")) /\ IsFiniteSet(Left("renew"))
    BY FS_Singleton
  <2> HIDE DEF Left
  <2>3. IsFiniteSet(late \cup Left("execute") \cup Left("renew"))
    BY <2>2, FS_Union DEF Local
  <2> QED
    BY <2>1, <2>3, FS_Subset
<1> QED
  BY <1>2, <1>3, <1>5, <1>6 DEF Local

\* No answer becomes an answer that counts.
LEMMA ChangeTruthful ==
    ASSUME Local, Truthful, UNCHANGED <<vars, acked>>,
           NEW w \in Worker, NEW c, Line(w, c),
           \A k \in Task : c[k] = line[w][k] \/ ~Granted(c[k])
    PROVE  Truthful'
<1>1. \A v \in Worker, k \in Task :
         line'[v][k] = line[v][k] \/ ~Granted(line'[v][k])
  BY DEF Line, Local
<1>2. \A j, k : Committed(j, k) => Committed(j, k)'
  BY DEF Committed, vars
<1> QED
  BY <1>1, <1>2 DEF Truthful, Granted

-----------------------------------------------------------------------------
(* The steps of a worker *)

\* A task goes on as worker state r, with the call c.
LEMMA ResumeOK ==
    ASSUME Local, Truthful, UNCHANGED <<vars, acked>>, faults' \in Nat,
           NEW w \in Worker, NEW k \in Task, NEW r, NEW c, Resume(w, k, r, c),
           WorkerOK(r), CallOK(c), ~Granted(c),
           AwaitOK(r, IF k = "execute" THEN c ELSE line[w]["execute"])
    PROVE  Local' /\ Truthful'
<1> DEFINE calls == [line[w] EXCEPT ![k] = c]
<1>1. /\ calls \in [Task -> CallRecord]
      /\ \A i \in Task : calls[i] = IF i = k THEN c ELSE line[w][i]
  BY DEF Local, CallOK
<1>2. "execute" \in Task
  BY DEF Task
<1>3. \A i \in Task : CallOK(line[w][i])
  BY DEF Local, LocalOK
<1>4. LocalOK(r, calls)
  BY <1>1, <1>2, <1>3 DEF LocalOK
<1> HIDE DEF calls
<1>5. worker' = [worker EXCEPT ![w] = r] /\ Line(w, calls)
  BY DEF Resume, calls
<1>6. Local'
  BY <1>1, <1>4, <1>5, ChangeLocal
<1>7. \A i \in Task : calls[i] = line[w][i] \/ ~Granted(calls[i])
  BY <1>1
<1>8. Truthful'
  BY <1>5, <1>7, ChangeTruthful
<1> QED
  BY <1>6, <1>8

LEMMA EndLocal ==
    ASSUME Local, NEW w \in Worker, End(w), faults' \in Nat
    PROVE  Local'
<1> DEFINE calls == [k \in Task |-> NoCall]
<1>1. calls \in [Task -> CallRecord] /\ LocalOK(Idle, calls)
  BY NoCallOK, IdleOK DEF LocalOK, CallOK, Task
<1> HIDE DEF calls
<1>2. worker' = [worker EXCEPT ![w] = Idle] /\ Line(w, calls)
  BY DEF End, calls
<1> QED
  BY <1>1, <1>2, ChangeLocal

LEMMA EndOK ==
    ASSUME Local, Truthful, UNCHANGED <<vars, acked>>, faults' \in Nat,
           NEW w \in Worker, End(w)
    PROVE  Local' /\ Truthful'
<1> DEFINE calls == [k \in Task |-> NoCall]
<1>1. Line(w, calls) /\ \A k \in Task : ~Granted(calls[k])
  BY NoCallOK DEF End
<1> HIDE DEF calls
<1> QED
  BY <1>1, EndLocal, ChangeTruthful

LEMMA ComplainOK ==
    ASSUME Local, Truthful, UNCHANGED <<vars, acked>>, faults' \in Nat,
           NEW w \in Worker, worker[w].pc \notin {"idle", "claiming"},
           NEW body \in {"retry", "fatal"}, Complain(w, body)
    PROVE  Local' /\ Truthful'
<1> DEFINE r == [worker[w] EXCEPT !.pc = "failing", !.body = body, !.tries = 0]
<1>1. WorkerOK(worker[w])
  BY DEF Local, LocalOK
<1>2. WorkerOK(r) /\ r.pc = "failing" /\ r.tries = 0
  BY <1>1, Constants DEF WorkerOK, WorkerRecord, Reporting
<1>3. AwaitOK(r, NoCall)
  BY <1>2, Constants DEF AwaitOK, Reporting
<1>4. "execute" \in Task
  BY DEF Task
<1>5. End(w) \/ Resume(w, "execute", r, NoCall)
  BY DEF Complain
<1> HIDE DEF r
<1> QED
  BY <1>2, <1>3, <1>4, <1>5, EndOK, ResumeOK, NoCallOK

LEMMA FaultsNat ==
    ASSUME Local, NEW w, NEW k, NEW a, Answered(w, k, a) \/ Failed(w, k)
    PROVE  faults' \in Nat
BY DEF Local, Answered, Failed

\* What LocalOK says of a worker.
LEMMA WorkerFacts ==
    ASSUME Local, NEW w \in Worker
    PROVE  /\ WorkerOK(worker[w]) /\ worker[w] \in WorkerRecord
           /\ AwaitOK(worker[w], line[w]["execute"])
           /\ \A k \in Task : CallOK(line[w][k]) /\ line[w][k] \in CallRecord
           /\ "execute" \in Task /\ "renew" \in Task
BY DEF Local, LocalOK, WorkerOK, CallOK, Task

LEMMA PollOK ==
    ASSUME Types, Local, Truthful, NEW w \in Worker, Poll(w)
    PROVE  Local' /\ Truthful'
<1> DEFINE r == [worker[w] EXCEPT !.pc = "claiming"]
           c == Call("claim", worker[w])
<1>1. CallOK(c) /\ ~Granted(c) /\ c.kind = "claim"
  BY WorkerFacts, SentOK DEF Types
<1>2. WorkerOK(r) /\ AwaitOK(r, c)
  BY <1>1, WorkerFacts DEF Poll, WorkerOK, AwaitOK, WorkerRecord, Reporting
<1>3. Resume(w, "execute", r, c) /\ UNCHANGED <<vars, acked>> /\ faults' \in Nat
  BY DEF Poll, Local
<1> HIDE DEF r, c
<1> QED
  BY <1>1, <1>2, <1>3, ResumeOK, WorkerFacts

LEMMA BeginOK ==
    ASSUME Types, Local, Truthful, NEW w \in Worker, Begin(w)
    PROVE  Local' /\ Truthful'
<1> DEFINE c == line[w]["execute"]
           r == [Idle EXCEPT !.pc = "fetching", !.job = c.job, !.token = c.token,
                             !.progress = clock, !.heart = "asleep",
                             !.due = clock + Period, !.renewed = clock]
<1>1. c.job \in Job /\ c.token \in 0 .. MaxAttempts
  <2>1. c.answer = "ok" /\ worker[w].pc = "claiming"
    BY DEF Begin, Answered
  <2>2. c # NoCall
    BY <2>1 DEF NoCall
  <2> QED
    BY <2>1, <2>2, WorkerFacts DEF AwaitOK, CallOK, CallRecord
<1>2. clock \in Time /\ clock \in Nat /\ clock + Period \in Nat
  BY Constants, TimesAssumption DEF Types, TypeOK, Time
<1>3. WorkerOK(r) /\ r \in WorkerRecord /\ r.job \in Job /\ r.pc = "fetching"
  BY <1>1, <1>2, Constants DEF WorkerOK, Idle, WorkerRecord, Reporting
<1>4. CallOK(Call("audio", r)) /\ ~Granted(Call("audio", r))
  BY <1>3, SentOK DEF Types
<1>5. AwaitOK(r, Call("audio", r))
  BY <1>3 DEF AwaitOK, Reporting
<1>6. /\ Resume(w, "execute", r, Call("audio", r)) /\ UNCHANGED <<vars, acked>>
      /\ faults' \in Nat
  BY FaultsNat DEF Begin
<1> HIDE DEF r, c
<1> QED
  BY <1>3, <1>4, <1>5, <1>6, ResumeOK, WorkerFacts

LEMMA FetchOK ==
    ASSUME Types, Local, Truthful, NEW w \in Worker,
           Fetched(w) \/ PollAgain(w) \/ Interrupted(w)
    PROVE  Local' /\ Truthful'
<1>1. CASE PollAgain(w) \/ Interrupted(w)
  <2>1. End(w) /\ UNCHANGED <<vars, acked>> /\ faults' \in Nat
    BY <1>1, FaultsNat DEF PollAgain, Interrupted, Local
  <2> QED
    BY <2>1, EndOK
<1>2. CASE Fetched(w)
  <2> DEFINE r == [worker[w] EXCEPT !.pc = "receiving"]
  <2>1. /\ UNCHANGED <<vars, acked>> /\ faults' \in Nat
        /\ worker[w].pc \notin {"idle", "claiming"}
    BY <1>2, FaultsNat DEF Fetched
  <2>2. WorkerOK(r) /\ AwaitOK(r, NoCall)
    BY <1>2, WorkerFacts DEF Fetched, WorkerOK, AwaitOK, WorkerRecord, Reporting
  <2>3. \/ Resume(w, "execute", r, NoCall)
        \/ End(w) \/ Complain(w, "retry")
    BY <1>2 DEF Fetched
  <2> HIDE DEF r
  <2> QED
    BY <2>1, <2>2, <2>3, ResumeOK, EndOK, ComplainOK, NoCallOK, WorkerFacts
<1> QED
  BY <1>1, <1>2

\* A worker goes on as r and its calls stay as they are.
LEMMA KeepsCalls ==
    ASSUME Local, Truthful, UNCHANGED <<vars, line, late, acked>>, faults' \in Nat,
           NEW w \in Worker, NEW r, worker' = [worker EXCEPT ![w] = r],
           WorkerOK(r), AwaitOK(r, line[w]["execute"])
    PROVE  Local' /\ Truthful'
<1>1. r \in WorkerRecord
  BY DEF WorkerOK
<1>2. worker' \in [Worker -> WorkerRecord]
  BY <1>1 DEF Local
<1>3. \A v \in Worker : LocalOK(worker'[v], line[v])
  BY DEF Local, LocalOK
<1>4. Local'
  BY <1>2, <1>3 DEF Local
<1>5. \A j, k : Committed(j, k) => Committed(j, k)'
  BY DEF Committed, vars
<1> QED
  BY <1>4, <1>5 DEF Truthful

LEMMA InferOK ==
    ASSUME Types, Local, Truthful, NEW w \in Worker,
           Receive(w) \/ Infer(w) \/ Inferred(w) \/ Stick(w) \/ Stop(w)
    PROVE  Local' /\ Truthful'
<1> USE WorkerFacts
<1>1. clock \in Time /\ UNCHANGED <<vars, acked>> /\ faults' \in Nat
  BY DEF Types, TypeOK, Local, Receive, Infer, Inferred, Stick, Stop
<1>2. worker[w].pc \in {"receiving", "inferring"}
  BY DEF Receive, Infer, Inferred, Stick, Stop
<1> DEFINE moved(r) ==
      /\ r.pc \in {"receiving", "inferring"} /\ r.tries = 0 /\ r.job = worker[w].job
<1>3. ASSUME NEW r \in WorkerRecord, moved(r)
      PROVE  WorkerOK(r) /\ AwaitOK(r, line[w]["execute"])
  BY <1>2, <1>3 DEF WorkerOK, AwaitOK, Reporting
<1>4. CASE /\ UNCHANGED <<line, late>>
           /\ \E r \in WorkerRecord : moved(r) /\ worker' = [worker EXCEPT ![w] = r]
  BY <1>1, <1>3, <1>4, KeepsCalls
<1>5. CASE \E body \in {"retry", "fatal"} : Complain(w, body)
  BY <1>1, <1>2, <1>5, ComplainOK
<1>6. CASE \E body \in {"result", "invalid"} :
             Resume(w, "execute", [worker[w] EXCEPT !.pc = "committing",
                                     !.body = body, !.progress = clock], NoCall)
  <2>1. PICK body \in {"result", "invalid"} :
             Resume(w, "execute", [worker[w] EXCEPT !.pc = "committing",
                                     !.body = body, !.progress = clock], NoCall)
    BY <1>6
  <2> DEFINE r == [worker[w] EXCEPT !.pc = "committing", !.body = body,
                                    !.progress = clock]
  <2>2. WorkerOK(r) /\ AwaitOK(r, NoCall)
    BY <1>1, <1>2, Constants, ZenonT(40) DEF WorkerOK, AwaitOK, WorkerRecord, Reporting
  <2> HIDE DEF r
  <2> QED
    BY <1>1, <2>1, <2>2, ResumeOK, NoCallOK DEF r
<1>7. worker[w].tries = 0
  BY <1>2 DEF WorkerOK, Reporting
<1>8. /\ moved([worker[w] EXCEPT !.progress = clock])
      /\ [worker[w] EXCEPT !.progress = clock] \in WorkerRecord
  BY <1>1, <1>2, <1>7 DEF WorkerRecord
<1>9. CASE Receive(w)
  <2>1. [worker[w] EXCEPT !.pc = "inferring"] \in WorkerRecord
    BY DEF WorkerRecord
  <2>2. moved([worker[w] EXCEPT !.pc = "inferring"])
    BY <1>7, <1>9 DEF WorkerRecord
  <2>3. [worker EXCEPT ![w].progress = clock]
           = [worker EXCEPT ![w] = [worker[w] EXCEPT !.progress = clock]]
    BY DEF Local
  <2>4. [worker EXCEPT ![w].pc = "inferring"]
           = [worker EXCEPT ![w] = [worker[w] EXCEPT !.pc = "inferring"]]
    BY DEF Local
  <2> QED
    BY <1>4, <1>5, <1>8, <1>9, <2>1, <2>2, <2>3, <2>4 DEF Receive
<1>10. CASE Infer(w)
  <2> DEFINE r == [worker[w] EXCEPT !.progress = clock, !.stuck = FALSE]
  <2>1. r \in WorkerRecord /\ moved(r)
    <3>1. r \in WorkerRecord
      BY <1>1, ZenonT(40) DEF WorkerRecord
    <3>2. /\ r.pc = worker[w].pc /\ r.tries = worker[w].tries
          /\ r.job = worker[w].job
      BY DEF WorkerRecord
    <3> QED
      BY <1>2, <1>7, <3>1, <3>2
  <2>2. worker' = [worker EXCEPT ![w] = r] /\ UNCHANGED <<line, late>>
    BY <1>10 DEF Infer, Local
  <2> QED
    BY <1>4, <2>1, <2>2
<1>11. CASE Inferred(w)
  BY <1>5, <1>6, <1>11 DEF Inferred
<1>12. CASE Stick(w)
  <2> DEFINE r == [worker[w] EXCEPT !.stuck = TRUE]
  <2>1. r \in WorkerRecord /\ moved(r)
    <3>1. r \in WorkerRecord
      BY <1>1 DEF WorkerRecord
    <3>2. /\ r.pc = worker[w].pc /\ r.tries = worker[w].tries
          /\ r.job = worker[w].job
      BY DEF WorkerRecord
    <3> QED
      BY <1>2, <1>7, <3>1, <3>2
  <2>2. worker' = [worker EXCEPT ![w] = r] /\ UNCHANGED <<line, late>>
    BY <1>12 DEF Stick, Local
  <2> QED
    BY <1>4, <2>1, <2>2
<1>13. CASE Stop(w)
  <2> DEFINE r == [worker[w] EXCEPT !.stopping = TRUE, !.cancel = TRUE]
  <2>1. r \in WorkerRecord /\ moved(r)
    <3>1. r \in WorkerRecord
      BY <1>1 DEF WorkerRecord
    <3>2. /\ r.pc = worker[w].pc /\ r.tries = worker[w].tries
          /\ r.job = worker[w].job
      BY DEF WorkerRecord
    <3> QED
      BY <1>2, <1>7, <3>1, <3>2
  <2>2. worker' = [worker EXCEPT ![w] = r] /\ UNCHANGED <<line, late>>
    BY <1>13 DEF Stop, Local
  <2> QED
    BY <1>4, <2>1, <2>2
<1> QED
  BY <1>9, <1>10, <1>11, <1>12, <1>13

LEMMA DieOK ==
    ASSUME Local, Truthful, NEW w \in Worker, Die(w) \/ Probe(w)
    PROVE  Local' /\ Truthful'
BY EndOK DEF Die, Probe, MayFail, Local

LEMMA PostOK ==
    ASSUME Types, Local, Truthful, NEW w \in Worker, Post(w)
    PROVE  Local' /\ Truthful'
<1> DEFINE r == [worker[w] EXCEPT !.tries = @ + 1, !.wake = 0]
           c == Call("complete", worker[w])
<1>1. /\ worker[w].pc \in Reporting /\ worker[w].job \in Job
      /\ line[w]["execute"] = NoCall
  BY WorkerFacts DEF Post, WorkerOK, Reporting
<1>2. worker[w].tries \in Nat /\ worker[w].tries < Attempts
  BY <1>1, WorkerFacts, NoCallOK DEF AwaitOK, WorkerRecord
<1>3. r \in WorkerRecord
  <2>1. worker[w].tries + 1 \in 0 .. Attempts /\ 0 \in Nat
    BY <1>2, Constants
  <2> QED
    BY <2>1, WorkerFacts DEF WorkerRecord
<1>4. /\ r.pc = worker[w].pc /\ r.job = worker[w].job /\ r.token = worker[w].token
      /\ r.body = worker[w].body /\ r.tries # 0
  BY <1>2, WorkerFacts DEF WorkerRecord
<1>5. CallOK(c) /\ ~Granted(c) /\ c.kind = "complete" /\ c.job = worker[w].job
      /\ c.token = worker[w].token /\ c.body = worker[w].body
  BY <1>1, WorkerFacts, SentOK DEF Types
<1>6. WorkerOK(r)
  BY <1>1, <1>3, <1>4, WorkerFacts DEF WorkerOK
<1>7. AwaitOK(r, c)
  BY <1>1, <1>4, <1>5 DEF AwaitOK, Reporting
<1>8. Resume(w, "execute", r, c) /\ UNCHANGED <<vars, acked>> /\ faults' \in Nat
  BY DEF Post, Local
<1> HIDE DEF r, c
<1> QED
  BY <1>5, <1>6, <1>7, <1>8, ResumeOK, WorkerFacts

\* A report that is answered: the worker counts what was committed.
LEMMA PostedOK ==
    ASSUME Types, Local, Truthful, NEW w \in Worker, Posted(w)
    PROVE  Local' /\ Truthful'
<1> DEFINE r == worker[w]
           c == line[w]["execute"]
<1>1. r.pc \in Reporting /\ UNCHANGED vars
  BY DEF Posted, Reporting
<1>2. CASE /\ r.pc = "committing" /\ Answered(w, "execute", "ok") /\ End(w)
           /\ acked' = acked \cup {<<r.job, r.token>>}
  <2>1. c.answer = "ok" /\ faults' \in Nat
    BY <1>2, FaultsNat DEF Answered
  <2>2. c # NoCall
    BY <2>1 DEF NoCall
  <2>3. /\ c.kind = "complete" /\ c.job = r.job /\ c.token = r.token
        /\ c.body = r.body
    BY <1>1, <2>2, WorkerFacts DEF AwaitOK
  <2>4. Granted(c) /\ "execute" \in Task
    BY <2>1, <2>3, WorkerFacts DEF Granted
  <2>5. c.body = "result"
    BY <1>2, <2>3, <2>4, WorkerFacts DEF Truthful, WorkerOK
  <2>6. Committed(r.job, r.token)
    BY <2>3, <2>4, <2>5 DEF Truthful
  <2>7. \A j, k : Committed(j, k) => Committed(j, k)'
    BY <1>1 DEF Committed, vars
  <2>8. \A a \in acked' : a \in Attempt /\ Committed(a[1], a[2])
    BY <1>2, <2>6 DEF Truthful, Attempt, Committed
  <2>9. \A v \in Worker, k \in Task :
           line'[v][k] = line[v][k] \/ ~Granted(line'[v][k])
    BY <1>2, NoCallOK DEF End, Line, Local
  <2>10. Truthful'
    BY <2>7, <2>8, <2>9 DEF Truthful, Granted
  <2> QED
    BY <1>2, <2>1, <2>10, EndLocal
<1>3. CASE UNCHANGED acked
  <2>1. faults' \in Nat /\ r.pc \notin {"idle", "claiming"}
    BY <1>1, FaultsNat DEF Posted, Reporting
  <2>2. End(w) \/ Complain(w, "fatal")
    BY DEF Posted
  <2> QED
    BY <1>1, <1>3, <2>1, <2>2, EndOK, ComplainOK
<1> QED
  BY <1>2, <1>3 DEF Posted

LEMMA PostFailsOK ==
    ASSUME Types, Local, Truthful, NEW w \in Worker, PostFails(w)
    PROVE  Local' /\ Truthful'
<1>1. /\ worker[w].pc \in Reporting /\ UNCHANGED <<vars, acked>>
      /\ faults' \in Nat
  BY FaultsNat DEF PostFails, Reporting
<1> DEFINE r == [worker[w] EXCEPT !.wake = clock + Pause[worker[w].tries]]
<1>2. CASE worker[w].tries < Attempts /\ Resume(w, "execute", r, NoCall)
  <2>1. clock \in Nat /\ Pause[worker[w].tries] \in Nat
    <3>1. line[w]["execute"] # NoCall
      BY DEF PostFails, Failed
    <3>2. worker[w].tries \in 1 .. Attempts
      BY <1>1, <3>1, WorkerFacts, Constants DEF AwaitOK, WorkerRecord
    <3> QED
      BY <3>2, Constants DEF Types, TypeOK
  <2>2. /\ r \in WorkerRecord /\ r.pc = worker[w].pc /\ r.job = worker[w].job
        /\ r.body = worker[w].body /\ r.tries = worker[w].tries
        /\ r.token = worker[w].token /\ r.heart = worker[w].heart
    BY <2>1, WorkerFacts DEF WorkerRecord
  <2> HIDE DEF r
  <2>3. WorkerOK(r)
    BY <2>2, WorkerFacts DEF WorkerOK
  <2>4. AwaitOK(r, NoCall)
    BY <1>1, <1>2, <2>2 DEF AwaitOK, Reporting
  <2> QED
    BY <1>1, <1>2, <2>3, <2>4, ResumeOK, NoCallOK, WorkerFacts
<1>3. CASE Complain(w, "retry") \/ End(w)
  BY <1>1, <1>3, ComplainOK, EndOK DEF Reporting
<1> QED
  BY <1>2, <1>3 DEF PostFails

-----------------------------------------------------------------------------
(* renew *)

\* renew goes on as r, which differs from the worker in its heart only.
LEMMA RenewGoesOn ==
    ASSUME Local, Truthful, UNCHANGED <<vars, acked>>, faults' \in Nat,
           NEW w \in Worker, NEW r, NEW c, Resume(w, "renew", r, c),
           r \in WorkerRecord, worker[w].heart # "off",
           r.pc = worker[w].pc, r.job = worker[w].job, r.token = worker[w].token,
           r.body = worker[w].body, r.tries = worker[w].tries,
           CallOK(c), ~Granted(c)
    PROVE  Local' /\ Truthful'
<1>1. WorkerOK(r) /\ AwaitOK(r, line[w]["execute"])
  BY WorkerFacts DEF WorkerOK, AwaitOK
<1> QED
  BY <1>1, ResumeOK, WorkerFacts

LEMMA RenewOK ==
    ASSUME Types, Local, Truthful, NEW w \in Worker, RenewNext(w)
    PROVE  Local' /\ Truthful'
<1> USE WorkerFacts
<1> DEFINE same(r) ==
      /\ r \in WorkerRecord
      /\ r.pc = worker[w].pc /\ r.job = worker[w].job /\ r.token = worker[w].token
      /\ r.body = worker[w].body /\ r.tries = worker[w].tries
<1>1. clock \in Time /\ clock + Period \in Nat
  BY Constants, TimesAssumption DEF Types, TypeOK, Time
<1>2. /\ UNCHANGED <<vars, acked>> /\ faults' \in Nat
      /\ worker[w].heart # "off" /\ worker[w].job \in Job
  BY FaultsNat DEF RenewNext, Wake, Renewed, RenewFails, Local, WorkerOK
<1>3. ASSUME NEW r, same(r)
      PROVE  same(Cancelled(r)) /\ same(Asleep(r))
  BY <1>1, <1>3 DEF WorkerRecord, Cancelled, Asleep
<1>4. same(worker[w])
  OBVIOUS
<1>5. CASE Wake(w)
  <2> DEFINE r == [worker[w] EXCEPT !.heart = "asking"]
             q == [worker[w] EXCEPT !.body = "none"]
  <2>1. same(r)
    BY DEF WorkerRecord
  <2>2. q \in WorkerRecord /\ q.job = worker[w].job
    BY DEF WorkerRecord
  <2>3. CallOK(Call("heartbeat", q)) /\ ~Granted(Call("heartbeat", q))
    BY <1>2, <2>2, SentOK DEF Types
  <2>4. \/ Resume(w, "renew", Cancelled(worker[w]), NoCall)
        \/ Resume(w, "renew", r, Call("heartbeat", q))
    BY <1>5 DEF Wake
  <2> HIDE DEF r, q
  <2> QED
    BY <1>2, <1>3, <1>4, <2>1, <2>3, <2>4, RenewGoesOn, NoCallOK
<1>6. CASE Renewed(w)
  <2> DEFINE r == [Asleep(worker[w]) EXCEPT !.renewed = line[w]["renew"].sent,
                                            !.misses = 0]
  <2>1. line[w]["renew"].sent \in Nat
    BY DEF CallRecord
  <2>2. same(r)
    BY <1>3, <1>4, <2>1, Constants, ZenonT(40) DEF WorkerRecord
  <2>3. \/ Resume(w, "renew", r, NoCall)
        \/ Resume(w, "renew", Cancelled(worker[w]), NoCall)
    BY <1>6 DEF Renewed
  <2> HIDE DEF r
  <2> QED
    BY <1>2, <1>3, <1>4, <2>2, <2>3, RenewGoesOn, NoCallOK
<1>7. CASE RenewFails(w)
  <2> DEFINE r == [worker[w] EXCEPT !.misses = @ + 1]
  <2>1. same(r)
    BY DEF WorkerRecord
  <2>2. \/ Resume(w, "renew", Cancelled(r), NoCall)
        \/ Resume(w, "renew", Asleep(r), NoCall)
    BY <1>7 DEF RenewFails
  <2> HIDE DEF r
  <2> QED
    BY <1>2, <1>3, <2>1, <2>2, RenewGoesOn, NoCallOK
<1> QED
  BY <1>5, <1>6, <1>7 DEF RenewNext

-----------------------------------------------------------------------------
(* The API's side *)

\* An answer: the call stays what it is, and what was committed stays so.
LEMMA AnswerOK ==
    ASSUME Types, Local, Truthful, [Next]_vars,
           NEW w \in Worker, NEW k \in Task, line[w][k] # NoCall,
           NEW d, CallOK(d), d.kind = line[w][k].kind, d.body = line[w][k].body,
           d.kind # "claim" => /\ d.job = line[w][k].job
                               /\ d.token = line[w][k].token,
           line' = [line EXCEPT ![w][k] = d], UNCHANGED <<worker, late, faults, acked>>,
           Granted(d) => /\ d.body # "invalid"
                         /\ d.body = "result" => Committed(d.job, d.token)'
    PROVE  Local' /\ Truthful'
<1> USE DEF Local
<1>1. d \in CallRecord
  BY DEF CallOK
<1>2. line' \in [Worker -> [Task -> CallRecord]]
  BY <1>1
<1>3. \A v \in Worker, i \in Task :
         line'[v][i] = IF v = w /\ i = k THEN d ELSE line[v][i]
  OBVIOUS
<1>4. ASSUME NEW v \in Worker PROVE LocalOK(worker[v], line'[v])
  <2>1. WorkerOK(worker[v]) /\ \A i \in Task : CallOK(line'[v][i])
    BY <1>3, WorkerFacts
  <2>2. AwaitOK(worker[v], line'[v]["execute"])
    <3>1. CASE line'[v]["execute"] = line[v]["execute"]
      BY <3>1, WorkerFacts
    <3>2. CASE v = w /\ k = "execute" /\ line'[v]["execute"] = d
      <4>1. "claiming" \notin Reporting
        BY DEF Reporting
      <4> QED
        BY <3>2, <4>1, WorkerFacts DEF AwaitOK
    <3> QED
      BY <1>3, <3>1, <3>2, WorkerFacts
  <2> QED
    BY <2>1, <2>2 DEF LocalOK
<1>5. Local'
  BY <1>2, <1>4
<1>6. \A i, n : Committed(i, n) => Committed(i, n)'
  BY CommittedLasts
<1>7. Truthful'
  BY <1>3, <1>6 DEF Truthful
<1> QED
  BY <1>5, <1>7

LEMMA ServeOK ==
    ASSUME Types, Local, Truthful, NEW w \in Worker, NEW k \in Task, Serve(w, k)
    PROVE  [Next]_vars /\ Local' /\ Truthful'
<1>1. PICK c : c = line[w][k]
  OBVIOUS
<1>2. PICK answer \in {"ok", "empty", "fenced", "refused"}, j \in Job \cup {NoJob} :
         /\ Handle(c, answer, j)
         /\ line' = [line EXCEPT ![w][k] =
                        [c EXCEPT !.answer = answer, !.job = j,
                                  !.token = IF c.kind = "claim" /\ j # NoJob
                                            THEN job'[j].token ELSE @]]
  BY <1>1 DEF Serve
<1>3. PICK d : d = [c EXCEPT !.answer = answer, !.job = j,
                             !.token = IF c.kind = "claim" /\ j # NoJob
                                       THEN job'[j].token ELSE @]
  OBVIOUS
<1>4. CallOK(c) /\ c \in CallRecord /\ c # NoCall
  BY <1>1, WorkerFacts DEF Serve, NoCall
<1>5. /\ [Next]_vars
      /\ c.kind \in {"claim", "heartbeat", "complete"}
      /\ c.kind = "claim" => (answer = "ok" \/ j # NoJob => j \in Job)
      /\ c.kind # "claim" => j = c.job /\ j \in Job
      /\ c.kind = "complete" /\ answer = "ok" =>
           /\ c.body # "invalid"
           /\ c.body = "result" => Committed(c.job, c.token)'
  BY <1>2, <1>4, HandleIsStep
<1>6. j \in Job => job'[j].token \in 0 .. MaxAttempts
  BY <1>5, StepTypes DEF Types, TypeOK, JobRecord
<1>7. d \in CallRecord
  BY <1>3, <1>4, <1>5, <1>6 DEF CallRecord
<1>8. /\ d.kind = c.kind /\ d.body = c.body /\ d.answer = answer /\ d.job = j
      /\ c.kind # "claim" => d.token = c.token
  BY <1>3, <1>4 DEF CallRecord
<1>9. CallOK(d)
  BY <1>5, <1>7, <1>8 DEF CallOK
<1>10. Granted(d) => /\ d.body # "invalid"
                     /\ d.body = "result" => Committed(d.job, d.token)'
  BY <1>5, <1>8 DEF Granted
<1>11. line' = [line EXCEPT ![w][k] = d] /\ UNCHANGED <<worker, late, faults, acked>>
  BY <1>2, <1>3 DEF Serve
<1> QED
  BY <1>1, <1>4, <1>5, <1>8, <1>9, <1>10, <1>11, AnswerOK

LEMMA ServeAudioOK ==
    ASSUME Types, Local, Truthful, NEW w \in Worker, ServeAudio(w)
    PROVE  [Next]_vars /\ Local' /\ Truthful'
<1> DEFINE c == line[w]["execute"]
<1>1. /\ c.kind = "audio" /\ CallOK(c) /\ c \in CallRecord /\ c.job \in Job
      /\ c # NoCall /\ UNCHANGED <<vars, worker, late, faults, acked>>
  BY WorkerFacts, NoCallOK DEF ServeAudio, CallOK
<1>2. job[c.job].upload \in Upload \cup {NoUpload}
  BY <1>1 DEF Types, TypeOK, JobRecord
<1>3. \E d : /\ line' = [line EXCEPT ![w]["execute"] = d] /\ d \in CallRecord
             /\ d.kind = "audio" /\ d.body = c.body /\ d.job = c.job
             /\ d.token = c.token
  <2> DEFINE checked == [c EXCEPT !.answer = "checked", !.upload = job[c.job].upload]
             said(a) == [c EXCEPT !.answer = a]
  <2>1. /\ checked \in CallRecord /\ checked.kind = "audio" /\ checked.body = c.body
        /\ checked.job = c.job /\ checked.token = c.token
    BY <1>1, <1>2 DEF CallRecord
  <2>2. \A a \in {"fenced", "ok"} :
           /\ said(a) \in CallRecord /\ said(a).kind = "audio"
           /\ said(a).body = c.body /\ said(a).job = c.job
           /\ said(a).token = c.token
    BY <1>1 DEF CallRecord
  <2>3. \/ line' = [line EXCEPT ![w]["execute"] = checked]
        \/ \E a \in {"fenced", "ok"} : line' = [line EXCEPT ![w]["execute"] = said(a)]
    BY WorkerFacts DEF ServeAudio, Local
  <2> HIDE DEF checked, said
  <2> QED
    BY <2>1, <2>2, <2>3
<1>4. PICK d : /\ line' = [line EXCEPT ![w]["execute"] = d] /\ d \in CallRecord
               /\ d.kind = "audio" /\ d.body = c.body /\ d.job = c.job
               /\ d.token = c.token
  BY <1>3
<1>5. CallOK(d) /\ ~Granted(d)
  BY <1>1, <1>4 DEF CallOK, Granted
<1> QED
  BY <1>1, <1>4, <1>5, AnswerOK, WorkerFacts

\* The queue moves, and no worker notices.
LEMMA OwnUnchanged ==
    ASSUME Types, Local, Truthful, [Next]_vars, UNCHANGED <<worker, line, acked>>,
           late' \subseteq late, faults' \in Nat
    PROVE  Local' /\ Truthful'
<1>1. \A j, k : Committed(j, k) => Committed(j, k)'
  BY CommittedLasts
<1>2. IsFiniteSet(late')
  BY FS_Subset DEF Local
<1>3. Local'
  BY <1>2 DEF Local
<1> QED
  BY <1>1, <1>3 DEF Truthful

LEMMA ServeLateOK ==
    ASSUME Types, Local, Truthful, NEW c \in late, ServeLate(c)
    PROVE  [Next]_vars /\ Local' /\ Truthful'
<1>1. CallOK(c)
  BY DEF Local
<1>2. PICK answer \in {"ok", "empty", "fenced", "refused"}, j \in Job \cup {NoJob} :
         Handle(c, answer, j)
  BY DEF ServeLate
<1>3. [Next]_vars
  BY <1>1, <1>2, HandleIsStep
<1> QED
  BY <1>3, OwnUnchanged DEF ServeLate, Local

LEMMA ApiNextOK ==
    ASSUME Types, Local, Truthful, ApiNext
    PROVE  [Next]_vars /\ Local' /\ Truthful'
<1>1. Next
  BY DEF ApiNext, Next
<1> QED
  BY <1>1, OwnUnchanged DEF ApiNext, own, Local

LEMMA TimePassesOK ==
    ASSUME Types, Local, Truthful, TimePasses
    PROVE  [Next]_vars /\ Local' /\ Truthful'
<1> DEFINE timedOut == {p \in Worker \X Task :
                           /\ line[p[1]][p[2]] # NoCall
                           /\ clock + 1 >= line[p[1]][p[2]].sent + Timeout}
<1>1. faults' = faults + Cardinality(timedOut)
  BY DEF TimePasses
<1>2. IsFiniteSet(Worker) /\ IsFiniteSet(Task)
  <2>1. IsFiniteSet({"execute"}) /\ Task = {"execute"} \cup {"renew"}
    BY FS_Singleton DEF Task
  <2> QED
    BY <2>1, WorkersAssumption, FS_AddElement
<1>3. IsFiniteSet(timedOut)
  BY <1>2, FS_Product, FS_Subset
<1>4. Cardinality(timedOut) \in Nat
  BY <1>3, FS_CardinalityType
<1>5. faults' \in Nat
  BY <1>1, <1>4 DEF Local
<1>6. Tick /\ UNCHANGED <<worker, line, late, acked>>
  BY DEF TimePasses
<1> QED
  BY <1>5, <1>6, OwnUnchanged DEF Next

-----------------------------------------------------------------------------
(* The theorems *)

LEMMA InitLocal == WorkersInit => Local /\ Truthful
<1> SUFFICES ASSUME WorkersInit PROVE Local /\ Truthful
  OBVIOUS
<1>1. \A w \in Worker : LocalOK(worker[w], line[w])
  BY NoCallOK, IdleOK DEF WorkersInit, LocalOK, Task
<1>2. Idle \in WorkerRecord /\ NoCall \in CallRecord
  BY NoCallOK, IdleOK DEF WorkerOK, CallOK
<1>3. Local
  BY <1>1, <1>2, FS_EmptySet DEF WorkersInit, Local
<1>4. \A w \in Worker, k \in Task : ~Granted(line[w][k])
  BY NoCallOK DEF WorkersInit
<1> QED
  BY <1>3, <1>4 DEF WorkersInit, Truthful

\* Every step of the composition is a step of the queue or leaves it alone.
LEMMA StepLocal ==
    ASSUME Types, Local, Truthful, [WorkersNext]_workersVars
    PROVE  [Next]_vars /\ Local' /\ Truthful'
<1>1. ASSUME NEW w \in Worker, ExecuteNext(w)
      PROVE  UNCHANGED vars /\ Local' /\ Truthful'
  <2>1. UNCHANGED vars
    BY <1>1 DEF ExecuteNext, Poll, PollAgain, Begin, Fetched, Receive, Infer,
                Interrupted, Inferred, Post, Posted, PostFails
  <2> QED
    BY <1>1, <2>1, PollOK, BeginOK, FetchOK, InferOK, PostOK, PostedOK, PostFailsOK
       DEF ExecuteNext
<1>2. ASSUME NEW w \in Worker, RenewNext(w)
      PROVE  UNCHANGED vars /\ Local' /\ Truthful'
  BY <1>2, RenewOK DEF RenewNext, Wake, Renewed, RenewFails
<1>3. ASSUME NEW w \in Worker, FaultNext(w)
      PROVE  UNCHANGED vars /\ Local' /\ Truthful'
  BY <1>3, InferOK, DieOK DEF FaultNext, Stick, Stop, Die, Probe
<1>4. CASE UNCHANGED workersVars
  <2>1. UNCHANGED vars /\ UNCHANGED <<worker, line, late, faults, acked>>
    BY <1>4 DEF workersVars, own
  <2> QED
    BY <2>1, OwnUnchanged DEF Local
<1> QED
  BY <1>1, <1>2, <1>3, <1>4, ServeOK, ServeAudioOK, ServeLateOK, ApiNextOK,
     TimePassesOK DEF WorkersNext

THEOREM LocalInvariant == WorkersSpec => [](Types /\ Local /\ Truthful)
<1>1. WorkersInit => Types /\ Local /\ Truthful
  BY InitTypes, InitLocal DEF WorkersInit
<1>2. Types /\ Local /\ Truthful /\ [WorkersNext]_workersVars
        => (Types /\ Local /\ Truthful)'
  BY StepLocal, StepTypes
<1> QED
  BY <1>1, <1>2, PTL DEF WorkersSpec

\* The queue as the workers see it, over a network that loses and delays their
\* requests, is a queue: every behaviour with workers is one of Store.
THEOREM WorkersUseStore == WorkersSpec => Spec
<1>1. WorkersInit => Init
  BY DEF WorkersInit
<1>2. Types /\ Local /\ Truthful /\ [WorkersNext]_workersVars => [Next]_vars
  BY StepLocal
<1> QED
  BY <1>1, <1>2, LocalInvariant, PTL DEF WorkersSpec, Spec

\* So what is proved of the queue holds with any number of workers.
THEOREM QueueHoldsWithWorkers ==
    WorkersSpec => [](QuotaExact /\ CountsExact /\ AudioAvailable)
BY WorkersUseStore, QuotaIsExact, CountsAreExact, AudioNeverLost, PTL

\* A report that a worker counts as done was committed, however the network
\* delays, repeats and loses what it sends.
THEOREM AckedWasCommitted == WorkersSpec => []AckedIsCommitted
<1>1. Truthful => AckedIsCommitted
  BY DEF Truthful, Committed, AckedIsCommitted
<1> QED
  BY <1>1, LocalInvariant, PTL

\* Every variable keeps its type: no worker sends a report too often, or with a
\* token that was never issued.
THEOREM WorkersTypeCorrect == WorkersSpec => []WorkersTypeOK
<1>1. Types /\ Local /\ Truthful => WorkersTypeOK
  <2> SUFFICES ASSUME Types, Local, Truthful PROVE WorkersTypeOK
    OBVIOUS
  <2>1. late \subseteq CallRecord
    BY DEF Local, CallOK
  <2>2. acked \subseteq Attempt
    BY DEF Truthful
  <2> QED
    BY <2>1, <2>2 DEF Types, Local, WorkersTypeOK
<1> QED
  BY <1>1, LocalInvariant, PTL
=============================================================================
