---------------------------- MODULE StoreProofs ----------------------------
(***************************************************************************)
(* What holds of Store for every set of identifiers and every limit.       *)
(*                                                                         *)
(* The invariants are proved in layers.  RecordOK speaks of one job record *)
(* alone: it is what the record operators of Store preserve, whichever     *)
(* action applies them.                                                    *)
(***************************************************************************)
EXTENDS Store, FiniteSetTheorems, TLAPS

-----------------------------------------------------------------------------
(* Job records *)

RecordOK(r) ==
    /\ r \in JobRecord
    /\ r.status \in Live => r.upload \in Upload
    /\ r.status = "queued" => r.attempts < MaxAttempts
    /\ r.status = "processing" => r.token = r.attempts /\ r.attempts > 0
    /\ r.status # "processing" => r.token = 0
    /\ r.status = "gone" => r = NoRecord("gone")
    /\ r.status \in Pending => r.cause = "none"
    /\ r.cause = "expired" => r.attempts = MaxAttempts
    /\ r.status = "completed" => r.result = r.attempts
    /\ r.status # "completed" => r.result = 0

RecordsOK == \A j \in Job : RecordOK(job[j])

\* The records before a job exists and after its removal.
LEMMA NoRecordOK ==
    ASSUME NEW s \in {"unborn", "gone"}
    PROVE  RecordOK(NoRecord(s))
<1>1. 0 \in 0 .. MaxAttempts /\ 0 \in Time /\ MaxAttempts # 0
  BY LimitsAssumption, TimesAssumption DEF Time
<1> QED
  BY <1>1 DEF RecordOK, NoRecord, JobRecord, Live, Pending, Finished

\* Submit.
Submitted(u, n, t) ==
    [SetStatus(NoRecord("unborn"), "queued") EXCEPT
        !.upload = u, !.seq = n, !.created = t]

LEMMA SubmittedOK ==
    ASSUME NEW u \in Upload, NEW n \in Nat, NEW t \in Time
    PROVE  RecordOK(Submitted(u, n, t))
<1>1. /\ 0 \in 0 .. MaxAttempts /\ 0 \in Time /\ 0 < MaxAttempts
      /\ MaxAttempts # 0
  BY LimitsAssumption, TimesAssumption DEF Time
<1> QED
  BY <1>1 DEF RecordOK, Submitted, SetStatus, NoRecord, JobRecord, Live,
              Pending, Finished

\* setStatus to "queued", for a job with attempts left.
LEMMA QueuedOK ==
    ASSUME NEW r, RecordOK(r), r.status \in Pending, r.attempts < MaxAttempts
    PROVE  RecordOK(SetStatus(r, "queued"))
BY DEF RecordOK, SetStatus, JobRecord, Live, Pending, Finished

\* fail.
LEMMA FailOK ==
    ASSUME NEW r, RecordOK(r), r.status \in Pending,
           NEW t \in Time,
           NEW c \in {"expired", "aged", "reported"},
           c = "expired" => r.attempts = MaxAttempts
    PROVE  RecordOK(Fail(r, c, t))
BY DEF RecordOK, Fail, SetStatus, JobRecord, Live, Pending, Finished

\* Claim leases a job with attempts left.
LEMMA LeasingOK ==
    ASSUME NEW r, RecordOK(r), r.status \in Pending, r.attempts < MaxAttempts,
           NEW t \in Time
    PROVE  RecordOK(Leasing(r, t))
<1>1. /\ r.attempts + 1 \in 0 .. MaxAttempts /\ r.attempts + 1 > 0
      /\ t + Lease \in Nat
  BY LimitsAssumption, TimesAssumption DEF Time, RecordOK, JobRecord
<1> QED
  BY <1>1 DEF RecordOK, Leasing, SetStatus, JobRecord, Live, Pending, Finished

\* Finish commits a result.
LEMMA CompletedOK ==
    ASSUME NEW r, RecordOK(r), r.status = "processing", NEW t \in Time
    PROVE  RecordOK([SetStatus(r, "completed") EXCEPT
                        !.result = r.token, !.updated = t])
BY DEF RecordOK, SetStatus, JobRecord, Live, Pending, Finished

-----------------------------------------------------------------------------
(* Types *)

\* The moments a method may have read lie between 0 and the clock.
LEMMA RecentPastIsTime ==
    ASSUME clock \in Time, NEW t \in RecentPast
    PROVE  t \in Time /\ t <= clock
BY TimesAssumption DEF RecentPast, Time

LEMMA UnlinkType ==
    ASSUME file \in [Upload -> Time \cup {Absent}], NEW S, Unlink(S)
    PROVE  file' \in [Upload -> Time \cup {Absent}]
BY DEF Unlink

LEMMA ChargedBytesNat ==
    ASSUME NEW S, S \subseteq Upload \cup {NoUpload}
    PROVE  ChargedBytes(S) \in Nat
<1>1. IsFiniteSet(Upload \cup {NoUpload})
  BY IdentifiersAssumption, FS_AddElement
<1>2. IsFiniteSet(S) /\ IsFiniteSet(1 .. MaxUploadBytes)
  BY <1>1, FS_Subset, FS_Interval, LimitsAssumption
<1>3. IsFiniteSet(S \X (1 .. MaxUploadBytes))
  BY <1>2, FS_Product
<1> DEFINE C == {p \in S \X (1 .. MaxUploadBytes) : p[2] <= upload[p[1]].bytes}
<1>4. IsFiniteSet(C)
  BY <1>3, FS_Subset
<1> QED
  BY <1>4, FS_CardinalityType DEF ChargedBytes

LEMMA ShiftType ==
    ASSUME NEW c \in [Live -> Int], NEW from \in Live, NEW to \in Live,
           NEW n \in Int
    PROVE  Shift(c, from, to, n) \in [Live -> Int]
BY DEF Shift

LEMMA ChargeType ==
    ASSUME NEW n \in 0 .. MaxUploadBytes + 1, Acceptable(n)
    PROVE  Charge(n) \in 1 .. MaxUploadBytes
BY LimitsAssumption DEF Acceptable, Charge, Greatest, Least

Types == TypeOK /\ RecordsOK

LEMMA InitTypes == Init => Types
<1> SUFFICES ASSUME Init PROVE Types
  OBVIOUS
<1>1. RecordsOK
  BY NoRecordOK DEF Init, RecordsOK
<1>2. job \in [Job -> JobRecord]
  BY <1>1 DEF Init, RecordsOK, RecordOK
<1>3. 0 \in Time /\ 0 \in 0 .. MaxUploadBytes /\ 0 \in 0 .. MaxUploadBytes + 1
  BY TimesAssumption, LimitsAssumption DEF Time
<1>4. upload \in [Upload -> UploadRecord]
  BY <1>3 DEF Init, NoEntry, UploadRecord
<1>5. sweep \in SweepRecord
  BY <1>3 DEF Init, NoSweep, SweepRecord
<1> QED
  BY <1>1, <1>2, <1>3, <1>4, <1>5 DEF Init, Types, TypeOK

\* Save, DiscardUpload: no job record changes.
LEMMA SaveTypes ==
    ASSUME Types, NEW u \in Upload, SaveNext(u) \/ DiscardUpload(u)
    PROVE  Types'
<1> USE DEF Types, TypeOK
<1>1. UNCHANGED <<job, clock, seq, counts, sweep>>
  BY DEF SaveNext, SaveBegin, SaveWrite, SaveEOF, SaveDrop, SaveReject,
         SaveCommit, DiscardUpload
<1>2. RecordsOK'
  BY <1>1 DEF RecordsOK
<1>3. 0 \in Time /\ 0 \in 0 .. MaxUploadBytes /\ 0 \in 0 .. MaxUploadBytes + 1
  BY TimesAssumption, LimitsAssumption DEF Time
<1>4. NoEntry("gone") \in UploadRecord /\ NoEntry("reserved") \in UploadRecord
  BY <1>3 DEF NoEntry, UploadRecord, Saving
<1>5. upload[u] \in UploadRecord
  OBVIOUS
<1>6. upload' \in [Upload -> UploadRecord] /\ used' \in Int
      /\ file' \in [Upload -> Time \cup {Absent}]
  <2>1. CASE SaveBegin(u)
    BY <2>1, <1>4, LimitsAssumption DEF SaveBegin, UploadRecord
  <2>2. CASE SaveWrite(u)
    BY <2>2, <1>5 DEF SaveWrite, UploadRecord, Saving
  <2>3. CASE \E n \in Size : SaveEOF(u, n)
    <3>1. PICK n \in Size : SaveEOF(u, n)
      BY <2>3
    <3>2. n \in 0 .. MaxUploadBytes + 1
      BY LimitsAssumption
    <3>3. [upload[u] EXCEPT !.state = "written", !.size = n] \in UploadRecord
      BY <1>5, <3>2 DEF UploadRecord, Saving
    <3> QED
      BY <3>1, <3>3 DEF SaveEOF
  <2>4. CASE SaveDrop(u)
    BY <2>4, <1>5, UnlinkType DEF SaveDrop, UploadRecord, Saving
  <2>5. CASE SaveReject(u)
    BY <2>5, <1>4, LimitsAssumption DEF SaveReject
  <2>6. CASE SaveCommit(u)
    <3>1. Charge(upload[u].size) \in 1 .. MaxUploadBytes
      BY <2>6, <1>5, ChargeType DEF SaveCommit, UploadRecord
    <3>2. Charge(upload[u].size) \in 0 .. MaxUploadBytes /\ MaxUploadBytes \in Int
      BY <3>1, LimitsAssumption
    <3>3. used' \in Int /\ file' = file
      BY <2>6, <3>2 DEF SaveCommit
    <3>4. [upload[u] EXCEPT !.state = "stored", !.bytes = Charge(upload[u].size),
                            !.created = clock] \in UploadRecord
      BY <1>5, <3>2 DEF UploadRecord
    <3> QED
      BY <2>6, <3>3, <3>4 DEF SaveCommit
  <2>7. CASE DiscardUpload(u)
    BY <2>7, <1>4, <1>5, UnlinkType DEF DiscardUpload, UploadRecord
  <2> QED
    BY <2>1, <2>2, <2>3, <2>4, <2>5, <2>6, <2>7 DEF SaveNext
<1> QED
  BY <1>1, <1>2, <1>6

LEMMA SubmitTypes ==
    ASSUME Types, NEW u \in Upload, NEW j \in Job, NEW t \in RecentPast,
           Submit(u, j, t)
    PROVE  Types'
<1> USE DEF Types, TypeOK
<1>1. t \in Time
  BY RecentPastIsTime
<1>2. job' = [job EXCEPT ![j] = Submitted(u, seq + 1, t)]
  BY DEF Submit, Submitted
<1>3. RecordOK(Submitted(u, seq + 1, t))
  BY <1>1, SubmittedOK
<1>4. RecordsOK' /\ job' \in [Job -> JobRecord]
  BY <1>2, <1>3 DEF RecordsOK, RecordOK
<1>5. [upload[u] EXCEPT !.job = j] \in UploadRecord
  BY DEF UploadRecord
<1>6. upload' \in [Upload -> UploadRecord]
  BY <1>5 DEF Submit
<1>7. counts' \in [Live -> Int]
  BY DEF Submit, Live, Pending
<1> QED
  BY <1>1, <1>4, <1>6, <1>7 DEF Submit

LEMMA DeleteTypes ==
    ASSUME Types, NEW j \in Job, Delete(j)
    PROVE  Types'
<1> USE DEF Types, TypeOK
<1>1. RecordsOK' /\ job' \in [Job -> JobRecord]
  BY NoRecordOK DEF Delete, RecordsOK, RecordOK
<1>2. 0 \in Time /\ 0 \in 0 .. MaxUploadBytes /\ 0 \in 0 .. MaxUploadBytes + 1
  BY TimesAssumption, LimitsAssumption DEF Time
<1>3. NoEntry("gone") \in UploadRecord
  BY <1>2 DEF NoEntry, UploadRecord
<1>4. job[j].upload \in Upload
  BY DEF Delete, RecordsOK, RecordOK
<1>5. upload[job[j].upload].bytes \in Int
  BY <1>4, LimitsAssumption DEF UploadRecord
<1>6. counts' \in [Live -> Int]
  BY DEF Delete
<1>7. used' \in Int
  BY <1>5 DEF Delete
<1>8. upload' \in [Upload -> UploadRecord]
  BY <1>3 DEF Delete
<1> QED
  BY <1>1, <1>6, <1>7, <1>8, UnlinkType DEF Delete

\* The jobs Claim looks at, and the uploads it may release.
LEMMA ClaimSets ==
    ASSUME Types, NEW t
    PROVE  /\ Exhausted(t) \subseteq Lapsed(t) /\ Lapsed(t) \subseteq Job
           /\ \A j \in Lapsed(t) : job[j].status = "processing"
           /\ \A j \in Exhausted(t) : job[j].attempts = MaxAttempts
           /\ \A j \in Lapsed(t) \ Exhausted(t) : job[j].attempts < MaxAttempts
           /\ \A j \in Waiting(t) : /\ j \in Job /\ job[j].status \in Pending
                                    /\ job[j].attempts < MaxAttempts
                                    /\ j \notin Exhausted(t)
           /\ {job[j].upload : j \in Exhausted(t)} \subseteq Upload
<1>1. \A j \in Job : RecordOK(job[j])
  BY DEF Types, RecordsOK
<1>2. \A j \in Job : /\ job[j].attempts \in 0 .. MaxAttempts
                     /\ job[j].status \in Live => job[j].upload \in Upload
                     /\ job[j].status = "queued" => job[j].attempts < MaxAttempts
  BY <1>1 DEF RecordOK, JobRecord
<1> QED
  BY <1>2, LimitsAssumption
     DEF Exhausted, Lapsed, Waiting, Pending, Live

LEMMA ClaimTypes ==
    ASSUME Types, NEW t \in RecentPast, Claim(t)
    PROVE  Types'
<1>1. PICK next \in Job \cup {NoJob} :
         ClaimWith(next, t) /\ (next # NoJob => next \in Waiting(t))
  BY ClaimSets DEF Claim, Oldest
<1> USE DEF Types, TypeOK
<1>2. t \in Time
  BY RecentPastIsTime
<1> DEFINE released == {job[j].upload : j \in Exhausted(t)}
<1>3. \A j \in Job : RecordOK(job'[j])
  <2> SUFFICES ASSUME NEW j \in Job PROVE RecordOK(job'[j])
    OBVIOUS
  <2>0. RecordOK(job[j])
    BY DEF RecordsOK
  <2>1. CASE j = next
    <3>1. job'[j] = Leasing(job[j], t)
      BY <1>1, <2>1 DEF ClaimWith
    <3>2. j \in Waiting(t)
      BY <1>1, <2>1, IdentifiersAssumption
    <3> QED
      BY <1>2, <2>0, <3>1, <3>2, ClaimSets, LeasingOK
  <2>2. CASE j # next /\ j \in Exhausted(t)
    <3>1. job'[j] = Fail(job[j], "expired", t)
      BY <1>1, <2>2 DEF ClaimWith
    <3> QED
      BY <1>2, <2>0, <2>2, <3>1, ClaimSets, FailOK DEF Pending
  <2>3. CASE j # next /\ j \in Lapsed(t) \ Exhausted(t)
    <3>1. job'[j] = SetStatus(job[j], "queued")
      BY <1>1, <2>3 DEF ClaimWith
    <3> QED
      BY <2>0, <2>3, <3>1, ClaimSets, QueuedOK DEF Pending
  <2>4. CASE j # next /\ j \notin Lapsed(t)
    <3>1. job'[j] = job[j]
      BY <1>1, <2>4 DEF ClaimWith, Exhausted
    <3> QED
      BY <2>0, <3>1
  <2> QED
    BY <2>1, <2>2, <2>3, <2>4
<1>4. job' \in [Job -> JobRecord]
  BY <1>1, <1>3 DEF ClaimWith, RecordOK
<1>5. IsFiniteSet(Exhausted(t)) /\ IsFiniteSet(Lapsed(t) \ Exhausted(t))
  BY ClaimSets, IdentifiersAssumption, FS_Subset, FS_Difference
<1>6. /\ Cardinality(Exhausted(t)) \in Int
      /\ Cardinality(Lapsed(t) \ Exhausted(t)) \in Int
  BY <1>5, FS_CardinalityType
<1>7. counts' \in [Live -> Int]
  <2>1. {"queued", "processing", "error"} \subseteq Live /\ 1 \in Int
    BY DEF Live, Pending, Finished
  <2> QED
    BY <1>1, <1>6, <2>1, ShiftType DEF ClaimWith
<1>8. used' \in Int
  BY <1>1, ClaimSets, ChargedBytesNat DEF ClaimWith
<1>9. upload' \in [Upload -> UploadRecord]
  <2>1. \A u \in Upload : [upload[u] EXCEPT !.bytes = 0] \in UploadRecord
    BY LimitsAssumption DEF UploadRecord
  <2> QED
    BY <1>1, <2>1 DEF ClaimWith
<1> QED
  BY <1>1, <1>3, <1>4, <1>7, <1>8, <1>9, UnlinkType DEF ClaimWith, RecordsOK

\* release at the end of an attempt, given the record the job ends with.
LEMMA SettleTypes ==
    ASSUME Types, NEW j \in Job, job[j].status = "processing",
           NEW r, RecordOK(r), r.status \in Finished, Settle(j, r)
    PROVE  Types'
<1> USE DEF Types, TypeOK
<1>1. RecordsOK' /\ job' \in [Job -> JobRecord]
  BY DEF Settle, RecordsOK, RecordOK
<1>2. job[j].upload \in Upload
  BY DEF RecordsOK, RecordOK, Live, Pending
<1>3. upload[job[j].upload] \in UploadRecord
  BY <1>2
<1>4. /\ upload[job[j].upload].bytes \in Int
      /\ [upload[job[j].upload] EXCEPT !.bytes = 0] \in UploadRecord
  BY <1>3, LimitsAssumption DEF UploadRecord
<1>5. used' \in Int /\ upload' \in [Upload -> UploadRecord]
  <2> DEFINE u == job[j].upload
  <2>1. used' = used - upload[u].bytes /\ used \in Int
    BY DEF Settle
  <2>2. upload' = [upload EXCEPT ![u] = [upload[u] EXCEPT !.bytes = 0]]
    BY DEF Settle
  <2>3. upload \in [Upload -> UploadRecord]
    OBVIOUS
  <2>4. u \in Upload /\ upload[u].bytes \in Int
        /\ [upload[u] EXCEPT !.bytes = 0] \in UploadRecord
    BY <1>2, <1>4
  <2> HIDE DEF Types, TypeOK, u
  <2>5. used' \in Int
    BY <2>1, <2>4
  <2>6. upload' \in [Upload -> UploadRecord]
    BY <2>2, <2>3, <2>4
  <2> QED
    BY <2>5, <2>6
<1>6. {"processing", r.status} \subseteq Live /\ 1 \in Int
  BY DEF Live, Pending
<1>7. counts' \in [Live -> Int]
  BY <1>6, ShiftType DEF Settle
<1> QED
  BY <1>1, <1>5, <1>7, UnlinkType DEF Settle

LEMMA WorkerTypes ==
    ASSUME Types, NEW j \in Job, NEW k \in Issued(j), NEW t \in RecentPast,
           WorkerNext(j, k, t)
    PROVE  Types'
<1> USE DEF Types
<1>1. t \in Time
  BY RecentPastIsTime DEF TypeOK
<1>2. RecordOK(job[j])
  BY DEF RecordsOK
<1>3. job[j].status = "processing" /\ job[j].token = k
  BY DEF WorkerNext, Heartbeat, FinishResult, FinishRetry, FinishError, Leased
<1>4. CASE Heartbeat(j, k, t)
  <2>1. t + Lease \in Nat
    BY <1>1, TimesAssumption DEF Time
  <2>2. RecordOK([job[j] EXCEPT !.lease = t + Lease])
    BY <1>2, <1>3, <2>1 DEF RecordOK, JobRecord
  <2>3. RecordsOK' /\ job' \in [Job -> JobRecord]
    BY <1>4, <2>2 DEF Heartbeat, TypeOK, RecordsOK, RecordOK
  <2> QED
    BY <1>4, <2>3 DEF Heartbeat, TypeOK
<1>5. CASE FinishResult(j, k, t)
  <2> DEFINE r == [SetStatus(job[j], "completed") EXCEPT
                      !.result = k, !.updated = t]
  <2>1. RecordOK(r)
    BY <1>1, <1>2, <1>3, CompletedOK
  <2>2. r.status \in Finished
    BY <1>2 DEF RecordOK, JobRecord, SetStatus, Finished
  <2> QED
    BY <1>3, <1>5, <2>1, <2>2, SettleTypes DEF FinishResult
<1>6. CASE FinishRetry(j, k, t)
  <2>1. RecordOK(SetStatus(job[j], "queued"))
    BY <1>2, <1>3, <1>6, QueuedOK DEF FinishRetry, RetriesLeft, Pending
  <2>2. RecordsOK' /\ job' \in [Job -> JobRecord]
    BY <1>6, <2>1 DEF FinishRetry, TypeOK, RecordsOK, RecordOK
  <2>3. {"processing", "queued"} \subseteq Live /\ 1 \in Int
    BY DEF Live, Pending
  <2>4. counts' \in [Live -> Int]
    BY <1>6, <2>3, ShiftType DEF FinishRetry, TypeOK
  <2> QED
    BY <1>6, <2>2, <2>4 DEF FinishRetry, TypeOK
<1>7. CASE \E retry \in BOOLEAN : FinishError(j, k, t, retry)
  <2> DEFINE r == Fail(job[j], "reported", t)
  <2>1. RecordOK(r)
    BY <1>1, <1>2, <1>3, FailOK DEF Pending
  <2>2. r.status \in Finished
    BY <1>2 DEF RecordOK, JobRecord, Fail, SetStatus, Finished
  <2> QED
    BY <1>3, <1>7, <2>1, <2>2, SettleTypes DEF FinishError
<1> QED
  BY <1>4, <1>5, <1>6, <1>7 DEF WorkerNext

LEMMA CleanupLockedTypes ==
    ASSUME Types, NEW t \in RecentPast, CleanupLocked(t)
    PROVE  Types'
<1> DEFINE old == Outdated(t, "completed") \cup Outdated(t, "error")
           released == {job[j].upload : j \in Aged(t)}
           removed == {job[j].upload : j \in old} \cup Abandoned(t)
<1>1. t \in Time
  BY RecentPastIsTime DEF Types, TypeOK
<1>2. \A j \in Job : RecordOK(job[j])
  BY DEF Types, RecordsOK
<1>3. /\ Aged(t) \subseteq Job /\ \A j \in Aged(t) : job[j].status \in Pending
      /\ old \subseteq Job /\ \A j \in old : job[j].status \in Finished
  BY DEF Aged, Outdated, Finished
<1>4. released \subseteq Upload /\ removed \subseteq Upload
  BY <1>2, <1>3 DEF RecordOK, Live, Abandoned
<1>5. \A j \in Job : RecordOK(job'[j])
  <2> SUFFICES ASSUME NEW j \in Job PROVE RecordOK(job'[j])
    OBVIOUS
  <2>1. CASE j \in Aged(t)
    <3>1. job'[j] = Fail(job[j], "aged", t)
      BY <2>1 DEF CleanupLocked
    <3> QED
      BY <1>1, <1>2, <1>3, <2>1, <3>1, FailOK
  <2>2. CASE j \notin Aged(t) /\ j \in old
    <3>1. job'[j] = NoRecord("gone")
      BY <2>2 DEF CleanupLocked
    <3> QED
      BY <3>1, NoRecordOK
  <2>3. CASE j \notin Aged(t) /\ j \notin old
    <3>1. job'[j] = job[j]
      BY <2>3 DEF CleanupLocked
    <3> QED
      BY <1>2, <3>1
  <2> QED
    BY <2>1, <2>2, <2>3
<1>6. job' \in [Job -> JobRecord]
  BY <1>5 DEF CleanupLocked, RecordOK
<1>7. counts' \in [Live -> Int]
  <2> DEFINE leaving(s) == {j \in Aged(t) \cup old : job[j].status = s}
  <2>1. IsFiniteSet(Aged(t)) /\ \A s \in Live : IsFiniteSet(leaving(s))
    BY <1>3, IdentifiersAssumption, FS_Subset
  <2>2. /\ Cardinality(Aged(t)) \in Int
        /\ \A s \in Live : Cardinality(leaving(s)) \in Int
    BY <2>1, FS_CardinalityType
  <2>3. counts' = [s \in Live |->
                     counts[s] - Cardinality(leaving(s))
                     + IF s = "error" THEN Cardinality(Aged(t)) ELSE 0]
    BY DEF CleanupLocked
  <2>4. \A s \in Live : counts[s] \in Int
    BY DEF Types, TypeOK
  <2> HIDE DEF leaving
  <2> QED
    BY <2>2, <2>3, <2>4
<1>8. used' \in Int
  <2>1. released \cup removed \subseteq Upload \cup {NoUpload}
    BY <1>4
  <2> HIDE DEF released, removed
  <2>2. ChargedBytes(released \cup removed) \in Int
    BY <2>1, ChargedBytesNat
  <2>3. used' = used - ChargedBytes(released \cup removed)
    BY DEF CleanupLocked, released, removed
  <2> QED
    BY <2>2, <2>3 DEF Types, TypeOK
<1>9. upload' \in [Upload -> UploadRecord]
  <2>1. 0 \in Time /\ 0 \in 0 .. MaxUploadBytes /\ 0 \in 0 .. MaxUploadBytes + 1
    BY TimesAssumption, LimitsAssumption DEF Time
  <2>2. NoEntry("gone") \in UploadRecord
    BY <2>1 DEF NoEntry, UploadRecord
  <2>3. upload \in [Upload -> UploadRecord]
    BY DEF Types, TypeOK
  <2>4. \A u \in Upload : [upload[u] EXCEPT !.bytes = 0] \in UploadRecord
    BY <2>1, <2>3 DEF UploadRecord
  <2> HIDE DEF released, removed
  <2> QED
    BY <2>2, <2>3, <2>4 DEF CleanupLocked, released, removed
<1>10. sweep' \in SweepRecord /\ UNCHANGED <<seq, clock>>
  BY <1>1 DEF CleanupLocked, NoSweep, SweepRecord, Known
<1>11. file' \in [Upload -> Time \cup {Absent}]
  BY UnlinkType DEF CleanupLocked, Types, TypeOK
<1> QED
  BY <1>5, <1>6, <1>7, <1>8, <1>9, <1>10, <1>11
     DEF Types, TypeOK, RecordsOK

LEMMA SweepTypes ==
    ASSUME Types, SweepNext
    PROVE  Types'
<1> USE DEF Types, TypeOK
<1>1. UNCHANGED <<job, upload, counts, used, seq, clock>>
  BY DEF SweepNext, CleanupList, CleanupEntry, CleanupRemove, CleanupReturn
<1>2. sweep' \in SweepRecord
  <2>1. NoSweep \in SweepRecord
    BY TimesAssumption DEF NoSweep, SweepRecord, Time
  <2>2. CASE CleanupList
    BY <2>1, <2>2 DEF CleanupList, SweepRecord
  <2>3. CASE \E u \in Upload : CleanupEntry(u)
    BY <2>3, ZenonT(40) DEF CleanupEntry, SweepRecord
  <2>4. CASE CleanupRemove
    BY <2>4 DEF CleanupRemove, SweepRecord
  <2>5. CASE CleanupReturn
    BY <2>1, <2>5 DEF CleanupReturn
  <2> QED
    BY <2>2, <2>3, <2>4, <2>5 DEF SweepNext
<1>3. file' \in [Upload -> Time \cup {Absent}]
  BY UnlinkType DEF SweepNext, CleanupList, CleanupEntry, CleanupRemove,
                    CleanupReturn
<1> QED
  BY <1>1, <1>2, <1>3 DEF RecordsOK

LEMMA NewTypes ==
    ASSUME Types, New
    PROVE  Types'
<1> USE DEF Types, TypeOK
<1>1. 0 \in Time /\ 0 \in 0 .. MaxUploadBytes /\ 0 \in 0 .. MaxUploadBytes + 1
  BY TimesAssumption, LimitsAssumption DEF Time
<1>2. \A j \in Job : RecordOK(job'[j])
  BY NoRecordOK DEF New, RecordsOK
<1>3. job' \in [Job -> JobRecord]
  BY <1>2 DEF New, RecordOK
<1>4. NoEntry("gone") \in UploadRecord
  BY <1>1 DEF NoEntry, UploadRecord
<1>5. sweep' \in SweepRecord
  BY <1>1 DEF New, NoSweep, SweepRecord
<1> QED
  BY <1>2, <1>3, <1>4, <1>5 DEF New, RecordsOK

LEMMA StepTypes ==
    ASSUME Types, [Next]_vars
    PROVE  Types'
<1>1. CASE \E u \in Upload : SaveNext(u) \/ DiscardUpload(u)
  BY <1>1, SaveTypes
<1>2. CASE \E j \in Job : Delete(j)
  BY <1>2, DeleteTypes
<1>3. CASE \E u \in Upload, j \in Job, t \in RecentPast : Submit(u, j, t)
  BY <1>3, SubmitTypes
<1>4. CASE \E t \in RecentPast : Claim(t)
  BY <1>4, ClaimTypes
<1>5. CASE \E j \in Job : \E k \in Issued(j), t \in RecentPast :
             WorkerNext(j, k, t)
  BY <1>5, WorkerTypes
<1>6. CASE \E t \in RecentPast : CleanupLocked(t)
  BY <1>6, CleanupLockedTypes
<1>7. CASE SweepNext
  BY <1>7, SweepTypes
<1>8. CASE New
  BY <1>8, NewTypes
<1>9. CASE Tick
  BY <1>9, TimesAssumption DEF Tick, Types, TypeOK, RecordsOK, Time
<1>10. CASE UNCHANGED vars
  BY <1>10 DEF vars, Types, TypeOK, RecordsOK
<1> QED
  BY <1>1, <1>2, <1>3, <1>4, <1>5, <1>6, <1>7, <1>8, <1>9, <1>10 DEF Next

THEOREM TypesInvariant == Spec => []Types
<1>1. Init => Types
  BY InitTypes
<1>2. Types /\ [Next]_vars => Types'
  BY StepTypes
<1> QED
  BY <1>1, <1>2, PTL DEF Spec

\* Every variable keeps its type, for every set of identifiers and every limit.
THEOREM TypeCorrect == Spec => []TypeOK
<1>1. Types => TypeOK
  BY DEF Types
<1> QED
  BY <1>1, TypesInvariant, PTL

\* A job waits only with an attempt left, fails by expiry only after its last
\* attempt, and only its latest attempt holds its lease.
THEOREM AttemptsAreBounded == Spec => []AttemptsBounded
<1>1. Types => AttemptsBounded
  BY DEF Types, RecordsOK, RecordOK, AttemptsBounded
<1> QED
  BY <1>1, TypesInvariant, PTL

\* Only the attempt that holds a job's lease ever completes it.
THEOREM CommitsAreFenced == Spec => []FencedCommit
<1>1. Types => FencedCommit
  BY DEF Types, RecordsOK, RecordOK, FencedCommit
<1> QED
  BY <1>1, TypesInvariant, PTL

-----------------------------------------------------------------------------
(* What a step does to one job *)

\* What the record operators leave of a record.
LEMMA RecordFields ==
    ASSUME NEW r \in JobRecord, NEW s, NEW c, NEW t
    PROVE  /\ SetStatus(r, s).status = s
           /\ SetStatus(r, s).upload = r.upload
           /\ SetStatus(r, s).seq = r.seq
           /\ SetStatus(r, s).attempts = r.attempts
           /\ Fail(r, c, t).status = "error"
           /\ Fail(r, c, t).upload = r.upload
           /\ Fail(r, c, t).seq = r.seq
           /\ Fail(r, c, t).attempts = r.attempts
           /\ Leasing(r, t).status = "processing"
           /\ Leasing(r, t).upload = r.upload
           /\ Leasing(r, t).seq = r.seq
BY DEF JobRecord, SetStatus, Fail, Leasing

\* The moves of a job: it is submitted, taken by the Claim that finds it the
\* oldest, renewed, queued again, completed, failed or removed.
IsEntered(j) ==
    /\ job[j].status = "unborn" /\ seq' = seq + 1
    /\ \E t : \E u \in Upload : job'[j] = Submitted(u, seq + 1, t)

IsTaken(j) ==
    \E t \in RecentPast :
        /\ ClaimWith(j, t) /\ j \in Oldest(Waiting(t))
        /\ job'[j] = Leasing(job[j], t)

IsRenewed(j) ==
    /\ job[j].status = "processing"
    /\ \E t \in RecentPast : job'[j] = [job[j] EXCEPT !.lease = t + Lease]

IsReturned(j) ==
    /\ job[j].status = "processing" /\ job[j].attempts < MaxAttempts
    /\ job'[j] = SetStatus(job[j], "queued")

IsCompleted(j) ==
    /\ job[j].status = "processing"
    /\ \E t \in RecentPast :
          job'[j] = [SetStatus(job[j], "completed") EXCEPT
                        !.result = job[j].attempts, !.updated = t]

IsFailed(j) ==
    /\ job[j].status \in Pending
    /\ \E c : \E t \in RecentPast :
          /\ job'[j] = Fail(job[j], c, t)
          /\ c = "expired" => \E s \in RecentPast : j \in Exhausted(s)

IsRemoved(j) == job[j].status \in Live /\ job'[j] = NoRecord("gone")

MovesOn(j) ==
    \/ job'[j] = job[j]
    \/ IsEntered(j) \/ IsTaken(j) \/ IsRenewed(j) \/ IsReturned(j) \/ IsCompleted(j)
    \/ IsFailed(j) \/ IsRemoved(j)

LEMMA StepMoves ==
    ASSUME Types, [Next]_vars, NEW j \in Job
    PROVE  MovesOn(j)
<1> USE DEF Finished, Pending, Live
<1>0. /\ job \in [Job -> JobRecord] /\ RecordOK(job[j])
      /\ job[j].status = "gone" => job[j] = NoRecord("gone")
  BY DEF Types, TypeOK, RecordsOK, RecordOK
<1>1. CASE UNCHANGED job
  BY <1>1 DEF MovesOn
<1>2. CASE \E i \in Job : Delete(i)
  BY <1>0, <1>2 DEF Delete, MovesOn, IsRemoved
<1>3. CASE \E u \in Upload, i \in Job, t \in RecentPast : Submit(u, i, t)
  <2>1. PICK u \in Upload, i \in Job, t \in RecentPast : Submit(u, i, t)
    BY <1>3
  <2>2. job' = [job EXCEPT ![i] = Submitted(u, seq + 1, t)]
    BY <2>1 DEF Submit, Submitted
  <2> QED
    BY <1>0, <2>1, <2>2 DEF Submit, MovesOn, IsEntered
<1>4. CASE \E t \in RecentPast : Claim(t)
  <2>1. PICK t \in RecentPast : Claim(t)
    BY <1>4
  <2>2. PICK next \in Job \cup {NoJob} :
           ClaimWith(next, t) /\ (next # NoJob => next \in Oldest(Waiting(t)))
    BY <2>1, ClaimSets DEF Claim, Oldest
  <2>3. CASE j = next
    BY <2>2, <2>3, IdentifiersAssumption DEF ClaimWith, MovesOn, IsTaken
  <2>4. CASE j # next /\ j \in Exhausted(t)
    <3>1. job[j].status \in Pending /\ job'[j] = Fail(job[j], "expired", t)
      BY <2>2, <2>4, ClaimSets DEF ClaimWith
    <3> QED
      BY <2>4, <3>1 DEF MovesOn, IsFailed
  <2>5. CASE j # next /\ j \in Lapsed(t) \ Exhausted(t)
    BY <2>2, <2>5, ClaimSets DEF ClaimWith, MovesOn, IsReturned
  <2>6. CASE j # next /\ j \notin Lapsed(t)
    BY <2>2, <2>6, ClaimSets DEF ClaimWith, MovesOn
  <2> QED
    BY <2>3, <2>4, <2>5, <2>6
<1>5. CASE \E i \in Job : \E k \in Issued(i), t \in RecentPast :
             WorkerNext(i, k, t)
  <2>1. PICK i \in Job : \E t \in RecentPast : \E k : WorkerNext(i, k, t)
    BY <1>5
  <2>2. PICK t \in RecentPast : \E k : WorkerNext(i, k, t)
    BY <2>1
  <2>3. PICK k : WorkerNext(i, k, t)
    BY <2>2
  <2>4. job[i].status = "processing" /\ job[i].token = k
    BY <2>3 DEF WorkerNext, Heartbeat, FinishResult, FinishRetry, FinishError, Leased
  <2>5. CASE Heartbeat(i, k, t)
    BY <1>0, <2>4, <2>5 DEF Heartbeat, MovesOn, IsRenewed
  <2>6. CASE FinishResult(i, k, t)
    BY <1>0, <2>4, <2>6 DEF FinishResult, Settle, MovesOn, IsCompleted, RecordOK
  <2>7. CASE FinishRetry(i, k, t)
    BY <1>0, <2>4, <2>7 DEF FinishRetry, RetriesLeft, MovesOn, IsReturned
  <2>8. CASE \E retry \in BOOLEAN : FinishError(i, k, t, retry)
    <3>1. job' = [job EXCEPT ![i] = Fail(job[i], "reported", t)]
      BY <2>8 DEF FinishError, Settle
    <3> QED
      BY <1>0, <2>4, <3>1 DEF MovesOn, IsFailed
  <2> QED
    BY <2>3, <2>5, <2>6, <2>7, <2>8 DEF WorkerNext
<1>6. CASE \E t \in RecentPast : CleanupLocked(t)
  <2>1. PICK t \in RecentPast : CleanupLocked(t)
    BY <1>6
  <2>2. CASE j \in Aged(t)
    <3>1. job[j].status \in Pending /\ job'[j] = Fail(job[j], "aged", t)
      BY <2>1, <2>2 DEF CleanupLocked, Aged
    <3> QED
      BY <3>1 DEF MovesOn, IsFailed
  <2>3. CASE j \notin Aged(t)
    BY <2>1, <2>3 DEF CleanupLocked, Outdated, MovesOn, IsRemoved
  <2> QED
    BY <2>2, <2>3
<1>7. CASE New
  BY <1>0, <1>7 DEF New, MovesOn, IsRemoved, RecordOK, JobRecord
<1>8. UNCHANGED job \/ (Next /\ ~(SweepNext \/ Tick)
                          /\ ~(\E u \in Upload : SaveNext(u) \/ DiscardUpload(u)))
  BY DEF vars, SweepNext, CleanupList, CleanupEntry, CleanupRemove, CleanupReturn,
         Tick, SaveNext, SaveBegin, SaveWrite, SaveDrop, SaveReject, SaveCommit,
         SaveEOF, DiscardUpload
<1> QED
  BY <1>1, <1>2, <1>3, <1>4, <1>5, <1>6, <1>7, <1>8 DEF Next

\* A job that is taken had its lease, if any, run out.
LEMMA TakenFacts ==
    ASSUME Types, NEW j \in Job, NEW t \in RecentPast, j \in Waiting(t)
    PROVE  /\ job[j].status \in Pending /\ job[j].attempts < MaxAttempts
           /\ job[j].status = "processing" => job[j].lease <= clock
<1>1. clock \in Nat /\ t \in Nat /\ t <= clock /\ job[j].lease \in Nat
  BY RecentPastIsTime DEF Types, TypeOK, Time, JobRecord
<1> QED
  BY <1>1, ClaimSets DEF Waiting, Lapsed

\* What a step does to a job that ended or was removed.
LEMMA StepOutcomes ==
    ASSUME Types, [Next]_vars, NEW j \in Job
    PROVE  /\ job[j].status \in Finished => job'[j] \in {job[j], NoRecord("gone")}
           /\ job[j].status = "gone" => job'[j] = job[j]
<1>1. MovesOn(j)
  BY StepMoves
<1>2. IsTaken(j) => job[j].status \in Pending
  BY TakenFacts DEF IsTaken, Oldest
<1> QED
  BY <1>1, <1>2 DEF MovesOn, IsEntered, IsRenewed, IsReturned, IsCompleted, IsFailed, IsRemoved,
                    Finished, Pending, Live

\* The outcome of a job is final, and a job that was removed stays removed.
THEOREM OutcomesAreFinal == Spec => OutcomeFinal
<1>1. Types /\ [Next]_vars =>
        [\A j \in Job :
           /\ job[j].status \in Finished => job'[j] \in {job[j], NoRecord("gone")}
           /\ job[j].status = "gone" => job'[j] = job[j]]_vars
  BY StepOutcomes
<1> QED
  BY <1>1, TypesInvariant, PTL DEF Spec, OutcomeFinal

\* What a step does to a job whose lease is not over.
LEMMA StepLeased ==
    ASSUME Types, [Next]_vars, NEW j \in Job,
           job[j].status = "processing", clock < job[j].lease
    PROVE  job'[j].attempts \in {job[j].attempts, 0} /\ job'[j].cause # "expired"
<1>1. MovesOn(j) /\ job[j] \in JobRecord /\ job[j].cause = "none"
  BY StepMoves DEF Types, TypeOK, RecordsOK, RecordOK, Pending
<1>2. ASSUME NEW t \in RecentPast PROVE j \notin Lapsed(t)
  <2>1. clock \in Nat /\ t \in Nat /\ t <= clock /\ job[j].lease \in Nat
    BY <1>1, RecentPastIsTime DEF Types, TypeOK, Time, JobRecord
  <2> QED
    BY <2>1 DEF Lapsed
<1>3. ~IsTaken(j)
  BY <1>2 DEF IsTaken, Oldest, Waiting
<1>4. CASE IsFailed(j)
  <2>1. PICK c, t : job'[j] = Fail(job[j], c, t) /\ c # "expired"
    BY <1>2, <1>4 DEF IsFailed, Exhausted
  <2> QED
    BY <1>1, <2>1 DEF Fail, SetStatus, JobRecord
<1>5. CASE IsRenewed(j) \/ IsCompleted(j)
  <2>1. PICK t : \/ job'[j] = [job[j] EXCEPT !.lease = t + Lease]
                 \/ job'[j] = [SetStatus(job[j], "completed") EXCEPT
                                 !.result = job[j].attempts, !.updated = t]
    BY <1>5 DEF IsRenewed, IsCompleted
  <2> QED
    BY <1>1, <2>1 DEF SetStatus, JobRecord
<1>6. CASE IsReturned(j)
  BY <1>1, <1>6 DEF IsReturned, SetStatus, JobRecord
<1>7. CASE IsRemoved(j) \/ job'[j] = job[j]
  BY <1>1, <1>7 DEF IsRemoved, NoRecord
<1> QED
  BY <1>1, <1>3, <1>4, <1>5, <1>6, <1>7 DEF MovesOn, IsEntered

\* No other attempt and no limit takes a job from a lease that is not over.
THEOREM LeasesAreRespected == Spec => LeaseRespected
<1>1. Types /\ [Next]_vars =>
        [\A j \in Job :
           /\ job[j].status = "processing" /\ clock < job[j].lease
           => /\ job'[j].attempts \in {job[j].attempts, 0}
              /\ job'[j].cause # "expired"]_vars
  BY StepLeased
<1> QED
  BY <1>1, TypesInvariant, PTL DEF Spec, LeaseRespected

-----------------------------------------------------------------------------
(* The order of the queue *)

\* The jobs are numbered in the order they were submitted.
Ordered ==
    /\ \A j \in Job : job[j].status \in Live => job[j].seq <= seq
    /\ \A i, j \in Job : /\ i # j
                         /\ job[i].status \in Live /\ job[j].status \in Live
                         => job[i].seq # job[j].seq

\* A job that was there before keeps its number.
LEMMA SeqKept ==
    ASSUME Types, NEW j \in Job, MovesOn(j), ~IsEntered(j), job'[j].status \in Live
    PROVE  job[j].status \in Live /\ job'[j].seq = job[j].seq
<1> USE DEF Live, Pending, Finished
<1>1. job[j] \in JobRecord
  BY DEF Types, TypeOK
<1>2. CASE IsTaken(j)
  BY <1>1, <1>2, TakenFacts, RecordFields DEF IsTaken, Oldest
<1>3. CASE IsRenewed(j)
  BY <1>1, <1>3 DEF IsRenewed, JobRecord
<1>4. CASE IsCompleted(j)
  BY <1>1, <1>4 DEF IsCompleted, SetStatus, JobRecord
<1>5. CASE IsReturned(j) \/ IsFailed(j)
  BY <1>1, <1>5, RecordFields DEF IsReturned, IsFailed
<1>6. CASE IsRemoved(j)
  BY <1>6 DEF IsRemoved, NoRecord
<1> QED
  BY <1>2, <1>3, <1>4, <1>5, <1>6 DEF MovesOn

LEMMA StepOrdered ==
    ASSUME Types, Ordered, [Next]_vars
    PROVE  Ordered'
<1>0. seq \in Nat /\ \A j \in Job : job[j].seq \in Nat
  BY DEF Types, TypeOK, JobRecord
<1>1. CASE \E u \in Upload, j \in Job, t \in RecentPast : Submit(u, j, t)
  <2>1. PICK u \in Upload, j \in Job, t \in RecentPast : Submit(u, j, t)
    BY <1>1
  <2>2. job' = [job EXCEPT ![j] = Submitted(u, seq + 1, t)] /\ seq' = seq + 1
    BY <2>1 DEF Submit, Submitted
  <2>3. Submitted(u, seq + 1, t).seq = seq + 1
    BY DEF Submitted, SetStatus, NoRecord
  <2>4. \A i \in Job : i # j => job'[i] = job[i]
    BY <2>2 DEF Types, TypeOK
  <2>5. job'[j].seq = seq + 1
    BY <2>2, <2>3 DEF Types, TypeOK
  <2> QED
    BY <1>0, <2>2, <2>4, <2>5 DEF Ordered
<1>2. CASE New
  BY <1>2 DEF New, NoRecord, Ordered, Live, Pending, Finished
<1>3. CASE seq' = seq
  <2>1. \A j \in Job : job'[j].status \in Live =>
           job[j].status \in Live /\ job'[j].seq = job[j].seq
    BY <1>0, <1>3, StepMoves, SeqKept DEF IsEntered
  <2> QED
    BY <1>3, <2>1 DEF Ordered
<1>4. seq' = seq \/ New \/ \E u \in Upload, j \in Job, t \in RecentPast : Submit(u, j, t)
  BY ZenonT(40) DEF vars, Next, SweepNext, CleanupList, CleanupEntry, CleanupRemove, CleanupReturn,
         Tick, SaveNext, SaveBegin, SaveWrite, SaveDrop, SaveReject, SaveCommit,
         SaveEOF, DiscardUpload, Delete, Claim, ClaimWith, WorkerNext, Heartbeat,
         FinishResult, FinishRetry, FinishError, Settle, CleanupLocked
<1> QED
  BY <1>1, <1>2, <1>3, <1>4

LEMMA InitOrdered == Init => Ordered
BY DEF Init, NoRecord, Ordered, Live, Pending, Finished

\* Only a Claim starts an attempt.
LEMMA StepAttempts ==
    ASSUME Types, [Next]_vars, NEW j \in Job,
           \/ job'[j].attempts > job[j].attempts
           \/ /\ job'[j].attempts # job[j].attempts
              /\ job'[j].status = "processing"
    PROVE  IsTaken(j)
<1> USE DEF Live, Pending, Finished
<1>1. job \in [Job -> JobRecord] /\ MovesOn(j) /\ job[j].attempts \in Nat
  BY StepMoves DEF Types, TypeOK, JobRecord
<1>2. CASE IsRenewed(j)
  BY <1>1, <1>2 DEF IsRenewed, JobRecord
<1>3. CASE IsCompleted(j)
  BY <1>1, <1>3 DEF IsCompleted, SetStatus, JobRecord
<1>4. CASE IsReturned(j) \/ IsFailed(j)
  BY <1>1, <1>4, RecordFields DEF IsReturned, IsFailed
<1>5. CASE IsRemoved(j)
  BY <1>1, <1>5 DEF IsRemoved, NoRecord
<1>6. CASE IsEntered(j)
  BY <1>1, <1>6 DEF IsEntered, Submitted, SetStatus, NoRecord
<1>7. CASE job'[j] = job[j]
  BY <1>1, <1>7
<1> QED
  BY <1>1, <1>2, <1>3, <1>4, <1>5, <1>6, <1>7 DEF MovesOn

\* The jobs that a Claim does not lease: what it leaves waiting did wait, and
\* none begins an attempt.
LEMMA ClaimLeaves ==
    ASSUME Types, NEW j, NEW t \in RecentPast, ClaimWith(j, t),
           NEW i \in Job, i # j
    PROVE  /\ job'[i].attempts = job[i].attempts
           /\ job'[i].status = "queued" => i \in Waiting(t)
<1>1. job \in [Job -> JobRecord]
  BY DEF Types, TypeOK
<1>2. CASE i \in Exhausted(t)
  <2>1. job'[i] = Fail(job[i], "expired", t)
    BY <1>2 DEF ClaimWith
  <2> QED
    BY <1>1, <2>1, RecordFields
<1>3. CASE i \in Lapsed(t) \ Exhausted(t)
  <2>1. job'[i] = SetStatus(job[i], "queued")
    BY <1>3 DEF ClaimWith
  <2> QED
    BY <1>1, <1>3, <2>1, RecordFields DEF Waiting
<1>4. CASE i \notin Lapsed(t)
  <2>1. job'[i] = job[i]
    BY <1>4, ClaimSets DEF ClaimWith
  <2> QED
    BY <2>1 DEF Waiting
<1> QED
  BY <1>2, <1>3, <1>4

\* Who gets another attempt is older than all that wait.
LEMMA StepTakes ==
    ASSUME Types, Ordered, [Next]_vars, NEW j \in Job, NEW i \in Job,
           IsTaken(j), job'[i].status = "queued"
    PROVE  job[j].seq < job[i].seq
<1>1. PICK t \in RecentPast : /\ ClaimWith(j, t) /\ j \in Oldest(Waiting(t))
                              /\ job'[j] = Leasing(job[j], t)
  BY DEF IsTaken
<1>2. job[j] \in JobRecord /\ job[j].seq \in Nat /\ job[i].seq \in Nat
  BY DEF Types, TypeOK, JobRecord
<1>3. i # j
  BY <1>1, <1>2, RecordFields
<1>4. i \in Waiting(t)
  BY <1>1, <1>3, ClaimLeaves
<1>5. job[j].seq <= job[i].seq /\ job[j].status \in Live /\ job[i].status \in Live
  BY <1>1, <1>4, ClaimSets DEF Oldest, Live
<1> QED
  BY <1>2, <1>3, <1>5 DEF Ordered

\* Jobs are leased in the order they were submitted.
THEOREM OldestComesFirst == Spec => OldestFirst
<1>1. Init => Types /\ Ordered
  BY InitTypes, InitOrdered
<1>2. Types /\ Ordered /\ [Next]_vars => (Types /\ Ordered)'
  BY StepTypes, StepOrdered
<1>3. Types /\ Ordered /\ [Next]_vars =>
        [\A j, i \in Job :
           /\ job'[j].status = "processing" /\ job'[j].attempts # job[j].attempts
           /\ job'[i].status = "queued"
           => job[j].seq < job[i].seq]_vars
  BY StepAttempts, StepTakes
<1> QED
  BY <1>1, <1>2, <1>3, PTL DEF Spec, OldestFirst

-----------------------------------------------------------------------------
(* Links between jobs and uploads *)

\* An upload that is not stored is charged nothing and has no job.
EntriesOK ==
    \A u \in Upload : upload[u].state # "stored" =>
        upload[u].bytes = 0 /\ upload[u].job = NoJob

Links == EntriesOK /\ LinksAgree

LEMMA JobOfUpload ==
    ASSUME Types, NEW u \in Upload
    PROVE  upload[u].job \in Job \cup {NoJob}
BY DEF Types, TypeOK, UploadRecord

LEMMA InitLinks == Init => Links
BY DEF Init, Links, EntriesOK, LinksAgree, NoEntry, NoRecord, Live, Pending,
       Finished

LEMMA SaveLinks ==
    ASSUME Types, Links, NEW u \in Upload, SaveNext(u) \/ DiscardUpload(u)
    PROVE  Links'
<1>1. job' = job
  BY DEF SaveNext, SaveBegin, SaveWrite, SaveEOF, SaveDrop, SaveReject,
         SaveCommit, DiscardUpload
<1>2. upload[u] \in UploadRecord /\ upload \in [Upload -> UploadRecord]
  BY DEF Types, TypeOK
<1>3. upload[u].job = NoJob
  BY DEF SaveNext, SaveBegin, SaveWrite, SaveEOF, SaveDrop, SaveReject,
         SaveCommit, DiscardUpload, Links, EntriesOK
<1>4. \A j \in Job : job[j].status \in Live => job[j].upload # u
  BY <1>3, IdentifiersAssumption DEF Links, LinksAgree
<1>5. /\ upload' = [upload EXCEPT ![u] = upload'[u]]
      /\ upload'[u].job = NoJob
      /\ upload'[u].state # "stored" => upload'[u].bytes = 0
      /\ upload'[u].state = "stored" => upload'[u].bytes > 0
  <2>1. CASE SaveBegin(u)
    BY <2>1, <1>2 DEF SaveBegin, NoEntry
  <2>2. CASE SaveWrite(u)
    BY <2>2, <1>2, <1>3 DEF SaveWrite, UploadRecord, Links, EntriesOK
  <2>3. CASE \E n \in Size : SaveEOF(u, n)
    <3>1. PICK n \in Size : SaveEOF(u, n)
      BY <2>3
    <3>2. upload' = [upload EXCEPT ![u] =
                        [upload[u] EXCEPT !.state = "written", !.size = n]]
      BY <3>1, <1>2 DEF SaveEOF
    <3>3. upload'[u] = [upload[u] EXCEPT !.state = "written", !.size = n]
      BY <3>2, <1>2
    <3>4. upload[u].bytes = 0
      BY <3>1 DEF SaveEOF, Links, EntriesOK
    <3> QED
      BY <3>2, <3>3, <3>4, <1>2, <1>3 DEF UploadRecord
  <2>4. CASE SaveDrop(u)
    BY <2>4, <1>2, <1>3 DEF SaveDrop, UploadRecord, Links, EntriesOK
  <2>5. CASE SaveReject(u)
    BY <2>5, <1>2 DEF SaveReject, NoEntry
  <2>6. CASE SaveCommit(u)
    <3>1. Charge(upload[u].size) \in 1 .. MaxUploadBytes
      BY <2>6, <1>2, ChargeType DEF SaveCommit, UploadRecord
    <3>2. Charge(upload[u].size) > 0
      BY <3>1, LimitsAssumption
    <3>3. upload' = [upload EXCEPT ![u] =
                        [upload[u] EXCEPT !.state = "stored",
                            !.bytes = Charge(upload[u].size), !.created = clock]]
      BY <2>6, <1>2 DEF SaveCommit
    <3> QED
      BY <1>2, <1>3, <3>2, <3>3 DEF UploadRecord
  <2>7. CASE DiscardUpload(u)
    BY <2>7, <1>2 DEF DiscardUpload, NoEntry
  <2> QED
    BY <2>1, <2>2, <2>3, <2>4, <2>5, <2>6, <2>7 DEF SaveNext
<1>6. \A v \in Upload : v # u => upload'[v] = upload[v]
  BY <1>2, <1>5
<1> QED
  BY <1>1, <1>3, <1>4, <1>5, <1>6 DEF Links, EntriesOK, LinksAgree

LEMMA SubmitLinks ==
    ASSUME Types, Links, NEW u \in Upload, NEW j \in Job, NEW t,
           Submit(u, j, t)
    PROVE  Links'
<1>1. /\ upload \in [Upload -> UploadRecord] /\ upload[u] \in UploadRecord
      /\ job \in [Job -> JobRecord]
  BY DEF Types, TypeOK
<1>2. /\ job' = [job EXCEPT ![j] = Submitted(u, seq', t)]
      /\ Submitted(u, seq', t).status = "queued"
      /\ Submitted(u, seq', t).upload = u
  BY DEF Submit, Submitted, NoRecord, SetStatus
<1>3. /\ upload'[u].state = "stored" /\ upload'[u].job = j
      /\ upload'[u].bytes = upload[u].bytes
      /\ \A v \in Upload : v # u => upload'[v] = upload[v]
  BY <1>1 DEF Submit, UploadRecord
<1>4. upload[u].bytes > 0 /\ upload[u].job = NoJob /\ job[j].status = "unborn"
  BY DEF Submit, Links, LinksAgree
<1>5. \A i \in Job : job[i].status \in Live => job[i].upload # u
  BY <1>4, IdentifiersAssumption DEF Links, LinksAgree
<1>6. \A v \in Upload : upload[v].job # j
  BY <1>4, IdentifiersAssumption DEF Links, LinksAgree, Live, Pending, Finished
<1>7. \A i \in Job : i # j => job'[i] = job[i]
  BY <1>1, <1>2
<1>8. job'[j].status = "queued" /\ job'[j].upload = u
  BY <1>1, <1>2
<1> HIDE DEF Submitted
<1>9. EntriesOK'
  BY <1>3 DEF Links, EntriesOK
<1>10. LinksAgree'
  BY <1>3, <1>4, <1>5, <1>6, <1>7, <1>8, JobOfUpload, IdentifiersAssumption
     DEF Links, LinksAgree, Live, Pending, Finished
<1> QED
  BY <1>9, <1>10 DEF Links

LEMMA DeleteLinks ==
    ASSUME Types, Links, NEW j \in Job, Delete(j)
    PROVE  Links'
<1> DEFINE u == job[j].upload
<1>1. upload \in [Upload -> UploadRecord] /\ job \in [Job -> JobRecord]
  BY DEF Types, TypeOK
<1>2. u \in Upload /\ upload[u].job = j
  BY DEF Delete, Links, LinksAgree
<1>3. /\ job'[j].status = "gone"
      /\ \A i \in Job : i # j => job'[i] = job[i]
  BY <1>1 DEF Delete, NoRecord
<1>4. /\ upload'[u].job = NoJob /\ upload'[u].state = "gone"
      /\ upload'[u].bytes = 0
      /\ \A v \in Upload : v # u => upload'[v] = upload[v]
  BY <1>1, <1>2 DEF Delete, NoEntry
<1>5. \A i \in Job : i # j /\ job[i].status \in Live => job[i].upload # u
  BY <1>2 DEF Links, LinksAgree
<1>6. \A v \in Upload : v # u => upload[v].job # j
  BY IdentifiersAssumption DEF Links, LinksAgree
<1> HIDE DEF u
<1> QED
  BY <1>2, <1>3, <1>4, <1>5, <1>6, JobOfUpload, IdentifiersAssumption
     DEF Links, EntriesOK, LinksAgree, Live, Pending, Finished

\* Jobs of distinct identities have distinct uploads.
LEMMA UploadsDistinct ==
    ASSUME Links, NEW i \in Job, NEW j \in Job, i # j,
           job[i].status \in Live, job[j].status \in Live
    PROVE  job[i].upload # job[j].upload
BY DEF Links, LinksAgree

\* A step that ends the jobs of E, with the charges of their uploads, and
\* otherwise moves jobs only between "queued" and "processing".
LEMMA ReleaseLinks ==
    ASSUME Types, Links, NEW E, E \subseteq Job,
           \A j \in E : job[j].status \in Pending /\ job'[j].status \in Finished,
           \A j \in Job : job'[j].upload = job[j].upload,
           \A j \in Job \ E :
              \/ job'[j].status = job[j].status
              \/ job'[j].status \in Pending /\ job[j].status \in Pending,
           upload' = [u \in Upload |-> IF u \in {job[j].upload : j \in E}
                                      THEN [upload[u] EXCEPT !.bytes = 0]
                                      ELSE upload[u]]
    PROVE  Links'
<1> DEFINE released == {job[j].upload : j \in E}
<1>1. \A u \in Upload : /\ upload'[u].state = upload[u].state
                        /\ upload'[u].job = upload[u].job
                        /\ u \in released => upload'[u].bytes = 0
                        /\ u \notin released => upload'[u] = upload[u]
  BY DEF Types, TypeOK, UploadRecord
<1>2. \A j \in Job : job[j].status \in Live =>
         (job[j].upload \in released <=> j \in E)
  BY UploadsDistinct DEF Live
<1>3. \A j \in Job : job[j].status \in Live <=> job'[j].status \in Live
  BY DEF Live
<1>4. \A u \in released : upload[u].job # NoJob
  BY IdentifiersAssumption DEF Links, LinksAgree, Live
<1> HIDE DEF released
<1>5. EntriesOK'
  BY <1>1 DEF Links, EntriesOK
<1>6. LinksAgree'
  <2>1. ASSUME NEW j \in Job, job'[j].status \in Live
        PROVE  /\ job'[j].upload \in Upload
               /\ upload'[job'[j].upload].state = "stored"
               /\ upload'[job'[j].upload].job = j
    BY <1>1, <1>3, <2>1 DEF Links, LinksAgree
  <2>2. ASSUME NEW j \in Job, job'[j].status \in Live
        PROVE  upload'[job'[j].upload].bytes > 0 <=> job'[j].status \in Pending
    <3>1. CASE j \in E
      BY <1>1, <1>2, <1>3, <2>1, <2>2, <3>1 DEF Pending, Finished
    <3>2. CASE j \notin E
      <4>1. job[j].status \in Live /\ job[j].upload \in Upload
        BY <1>3, <2>2 DEF Links, LinksAgree
      <4>2. upload'[job'[j].upload] = upload[job[j].upload]
        BY <1>1, <1>2, <3>2, <4>1
      <4>3. job'[j].status \in Pending <=> job[j].status \in Pending
        BY <3>2
      <4> QED
        BY <4>1, <4>2, <4>3 DEF Links, LinksAgree
    <3> QED
      BY <3>1, <3>2
  <2>3. ASSUME NEW u \in Upload, upload'[u].job # NoJob
        PROVE  /\ job'[upload'[u].job].status \in Live
               /\ job'[upload'[u].job].upload = u
    BY <1>1, <1>3, <2>3, JobOfUpload DEF Links, LinksAgree
  <2>4. ASSUME NEW u \in Upload, upload'[u].state = "stored",
               upload'[u].job = NoJob
        PROVE  upload'[u].bytes > 0
    BY <1>1, <1>4, <2>4 DEF Links, LinksAgree
  <2> QED
    BY <2>1, <2>2, <2>3, <2>4 DEF LinksAgree
<1> QED
  BY <1>5, <1>6 DEF Links

LEMMA ClaimLinks ==
    ASSUME Types, Links, NEW t, Claim(t)
    PROVE  Links'
<1>1. PICK next \in Job \cup {NoJob} :
         ClaimWith(next, t) /\ (next # NoJob => next \in Waiting(t))
  BY ClaimSets DEF Claim, Oldest
<1> DEFINE E == Exhausted(t)
<1>2. /\ E \subseteq Job
      /\ \A j \in E : job[j].status \in Pending /\ j # next
  BY <1>1, ClaimSets, IdentifiersAssumption DEF Pending
<1>3. job \in [Job -> JobRecord]
  BY DEF Types, TypeOK
<1>4. ASSUME NEW j \in Job
      PROVE  /\ job'[j].upload = job[j].upload
             /\ job'[j].seq = job[j].seq
             /\ j \in E => job'[j].status \in Finished
             /\ j \notin E => \/ job'[j].status = job[j].status
                              \/ /\ job'[j].status \in Pending
                                 /\ job[j].status \in Pending
  <2>1. CASE j = next
    <3>1. job'[j] = Leasing(job[j], t) /\ job[j].status \in Pending /\ j \notin E
      BY <1>1, <2>1, ClaimSets, IdentifiersAssumption DEF ClaimWith
    <3> QED
      BY <1>3, <3>1, RecordFields DEF Pending
  <2>2. CASE j # next /\ j \in E
    <3>1. job'[j] = Fail(job[j], "expired", t)
      BY <1>1, <2>2 DEF ClaimWith
    <3> QED
      BY <1>3, <2>2, <3>1, RecordFields DEF Finished
  <2>3. CASE j # next /\ j \in Lapsed(t) \ E
    <3>1. job'[j] = SetStatus(job[j], "queued") /\ job[j].status \in Pending
      BY <1>1, <2>3, ClaimSets DEF ClaimWith, Pending
    <3> QED
      BY <1>3, <2>3, <3>1, RecordFields DEF Pending
  <2>4. CASE j # next /\ j \notin Lapsed(t)
    <3>1. job'[j] = job[j] /\ j \notin E
      BY <1>1, <2>4, ClaimSets DEF ClaimWith
    <3> QED
      BY <3>1
  <2> QED
    BY <2>1, <2>2, <2>3, <2>4
<1>5. upload' = [u \in Upload |-> IF u \in {job[j].upload : j \in E}
                                 THEN [upload[u] EXCEPT !.bytes = 0]
                                 ELSE upload[u]]
  BY <1>1 DEF ClaimWith
<1> HIDE DEF E
<1> QED
  BY <1>2, <1>4, <1>5, ReleaseLinks

LEMMA WorkerLinks ==
    ASSUME Types, Links, NEW j \in Job, NEW k, NEW t, WorkerNext(j, k, t)
    PROVE  Links'
<1>1. job[j].status = "processing"
  BY DEF WorkerNext, Heartbeat, FinishResult, FinishRetry, FinishError, Leased
<1>2. job \in [Job -> JobRecord] /\ upload \in [Upload -> UploadRecord]
  BY DEF Types, TypeOK
<1>3. ASSUME NEW r, r.upload = job[j].upload, r.status \in Finished, Settle(j, r)
      PROVE  Links'
  <2>1. /\ job'[j] = r
        /\ \A i \in Job : i # j => job'[i] = job[i]
    BY <1>2, <1>3 DEF Settle
  <2>2. job[j].upload \in Upload
    BY <1>1 DEF Links, LinksAgree, Live, Pending
  <2>3. upload' = [u \in Upload |-> IF u \in {job[i].upload : i \in {j}}
                                   THEN [upload[u] EXCEPT !.bytes = 0]
                                   ELSE upload[u]]
    <3>1. upload' = [upload EXCEPT ![job[j].upload].bytes = 0]
      BY <1>3 DEF Settle
    <3>2. {job[i].upload : i \in {j}} = {job[j].upload}
      OBVIOUS
    <3> QED
      BY <1>2, <2>2, <3>1, <3>2
  <2> DEFINE E == {j}
  <2>4. /\ E \subseteq Job
        /\ \A i \in E : job[i].status \in Pending /\ job'[i].status \in Finished
        /\ \A i \in Job : job'[i].upload = job[i].upload
        /\ \A i \in Job \ E : job'[i].status = job[i].status
    BY <1>1, <1>3, <2>1 DEF Pending
  <2>5. upload' = [u \in Upload |-> IF u \in {job[i].upload : i \in E}
                                   THEN [upload[u] EXCEPT !.bytes = 0]
                                   ELSE upload[u]]
    BY <2>3
  <2> HIDE DEF E
  <2> QED
    BY <2>4, <2>5, ReleaseLinks
<1>4. CASE FinishResult(j, k, t)
  <2> DEFINE r == [SetStatus(job[j], "completed") EXCEPT
                      !.result = k, !.updated = t]
  <2>1. r.upload = job[j].upload /\ r.status \in Finished
    BY <1>2 DEF JobRecord, SetStatus, Finished
  <2> QED
    BY <1>3, <1>4, <2>1 DEF FinishResult
<1>5. CASE \E retry \in BOOLEAN : FinishError(j, k, t, retry)
  <2>1. /\ Fail(job[j], "reported", t).upload = job[j].upload
        /\ Fail(job[j], "reported", t).status \in Finished
    BY <1>2, RecordFields DEF Finished
  <2> QED
    BY <1>3, <1>5, <2>1 DEF FinishError
<1>6. CASE Heartbeat(j, k, t) \/ FinishRetry(j, k, t)
  <2>1. /\ upload' = upload
        /\ \A i \in Job : i # j => job'[i] = job[i]
    BY <1>2, <1>6 DEF Heartbeat, FinishRetry
  <2>2. job'[j].upload = job[j].upload /\ job'[j].status \in Pending
    <3>1. CASE Heartbeat(j, k, t)
      BY <1>1, <1>2, <3>1 DEF Heartbeat, JobRecord, Pending
    <3>2. CASE FinishRetry(j, k, t)
      BY <1>2, <3>2, RecordFields DEF FinishRetry, Pending
    <3> QED
      BY <1>6, <3>1, <3>2
  <2>3. job[j].status \in Pending
    BY <1>1 DEF Pending
  <2>4. ASSUME NEW i \in Job
        PROVE  /\ job'[i].upload = job[i].upload
               /\ job'[i].status \in Live <=> job[i].status \in Live
               /\ job'[i].status \in Pending <=> job[i].status \in Pending
    <3>1. CASE i = j
      BY <2>2, <2>3, <3>1 DEF Live
    <3>2. CASE i # j
      BY <2>1, <3>2
    <3> QED
      BY <3>1, <3>2
  <2>5. EntriesOK'
    BY <2>1 DEF Links, EntriesOK
  <2>6. LinksAgree'
    BY <2>1, <2>4, JobOfUpload DEF Links, LinksAgree
  <2> QED
    BY <2>5, <2>6 DEF Links
<1> QED
  BY <1>4, <1>5, <1>6 DEF WorkerNext

\* The finished jobs Cleanup removes.
Old(t) == Outdated(t, "completed") \cup Outdated(t, "error")

\* What Cleanup's critical section does to each job and each upload.
LEMMA CleanupEffect ==
    ASSUME Types, Links, NEW t, CleanupLocked(t)
    PROVE  /\ Aged(t) \subseteq Job /\ \A j \in Aged(t) : job[j].status \in Pending
           /\ Old(t) \subseteq Job /\ \A j \in Old(t) : job[j].status \in Finished
           /\ \A j \in Aged(t) : /\ job'[j].status = "error"
                                 /\ job'[j].upload = job[j].upload
                                 /\ job'[j].seq = job[j].seq
           /\ \A j \in Old(t) : job'[j] = NoRecord("gone")
           /\ \A j \in Job : j \notin Aged(t) /\ j \notin Old(t) => job'[j] = job[j]
           /\ \A u \in Upload :
                 \/ /\ upload[u].job \in Old(t) \/ u \in Abandoned(t)
                    /\ upload'[u] = NoEntry("gone")
                 \/ /\ upload[u].job \in Aged(t)
                    /\ upload'[u] = [upload[u] EXCEPT !.bytes = 0]
                 \/ /\ upload[u].job \notin Old(t) /\ upload[u].job \notin Aged(t)
                    /\ u \notin Abandoned(t)
                    /\ upload'[u] = upload[u]
<1>1. /\ Aged(t) \subseteq Job /\ \A j \in Aged(t) : job[j].status \in Pending
      /\ Old(t) \subseteq Job /\ \A j \in Old(t) : job[j].status \in Finished
  BY DEF Aged, Old, Outdated, Finished
<1>2. \A j \in Aged(t) : j \notin Old(t)
  BY <1>1 DEF Pending, Finished
<1>3. \A j \in Aged(t) : job'[j] = Fail(job[j], "aged", t)
  BY <1>1 DEF CleanupLocked, Old
<1>4. \A j \in Aged(t) : /\ job'[j].status = "error"
                        /\ job'[j].upload = job[j].upload
                        /\ job'[j].seq = job[j].seq
  BY <1>1, <1>3, RecordFields DEF Types, TypeOK
<1>5. /\ \A j \in Old(t) : job'[j] = NoRecord("gone")
      /\ \A j \in Job : j \notin Aged(t) /\ j \notin Old(t) => job'[j] = job[j]
  BY <1>1, <1>2 DEF CleanupLocked, Old
<1>6. ASSUME NEW u \in Upload
      PROVE  /\ u \in {job[j].upload : j \in Old(t)} <=> upload[u].job \in Old(t)
             /\ u \in {job[j].upload : j \in Aged(t)} <=> upload[u].job \in Aged(t)
  BY <1>1, IdentifiersAssumption DEF Links, LinksAgree, Live
<1>7. \A u \in Upload :
        upload'[u] = IF upload[u].job \in Old(t) \/ u \in Abandoned(t)
                     THEN NoEntry("gone")
                     ELSE IF upload[u].job \in Aged(t)
                          THEN [upload[u] EXCEPT !.bytes = 0]
                          ELSE upload[u]
  BY <1>6 DEF CleanupLocked, Old
<1> QED
  BY <1>1, <1>4, <1>5, <1>7

LEMMA CleanupLockedLinks ==
    ASSUME Types, Links, NEW t, CleanupLocked(t)
    PROVE  Links'
<1> DEFINE kept == Job \ (Aged(t) \cup Old(t))
<1>1. /\ Aged(t) \subseteq Job /\ \A j \in Aged(t) : job[j].status \in Pending
      /\ Old(t) \subseteq Job /\ \A j \in Old(t) : job[j].status \in Finished
  BY CleanupEffect
<1>2. /\ \A j \in Aged(t) : /\ job'[j].status = "error"
                            /\ job'[j].upload = job[j].upload
      /\ \A j \in Old(t) : job'[j].status = "gone"
      /\ \A j \in kept : job'[j] = job[j]
  BY CleanupEffect DEF NoRecord
<1>3. ASSUME NEW u \in Upload
      PROVE  \/ /\ upload[u].job \in Old(t) \/ u \in Abandoned(t)
                /\ upload'[u].state = "gone" /\ upload'[u].bytes = 0
                /\ upload'[u].job = NoJob
             \/ /\ upload[u].job \in Aged(t)
                /\ upload'[u].state = upload[u].state /\ upload'[u].bytes = 0
                /\ upload'[u].job = upload[u].job
             \/ /\ upload[u].job \notin Old(t) /\ upload[u].job \notin Aged(t)
                /\ u \notin Abandoned(t) /\ upload'[u] = upload[u]
  <2>1. NoEntry("gone").state = "gone" /\ NoEntry("gone").bytes = 0
        /\ NoEntry("gone").job = NoJob
    BY DEF NoEntry
  <2>2. upload[u] \in UploadRecord
    BY DEF Types, TypeOK
  <2>3. LET r == [upload[u] EXCEPT !.bytes = 0]
        IN  r.state = upload[u].state /\ r.bytes = 0 /\ r.job = upload[u].job
    BY <2>2 DEF UploadRecord
  <2>4. \/ /\ upload[u].job \in Old(t) \/ u \in Abandoned(t)
           /\ upload'[u] = NoEntry("gone")
        \/ /\ upload[u].job \in Aged(t)
           /\ upload'[u] = [upload[u] EXCEPT !.bytes = 0]
        \/ /\ upload[u].job \notin Old(t) /\ upload[u].job \notin Aged(t)
           /\ u \notin Abandoned(t)
           /\ upload'[u] = upload[u]
    BY CleanupEffect
  <2> QED
    BY <2>1, <2>3, <2>4
<1>4. \A u \in Abandoned(t) : upload[u].job = NoJob
  BY DEF Abandoned
<1>5. \A j \in Job : job'[j].status \in Live => j \notin Old(t)
  BY <1>2 DEF Live, Pending, Finished
<1>6. EntriesOK'
  <2> SUFFICES ASSUME NEW u \in Upload, upload'[u].state # "stored"
               PROVE  upload'[u].bytes = 0 /\ upload'[u].job = NoJob
    BY DEF EntriesOK
  <2> QED
    BY <1>1, <1>3, IdentifiersAssumption DEF Links, EntriesOK
<1>7. ASSUME NEW j \in Job, job'[j].status \in Live
      PROVE  /\ job'[j].upload \in Upload
             /\ upload'[job'[j].upload].state = "stored"
             /\ upload'[job'[j].upload].job = j
             /\ upload'[job'[j].upload].bytes > 0 <=> job'[j].status \in Pending
  <2>1. /\ job'[j].upload = job[j].upload /\ job[j].status \in Live
        /\ j \notin Old(t)
    BY <1>1, <1>2, <1>5, <1>7 DEF Live
  <2>2. /\ job[j].upload \in Upload /\ upload[job[j].upload].state = "stored"
        /\ upload[job[j].upload].job = j
        /\ upload[job[j].upload].bytes > 0 <=> job[j].status \in Pending
    BY <2>1 DEF Links, LinksAgree
  <2>3. job[j].upload \notin Abandoned(t)
    BY <1>4, <2>2, IdentifiersAssumption
  <2>4. CASE j \in Aged(t)
    <3>1. /\ upload'[job[j].upload].state = "stored"
          /\ upload'[job[j].upload].bytes = 0
          /\ upload'[job[j].upload].job = j
      BY <1>3, <2>1, <2>2, <2>3, <2>4
    <3> QED
      BY <1>2, <2>1, <2>2, <2>4, <3>1 DEF Pending
  <2>5. CASE j \notin Aged(t)
    <3>1. upload'[job[j].upload] = upload[job[j].upload]
      BY <1>3, <2>1, <2>2, <2>3, <2>5
    <3> QED
      BY <1>2, <2>1, <2>2, <2>5, <3>1
  <2> QED
    BY <2>4, <2>5
<1>8. ASSUME NEW u \in Upload, upload'[u].job # NoJob
      PROVE  /\ job'[upload'[u].job].status \in Live
             /\ job'[upload'[u].job].upload = u
  <2>1. upload'[u].job = upload[u].job /\ upload[u].job \notin Old(t)
        /\ upload[u].job \in Job
    BY <1>1, <1>3, <1>8, JobOfUpload DEF Pending, Finished
  <2>2. /\ job[upload[u].job].status \in Live
        /\ job[upload[u].job].upload = u
    BY <1>8, <2>1 DEF Links, LinksAgree
  <2> QED
    BY <1>2, <2>1, <2>2 DEF Live, Finished
<1>9. ASSUME NEW u \in Upload, upload'[u].state = "stored", upload'[u].job = NoJob
      PROVE  upload'[u].bytes > 0
  BY <1>1, <1>3, <1>9, IdentifiersAssumption DEF Links, LinksAgree
<1>10. LinksAgree'
  BY <1>7, <1>8, <1>9 DEF LinksAgree
<1> QED
  BY <1>6, <1>10 DEF Links

LEMMA StepLinks ==
    ASSUME Types, Links, [Next]_vars
    PROVE  Links'
<1>1. CASE \E u \in Upload : SaveNext(u) \/ DiscardUpload(u)
  BY <1>1, SaveLinks
<1>2. CASE \E j \in Job : Delete(j)
  BY <1>2, DeleteLinks
<1>3. CASE \E u \in Upload, j \in Job, t \in RecentPast : Submit(u, j, t)
  BY <1>3, SubmitLinks
<1>4. CASE \E t \in RecentPast : Claim(t)
  BY <1>4, ClaimLinks
<1>5. CASE \E j \in Job : \E k \in Issued(j), t \in RecentPast :
             WorkerNext(j, k, t)
  BY <1>5, WorkerLinks
<1>6. CASE \E t \in RecentPast : CleanupLocked(t)
  BY <1>6, CleanupLockedLinks
<1>7. CASE SweepNext
  BY <1>7 DEF SweepNext, CleanupList, CleanupEntry, CleanupRemove,
              CleanupReturn, Links, EntriesOK, LinksAgree
<1>8. CASE New
  <2>1. \A j \in Job : job'[j].status \notin Live
    BY <1>8 DEF New, NoRecord, Live, Pending, Finished
  <2>2. \A u \in Upload : /\ upload'[u].state # "stored"
                         /\ upload'[u].bytes = 0
                         /\ upload'[u].job = NoJob
    BY <1>8 DEF New, NoEntry, Links, EntriesOK
  <2> QED
    BY <2>1, <2>2 DEF Links, EntriesOK, LinksAgree
<1>9. CASE Tick
  BY <1>9 DEF Tick, Links, EntriesOK, LinksAgree
<1>10. CASE UNCHANGED vars
  BY <1>10 DEF vars, Links, EntriesOK, LinksAgree
<1> QED
  BY <1>1, <1>2, <1>3, <1>4, <1>5, <1>6, <1>7, <1>8, <1>9, <1>10 DEF Next

THEOREM LinksInvariant == Spec => [](Types /\ Links)
<1>1. Init => Types /\ Links
  BY InitTypes, InitLinks
<1>2. Types /\ Links /\ [Next]_vars => (Types /\ Links)'
  BY StepTypes, StepLinks
<1> QED
  BY <1>1, <1>2, PTL DEF Spec

\* Jobs and uploads reference each other, and exactly the pending jobs' uploads
\* and the unsubmitted ones still have a charge.
THEOREM LinksAlwaysAgree == Spec => []LinksAgree
<1>1. Types /\ Links => LinksAgree
  BY DEF Links
<1> QED
  BY <1>1, LinksInvariant, PTL
=============================================================================
