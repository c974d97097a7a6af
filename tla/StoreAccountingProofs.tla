------------------------ MODULE StoreAccountingProofs ------------------------
(***************************************************************************)
(* What Store keeps track of: the counters, the bytes and the files.       *)
(*                                                                         *)
(* Store.counts and Store.used, kept one difference at a time, are exact.  *)
(* TLAPS cannot instantiate an induction over sums, so the sums are        *)
(* cardinalities: a counter is the size of a set of jobs, the bytes an     *)
(* upload holds are as many pairs <<upload, n>>.                           *)
(*                                                                         *)
(* No audio that is still needed is ever removed.  The sweep decides by    *)
(* what it saw under the mutex (the known uploads and its "now") and by    *)
(* the age of a file, while Save calls come and go.  The argument: a file  *)
(* that the sweep has not seen charged belongs to a Save that was running  *)
(* when the sweep began, a Save lasts at most MaxSave, and MaxSave is at   *)
(* most StaleAge, so the file is not stale for this sweep.                 *)
(***************************************************************************)
EXTENDS StoreProofs

-----------------------------------------------------------------------------
(* Counters *)

\* Some elements leave a finite set and others enter it.
LEMMA CardinalityChange ==
    ASSUME NEW S, IsFiniteSet(S), NEW D, D \subseteq S,
           NEW A, IsFiniteSet(A), A \cap S = {}
    PROVE  /\ IsFiniteSet(D) /\ IsFiniteSet((S \ D) \cup A)
           /\ Cardinality(S) \in Nat /\ Cardinality(D) \in Nat
           /\ Cardinality(A) \in Nat
           /\ Cardinality((S \ D) \cup A) =
                 Cardinality(S) - Cardinality(D) + Cardinality(A)
<1>1. IsFiniteSet(D) /\ IsFiniteSet(S \ D)
  BY FS_Subset, FS_Difference
<1>2. S \cap D = D /\ (S \ D) \cap A = {}
  OBVIOUS
<1>3. Cardinality(S \ D) = Cardinality(S) - Cardinality(D)
  BY <1>2, FS_Difference
<1>4. /\ IsFiniteSet((S \ D) \cup A)
      /\ Cardinality((S \ D) \cup A) = Cardinality(S \ D) + Cardinality(A)
                                        - Cardinality((S \ D) \cap A)
  BY <1>1, FS_Union
<1>5. Cardinality((S \ D) \cap A) = 0
  BY <1>2, FS_EmptySet
<1>6. /\ Cardinality(S) \in Nat /\ Cardinality(D) \in Nat
      /\ Cardinality(A) \in Nat
  BY <1>1, FS_CardinalityType
<1> QED
  BY <1>1, <1>3, <1>4, <1>5, <1>6

\* The jobs of status s when f gives the records.
In(f, s) == {j \in Job : f[j].status = s}
Number(f, s) == Cardinality(In(f, s))

LEMMA NumberNat ==
    ASSUME NEW f, NEW s
    PROVE  IsFiniteSet(In(f, s)) /\ Number(f, s) \in Nat
<1>1. IsFiniteSet(In(f, s))
  BY IdentifiersAssumption, FS_Subset DEF In
<1> QED
  BY <1>1, FS_CardinalityType DEF Number

\* The jobs of D leave status s and those of A enter it.
LEMMA NumberChange ==
    ASSUME NEW f, NEW g, NEW s, NEW D, NEW A, D \subseteq In(f, s), A \subseteq Job,
           A \cap In(f, s) = {}, In(g, s) = (In(f, s) \ D) \cup A
    PROVE  /\ Number(f, s) \in Nat
           /\ Cardinality(D) \in Nat /\ Cardinality(A) \in Nat
           /\ Number(g, s) = Number(f, s) - Cardinality(D) + Cardinality(A)
<1>1. IsFiniteSet(In(f, s)) /\ IsFiniteSet(A)
  BY IdentifiersAssumption, FS_Subset DEF In
<1> QED
  BY <1>1, CardinalityChange DEF Number

\* One job moves from a status to another.
Moves(f, g, j, from, to) ==
    /\ j \in Job /\ from # to
    /\ f[j].status = from /\ g[j].status = to
    /\ \A i \in Job \ {j} : g[i].status = f[i].status

LEMMA NumberMove ==
    ASSUME NEW f, NEW g, NEW j, NEW from, NEW to, Moves(f, g, j, from, to)
    PROVE  /\ Number(g, from) = Number(f, from) - 1
           /\ Number(g, to) = Number(f, to) + 1
           /\ \A s : s # to /\ s # from => Number(g, s) = Number(f, s)
<1>1. /\ In(g, from) = In(f, from) \ {j} /\ j \in In(f, from)
      /\ In(g, to) = In(f, to) \cup {j} /\ j \notin In(f, to)
  BY DEF In, Moves
<1>2. IsFiniteSet(In(f, from)) /\ IsFiniteSet(In(f, to))
  BY NumberNat
<1>3. Number(g, from) = Number(f, from) - 1
  BY <1>1, <1>2, FS_RemoveElement DEF Number
<1>4. Number(g, to) = Number(f, to) + 1
  BY <1>1, <1>2, FS_AddElement DEF Number
<1>5. \A s : s # to /\ s # from => Number(g, s) = Number(f, s)
  BY DEF In, Number, Moves
<1> QED
  BY <1>3, <1>4, <1>5

LEMMA NumberSame ==
    ASSUME NEW f, NEW g, \A i \in Job : g[i].status = f[i].status
    PROVE  \A s : Number(g, s) = Number(f, s)
BY DEF In, Number

Counted ==
    /\ \A s \in Live : counts[s] = Number(job, s)
    /\ counts["queued"] + counts["processing"] <= MaxPendingJobs

LEMMA CountedIsCountsExact == Counted <=> CountsExact
BY DEF Counted, CountsExact, Number, In

LEMMA InitCounted == Init => Counted
<1> SUFFICES ASSUME Init PROVE Counted
  OBVIOUS
<1>1. \A s \in Live : In(job, s) = {}
  BY DEF Init, In, NoRecord, Live, Pending, Finished
<1>2. \A s \in Live : Number(job, s) = 0
  BY <1>1, FS_EmptySet DEF Number
<1>3. {"queued", "processing"} \subseteq Live
  BY DEF Live, Pending
<1> QED
  BY <1>2, <1>3, LimitsAssumption DEF Init, Counted

LEMMA SubmitCounted ==
    ASSUME Types, Counted, NEW u, NEW j \in Job, NEW t, Submit(u, j, t)
    PROVE  Counted'
<1>1. /\ job \in [Job -> JobRecord] /\ counts \in [Live -> Int]
  BY DEF Types, TypeOK
<1>2. Moves(job, job', j, "unborn", "queued")
  BY <1>1 DEF Moves, Submit, SetStatus, NoRecord
<1>3. /\ Number(job', "queued") = Number(job, "queued") + 1
      /\ \A s : s # "unborn" /\ s # "queued" => Number(job', s) = Number(job, s)
  BY <1>2, NumberMove
<1>4. /\ counts' = [counts EXCEPT !["queued"] = @ + 1]
      /\ counts["queued"] + counts["processing"] < MaxPendingJobs
  BY <1>1, LimitsAssumption DEF Submit, QueueFull, Live, Pending
<1> QED
  BY <1>1, <1>3, <1>4, LimitsAssumption DEF Counted, Live, Pending, Finished

LEMMA DeleteCounted ==
    ASSUME Types, Counted, NEW j \in Job, Delete(j)
    PROVE  Counted'
<1>1. /\ job \in [Job -> JobRecord] /\ counts \in [Live -> Int]
  BY DEF Types, TypeOK
<1>2. PICK from \in Live : job[j].status = from
  BY DEF Delete
<1>3. from # "gone" /\ Moves(job, job', j, from, "gone")
  BY <1>1, <1>2 DEF Moves, Delete, NoRecord, Live, Pending, Finished
<1>4. /\ Number(job', from) = Number(job, from) - 1
      /\ \A s : s # from /\ s # "gone" => Number(job', s) = Number(job, s)
  BY <1>3, NumberMove
<1>5. counts' = [counts EXCEPT ![from] = @ - 1]
  BY <1>2 DEF Delete
<1>6. /\ counts' \in [Live -> Int]
      /\ \A s \in Live : counts'[s] = Number(job', s)
  BY <1>1, <1>3, <1>4, <1>5 DEF Counted, Live, Pending, Finished
<1>7. counts'["queued"] + counts'["processing"] <= MaxPendingJobs
  BY <1>1, <1>3, <1>5, LimitsAssumption DEF Counted, Live, Pending
<1> QED
  BY <1>6, <1>7 DEF Counted

\* Claim's first half, for the jobs of E that fail and those of R that wait again.
LEMMA LapseCounted ==
    ASSUME Counted, counts \in [Live -> Int],
           NEW g, NEW E, NEW R, E \subseteq In(job, "processing"),
           R \subseteq In(job, "processing"), E \cap R = {},
           \A j \in E : g[j].status = "error",
           \A j \in R : g[j].status = "queued",
           \A j \in Job \ (E \cup R) : g[j].status = job[j].status,
           NEW c, c = Shift(Shift(counts, "processing", "queued", Cardinality(R)),
                            "processing", "error", Cardinality(E))
    PROVE  /\ c \in [Live -> Int]
           /\ \A s \in Live : c[s] = Number(g, s)
           /\ c["queued"] + c["processing"] <= MaxPendingJobs
<1>1. /\ In(g, "processing") = In(job, "processing") \ (E \cup R)
      /\ In(g, "queued") = In(job, "queued") \cup R
      /\ In(g, "error") = In(job, "error") \cup E
      /\ In(g, "completed") = In(job, "completed")
      /\ In(job, "queued") \cap R = {} /\ In(job, "error") \cap E = {}
      /\ In(job, "processing") \cap (E \cup R) = E \cup R
  BY DEF In
<1>2. IsFiniteSet(E) /\ IsFiniteSet(R)
  BY NumberNat, FS_Subset
<1>3. /\ IsFiniteSet(E \cup R)
      /\ Cardinality(E \cup R) = Cardinality(E) + Cardinality(R)
      /\ Cardinality(E) \in Nat /\ Cardinality(R) \in Nat
  <2>1. /\ IsFiniteSet(E \cup R)
        /\ Cardinality(E \cup R) = Cardinality(E) + Cardinality(R)
                                  - Cardinality(E \cap R)
    BY <1>2, FS_Union
  <2>2. Cardinality(E \cap R) = 0
    BY FS_EmptySet
  <2>3. Cardinality(E) \in Nat /\ Cardinality(R) \in Nat
    BY <1>2, FS_CardinalityType
  <2> QED
    BY <2>1, <2>2, <2>3
<1>4. Number(g, "processing") =
        Number(job, "processing") - Cardinality(E) - Cardinality(R)
  <2>1. Number(g, "processing") = Number(job, "processing") - Cardinality(E \cup R)
    <3>1. IsFiniteSet(In(job, "processing"))
      BY NumberNat
    <3>2. Cardinality(In(job, "processing") \ (E \cup R)) =
            Cardinality(In(job, "processing"))
            - Cardinality(In(job, "processing") \cap (E \cup R))
      BY <3>1, FS_Difference
    <3> QED
      BY <1>1, <3>2 DEF Number
  <2>2. Number(job, "processing") \in Nat
    BY NumberNat
  <2> QED
    BY <1>3, <2>1, <2>2
<1>5. Number(g, "queued") = Number(job, "queued") + Cardinality(R)
  <2>1. Number(g, "queued") = Number(job, "queued") + Cardinality(R)
                              - Cardinality(In(job, "queued") \cap R)
    BY <1>1, <1>2, NumberNat, FS_Union DEF Number
  <2>2. Cardinality(In(job, "queued") \cap R) = 0
    BY <1>1, FS_EmptySet
  <2>3. Number(job, "queued") \in Nat
    BY NumberNat
  <2> QED
    BY <1>3, <2>1, <2>2, <2>3
<1>6. Number(g, "error") = Number(job, "error") + Cardinality(E)
  <2>1. Number(g, "error") = Number(job, "error") + Cardinality(E)
                              - Cardinality(In(job, "error") \cap E)
    BY <1>1, <1>2, NumberNat, FS_Union DEF Number
  <2>2. Cardinality(In(job, "error") \cap E) = 0
    BY <1>1, FS_EmptySet
  <2>3. Number(job, "error") \in Nat
    BY NumberNat
  <2> QED
    BY <1>3, <2>1, <2>2, <2>3
<1>7. Number(g, "completed") = Number(job, "completed")
  BY <1>1 DEF Number
<1>8. /\ c \in [Live -> Int]
      /\ c["queued"] = counts["queued"] + Cardinality(R)
      /\ c["processing"] = counts["processing"] - Cardinality(R) - Cardinality(E)
      /\ c["error"] = counts["error"] + Cardinality(E)
      /\ c["completed"] = counts["completed"]
  BY <1>3 DEF Shift, Live, Pending, Finished
<1>9. \A s \in Live : Number(job, s) \in Nat /\ counts[s] = Number(job, s)
  BY NumberNat DEF Counted
<1>10. c["queued"] + c["processing"] <= MaxPendingJobs
  BY <1>3, <1>8, <1>9, LimitsAssumption DEF Counted, Live, Pending
<1> QED
  BY <1>3, <1>4, <1>5, <1>6, <1>7, <1>8, <1>9, <1>10 DEF Live, Pending, Finished

LEMMA ClaimCounted ==
    ASSUME Types, Counted, NEW t, Claim(t)
    PROVE  Counted'
<1>1. PICK next \in Job \cup {NoJob} :
         ClaimWith(next, t) /\ (next # NoJob => next \in Waiting(t))
  BY ClaimSets DEF Claim, Oldest
<1>2. PICK E : E = Exhausted(t)
  OBVIOUS
<1>3. PICK R : R = Lapsed(t) \ Exhausted(t)
  OBVIOUS
<1>4. job \in [Job -> JobRecord] /\ counts \in [Live -> Int]
  BY DEF Types, TypeOK
<1>5. PICK g : g = [j \in Job |-> IF j \in E THEN Fail(job[j], "expired", t)
                                ELSE IF j \in R THEN SetStatus(job[j], "queued")
                                ELSE job[j]]
  OBVIOUS
<1>6. PICK c : c = Shift(Shift(counts, "processing", "queued", Cardinality(R)),
                         "processing", "error", Cardinality(E))
  OBVIOUS
<1>7. /\ E \subseteq In(job, "processing") /\ R \subseteq In(job, "processing")
      /\ E \cap R = {}
  BY <1>2, <1>3, ClaimSets DEF In
<1>8. /\ \A j \in E : g[j].status = "error"
      /\ \A j \in R : g[j].status = "queued"
      /\ \A j \in Job \ (E \cup R) : g[j] = job[j]
  <2>1. E \subseteq Job /\ R \subseteq Job
    BY <1>7 DEF In
  <2>2. /\ \A j \in E : g[j] = Fail(job[j], "expired", t)
        /\ \A j \in R : g[j] = SetStatus(job[j], "queued")
        /\ \A j \in Job \ (E \cup R) : g[j] = job[j]
    BY <1>5, <1>7, <2>1
  <2>3. \A j \in Job : /\ Fail(job[j], "expired", t).status = "error"
                      /\ SetStatus(job[j], "queued").status = "queued"
    BY <1>4, RecordFields
  <2> QED
    BY <2>1, <2>2, <2>3
<1>9. /\ c \in [Live -> Int]
      /\ \A s \in Live : c[s] = Number(g, s)
      /\ c["queued"] + c["processing"] <= MaxPendingJobs
  BY <1>4, <1>6, <1>7, <1>8, LapseCounted
<1>10. \A j \in Job : j # next => job'[j] = g[j]
  BY <1>1, <1>2, <1>3, <1>5 DEF ClaimWith
<1>11. CASE next = NoJob
  <2>1. \A j \in Job : job'[j].status = g[j].status
    BY <1>10, <1>11, IdentifiersAssumption
  <2>2. \A s : Number(job', s) = Number(g, s)
    BY <2>1, NumberSame
  <2>3. counts' = c
    BY <1>1, <1>2, <1>3, <1>6, <1>11 DEF ClaimWith
  <2> QED
    BY <1>9, <2>2, <2>3 DEF Counted
<1>12. CASE next # NoJob
  <2>1. next \in Job /\ next \in Waiting(t)
    BY <1>1, <1>12
  <2>2. g[next].status = "queued"
    <3>1. CASE next \in R
      BY <1>8, <3>1
    <3>2. CASE next \notin R
      BY <1>2, <1>3, <1>8, <2>1, <3>2, ClaimSets DEF Waiting
    <3> QED
      BY <3>1, <3>2
  <2>3. job'[next].status = "processing"
    <3>1. job'[next] = Leasing(job[next], t)
      BY <1>1, <2>1 DEF ClaimWith
    <3>2. job[next] \in JobRecord
      BY <1>4, <2>1
    <3> QED
      BY <3>1, <3>2, RecordFields
  <2>4. \A j \in Job \ {next} : job'[j].status = g[j].status
    BY <1>10
  <2>5. /\ Number(job', "queued") = Number(g, "queued") - 1
        /\ Number(job', "processing") = Number(g, "processing") + 1
        /\ \A s : s # "processing" /\ s # "queued" => Number(job', s) = Number(g, s)
    <3>1. Moves(g, job', next, "queued", "processing")
      BY <2>1, <2>2, <2>3, <2>4 DEF Moves
    <3> QED
      BY <3>1, NumberMove
  <2>6. counts' = Shift(c, "queued", "processing", 1)
    BY <1>1, <1>2, <1>3, <1>6, <1>12 DEF ClaimWith
  <2>7. /\ counts'["queued"] = c["queued"] - 1
        /\ counts'["processing"] = c["processing"] + 1
        /\ counts'["completed"] = c["completed"] /\ counts'["error"] = c["error"]
        /\ c["queued"] \in Int /\ c["processing"] \in Int
    BY <1>9, <2>6 DEF Shift, Live, Pending, Finished
  <2> QED
    BY <1>9, <2>5, <2>7, LimitsAssumption DEF Counted, Live, Pending, Finished
<1> QED
  BY <1>11, <1>12

\* A processing job moves to another status, the counters with it.
LEMMA MoveCounted ==
    ASSUME Types, Counted, NEW j, NEW dest \in Live,
           Moves(job, job', j, "processing", dest),
           counts' = Shift(counts, "processing", dest, 1)
    PROVE  Counted'
<1>1. job \in [Job -> JobRecord] /\ counts \in [Live -> Int]
  BY DEF Types, TypeOK
<1>2. dest # "processing"
  BY DEF Moves
<1>3. /\ Number(job', "processing") = Number(job, "processing") - 1
      /\ Number(job', dest) = Number(job, dest) + 1
      /\ \A s : s # dest /\ s # "processing" => Number(job', s) = Number(job, s)
  BY NumberMove
<1>4. /\ counts'["processing"] = counts["processing"] - 1
      /\ counts'[dest] = counts[dest] + 1
      /\ \A s \in Live : s # dest /\ s # "processing" => counts'[s] = counts[s]
  BY <1>1, <1>2 DEF Shift, Live, Pending
<1>5. \A s \in Live : counts'[s] = Number(job', s)
  BY <1>1, <1>3, <1>4 DEF Counted, Live, Pending
<1>6. counts'["queued"] + counts'["processing"] <= MaxPendingJobs
  <2>1. counts["queued"] \in Int /\ counts["processing"] \in Int
    BY <1>1 DEF Live, Pending
  <2>2. CASE dest = "queued"
    BY <1>4, <2>1, <2>2, LimitsAssumption DEF Counted
  <2>3. CASE dest # "queued"
    BY <1>4, <2>1, <2>3, LimitsAssumption DEF Counted, Live, Pending
  <2> QED
    BY <2>2, <2>3
<1> QED
  BY <1>5, <1>6 DEF Counted

LEMMA WorkerCounted ==
    ASSUME Types, Counted, NEW j \in Job, NEW k, NEW t, WorkerNext(j, k, t)
    PROVE  Counted'
<1>1. job[j].status = "processing"
  BY DEF WorkerNext, Heartbeat, FinishResult, FinishRetry, FinishError, Leased
<1>2. job \in [Job -> JobRecord] /\ job[j] \in JobRecord
  BY DEF Types, TypeOK
<1>3. {"queued", "completed", "error"} \subseteq Live
  BY DEF Live, Pending, Finished
<1>4. CASE Heartbeat(j, k, t)
  <2>1. \A i \in Job : job'[i].status = job[i].status
    BY <1>2, <1>4 DEF Heartbeat, JobRecord
  <2>2. \A s : Number(job', s) = Number(job, s)
    BY <2>1, NumberSame
  <2> QED
    BY <1>4, <2>2 DEF Heartbeat, Counted
<1>5. CASE FinishResult(j, k, t)
  <2>1. PICK r : r = [SetStatus(job[j], "completed") EXCEPT
                         !.result = k, !.updated = t]
    OBVIOUS
  <2>2. r.status = "completed"
    BY <1>2, <2>1 DEF JobRecord, SetStatus
  <2>3. Moves(job, job', j, "processing", "completed")
        /\ counts' = Shift(counts, "processing", "completed", 1)
    BY <1>1, <1>2, <1>5, <2>1, <2>2 DEF FinishResult, Settle, Moves
  <2> QED
    BY <1>3, <2>3, MoveCounted
<1>6. CASE FinishRetry(j, k, t)
  <2>1. PICK r : r = SetStatus(job[j], "queued")
    OBVIOUS
  <2>2. r.status = "queued"
    BY <1>2, <2>1, RecordFields
  <2>3. Moves(job, job', j, "processing", "queued")
        /\ counts' = Shift(counts, "processing", "queued", 1)
    BY <1>1, <1>2, <1>6, <2>1, <2>2 DEF FinishRetry, Moves
  <2> QED
    BY <1>3, <2>3, MoveCounted
<1>7. CASE \E retry \in BOOLEAN : FinishError(j, k, t, retry)
  <2>1. PICK r : r = Fail(job[j], "reported", t)
    OBVIOUS
  <2>2. r.status = "error"
    BY <1>2, <2>1, RecordFields
  <2>3. Moves(job, job', j, "processing", "error")
        /\ counts' = Shift(counts, "processing", "error", 1)
    BY <1>1, <1>2, <1>7, <2>1, <2>2 DEF FinishError, Settle, Moves
  <2> QED
    BY <1>3, <2>3, MoveCounted
<1> QED
  BY <1>4, <1>5, <1>6, <1>7 DEF WorkerNext

LEMMA CleanupLockedCounted ==
    ASSUME Types, Links, Counted, NEW t, CleanupLocked(t)
    PROVE  Counted'
<1>1. job \in [Job -> JobRecord] /\ counts \in [Live -> Int]
  BY DEF Types, TypeOK
<1>2. PICK A : A = Aged(t)
  OBVIOUS
<1>3. PICK D : D = [s \in Live |-> {j \in A \cup Old(t) : job[j].status = s}]
  OBVIOUS
<1>4. /\ A \subseteq Job /\ \A j \in A : job[j].status \in Pending
      /\ Old(t) \subseteq Job /\ \A j \in Old(t) : job[j].status \in Finished
  BY <1>2, CleanupEffect
<1>5. /\ \A j \in A : job'[j].status = "error"
      /\ \A j \in Old(t) : job'[j].status = "gone"
      /\ \A j \in Job : j \notin A /\ j \notin Old(t) => job'[j] = job[j]
  BY <1>2, CleanupEffect DEF NoRecord
<1>6. counts' = [s \in Live |-> counts[s] - Cardinality(D[s])
                              + IF s = "error" THEN Cardinality(A) ELSE 0]
  BY <1>2, <1>3 DEF CleanupLocked, Old
<1>7. ASSUME NEW s \in Live
      PROVE  /\ D[s] \subseteq In(job, s)
             /\ IsFiniteSet(D[s]) /\ Cardinality(D[s]) \in Nat
  <2>1. D[s] \subseteq In(job, s)
    BY <1>3, <1>4 DEF In
  <2> QED
    BY <2>1, NumberNat, FS_Subset, FS_CardinalityType
<1>8. IsFiniteSet(A) /\ Cardinality(A) \in Nat
  BY <1>4, IdentifiersAssumption, FS_Subset, FS_CardinalityType
<1>9. ASSUME NEW s \in Live, s # "error"
      PROVE  Number(job', s) = Number(job, s) - Cardinality(D[s])
  <2>1. In(job', s) = In(job, s) \ D[s]
    BY <1>3, <1>4, <1>5, <1>9 DEF In, Live, Pending, Finished
  <2>2. In(job, s) \cap D[s] = D[s]
    BY <1>7
  <2>3. IsFiniteSet(In(job, s))
    BY NumberNat
  <2> QED
    BY <2>1, <2>2, <2>3, FS_Difference DEF Number
<1>10. Number(job', "error") =
         Number(job, "error") - Cardinality(D["error"]) + Cardinality(A)
  <2>1. PICK s \in Live : s = "error"
    BY DEF Live, Finished
  <2>2. In(job', s) = (In(job, s) \ D[s]) \cup A
    BY <1>3, <1>4, <1>5, <2>1 DEF In, Live, Pending, Finished
  <2>3. A \cap In(job, s) = {}
    BY <1>4, <2>1 DEF In, Pending
  <2>4. IsFiniteSet(In(job, s)) /\ D[s] \subseteq In(job, s)
    BY <1>7, NumberNat
  <2>5. Cardinality((In(job, s) \ D[s]) \cup A) =
          Cardinality(In(job, s)) - Cardinality(D[s]) + Cardinality(A)
    BY <1>8, <2>3, <2>4, CardinalityChange
  <2> QED
    BY <2>1, <2>2, <2>5 DEF Number
<1>11. \A s \in Live : counts'[s] = Number(job', s)
  <2> SUFFICES ASSUME NEW s \in Live PROVE counts'[s] = Number(job', s)
    OBVIOUS
  <2>1. counts[s] = Number(job, s) /\ counts[s] \in Int
    BY <1>1 DEF Counted
  <2>2. CASE s = "error"
    BY <1>6, <1>10, <2>1, <2>2
  <2>3. CASE s # "error"
    BY <1>6, <1>7, <1>9, <2>1, <2>3
  <2> QED
    BY <2>2, <2>3
<1>12. counts'["queued"] + counts'["processing"] <= MaxPendingJobs
  <2>1. PICK q, p : q = "queued" /\ p = "processing" /\ q \in Live /\ p \in Live
    BY DEF Live, Pending
  <2>2. /\ counts'[q] = counts[q] - Cardinality(D[q])
        /\ counts'[p] = counts[p] - Cardinality(D[p])
    BY <1>1, <1>6, <1>7, <2>1
  <2>3. /\ Cardinality(D[q]) \in Nat /\ Cardinality(D[p]) \in Nat
        /\ counts[q] \in Int /\ counts[p] \in Int
        /\ counts[q] + counts[p] <= MaxPendingJobs
    BY <1>1, <1>7, <2>1 DEF Counted
  <2> QED
    BY <2>1, <2>2, <2>3, LimitsAssumption
<1> QED
  BY <1>11, <1>12 DEF Counted

LEMMA StepCounted ==
    ASSUME Types, Links, Counted, [Next]_vars
    PROVE  Counted'
<1>1. CASE \E u \in Upload : SaveNext(u) \/ DiscardUpload(u)
  BY <1>1 DEF SaveNext, SaveBegin, SaveWrite, SaveEOF, SaveDrop, SaveReject,
              SaveCommit, DiscardUpload, Counted
<1>2. CASE \E j \in Job : Delete(j)
  BY <1>2, DeleteCounted
<1>3. CASE \E u \in Upload, j \in Job, t \in RecentPast : Submit(u, j, t)
  BY <1>3, SubmitCounted
<1>4. CASE \E t \in RecentPast : Claim(t)
  BY <1>4, ClaimCounted
<1>5. CASE \E j \in Job : \E k \in Issued(j), t \in RecentPast :
             WorkerNext(j, k, t)
  BY <1>5, WorkerCounted
<1>6. CASE \E t \in RecentPast : CleanupLocked(t)
  BY <1>6, CleanupLockedCounted
<1>7. CASE SweepNext
  BY <1>7 DEF SweepNext, CleanupList, CleanupEntry, CleanupRemove,
              CleanupReturn, Counted
<1>8. CASE New
  <2>1. \A s \in Live : In(job', s) = {}
    BY <1>8 DEF New, In, NoRecord, Live, Pending, Finished
  <2>2. \A s \in Live : Number(job', s) = 0
    BY <2>1, FS_EmptySet DEF Number
  <2>3. {"queued", "processing"} \subseteq Live
    BY DEF Live, Pending
  <2> QED
    BY <1>8, <2>2, <2>3, LimitsAssumption DEF New, Counted
<1>9. CASE Tick
  BY <1>9 DEF Tick, Counted
<1>10. CASE UNCHANGED vars
  BY <1>10 DEF vars, Counted
<1> QED
  BY <1>1, <1>2, <1>3, <1>4, <1>5, <1>6, <1>7, <1>8, <1>9, <1>10 DEF Next

\* The counters of Store are the numbers of its jobs, and the limit of pending
\* jobs holds, whatever the callers do.
THEOREM CountsAreExact == Spec => []CountsExact
<1>1. Init => Types /\ Links /\ Counted
  BY InitTypes, InitLinks, InitCounted
<1>2. Types /\ Links /\ Counted /\ [Next]_vars => (Types /\ Links /\ Counted)'
  BY StepTypes, StepLinks, StepCounted
<1>3. Types /\ Links /\ Counted => CountsExact
  BY CountedIsCountsExact
<1> QED
  BY <1>1, <1>2, <1>3, PTL DEF Spec

-----------------------------------------------------------------------------
(* What Store implements *)

\* Every job moves as JobLifecycle lets it.
LEMMA StepLifecycle ==
    ASSUME Types, Ordered, [Next]_vars, NEW j \in Job
    PROVE  Lifecycle!Keeps(j) \/ Lifecycle!JobStep(j)
<1> USE DEF Live, Pending, Finished, Lifecycle!Waits, Lifecycle!Held, Lifecycle!Open,
            Lifecycle!Exists, Lifecycle!JobStep
<1>1. job[j] \in JobRecord /\ MovesOn(j)
  BY StepMoves DEF Types, TypeOK
<1>2. CASE job'[j] = job[j]
  BY <1>2 DEF Lifecycle!Keeps
<1>3. CASE IsEntered(j)
  <2>1. /\ job'[j].status = "queued" /\ job'[j].attempts = 0 /\ job'[j].result = 0
        /\ job'[j].seq = seq + 1
    BY <1>3 DEF IsEntered, Submitted, SetStatus, NoRecord
  <2>2. \A i \in Job : job[i].status \notin {"unborn", "gone"} => job[i].seq < seq + 1
    BY DEF Ordered, Types, TypeOK, JobRecord
  <2> QED
    BY <1>3, <2>1, <2>2 DEF IsEntered, Lifecycle!Enqueue
<1>4. CASE IsTaken(j)
  <2>1. job[j].status \in Pending /\ job[j].attempts < MaxAttempts
    BY <1>4, TakenFacts DEF IsTaken, Oldest
  <2>2. /\ job'[j].status = "processing" /\ job'[j].attempts = job[j].attempts + 1
        /\ job'[j].result = job[j].result /\ job'[j].seq = job[j].seq
    BY <1>1, <1>4 DEF IsTaken, Leasing, SetStatus, JobRecord
  <2> QED
    BY <2>1, <2>2 DEF Lifecycle!Take
<1>5. CASE IsRenewed(j)
  BY <1>1, <1>5 DEF IsRenewed, JobRecord, Lifecycle!Keeps
<1>6. CASE IsReturned(j)
  <2>1. /\ job'[j].status = "queued" /\ job'[j].attempts = job[j].attempts
        /\ job'[j].result = job[j].result /\ job'[j].seq = job[j].seq
    BY <1>1, <1>6 DEF IsReturned, SetStatus, JobRecord
  <2> QED
    BY <1>6, <2>1 DEF IsReturned, Lifecycle!Return
<1>7. CASE IsCompleted(j)
  <2>1. /\ job'[j].status = "completed" /\ job'[j].attempts = job[j].attempts
        /\ job'[j].result = job[j].attempts /\ job'[j].seq = job[j].seq
    BY <1>1, <1>7 DEF IsCompleted, SetStatus, JobRecord
  <2> QED
    BY <1>7, <2>1 DEF IsCompleted, Lifecycle!Complete
<1>8. CASE IsFailed(j)
  <2>1. /\ job'[j].status = "error" /\ job'[j].attempts = job[j].attempts
        /\ job'[j].result = job[j].result /\ job'[j].seq = job[j].seq
    BY <1>1, <1>8 DEF IsFailed, Fail, SetStatus, JobRecord
  <2> QED
    BY <1>8, <2>1 DEF IsFailed, Lifecycle!GiveUp
<1>9. CASE IsRemoved(j)
  BY <1>9 DEF IsRemoved, NoRecord, Lifecycle!Remove
<1> QED
  BY <1>1, <1>2, <1>3, <1>4, <1>5, <1>6, <1>7, <1>8, <1>9 DEF MovesOn

\* The jobs that are pending are the queued ones and the processing ones.
LEMMA PendingLimited ==
    ASSUME NEW f, Number(f, "queued") + Number(f, "processing") <= MaxPendingJobs
    PROVE  Cardinality({j \in Job : f[j].status \in {"queued", "processing"}})
             <= MaxPendingJobs
<1>1. IsFiniteSet(In(f, "queued")) /\ IsFiniteSet(In(f, "processing"))
  BY NumberNat
<1>2. Cardinality(In(f, "queued") \cup In(f, "processing"))
        = Number(f, "queued") + Number(f, "processing")
          - Cardinality(In(f, "queued") \cap In(f, "processing"))
  BY <1>1, FS_Union DEF Number
<1>3. In(f, "queued") \cap In(f, "processing") = {}
  BY DEF In
<1>4. Cardinality(In(f, "queued") \cap In(f, "processing")) = 0
  BY <1>3, FS_EmptySet
<1>5. {j \in Job : f[j].status \in {"queued", "processing"}}
        = In(f, "queued") \cup In(f, "processing")
  BY DEF In
<1>6. Number(f, "queued") \in Nat /\ Number(f, "processing") \in Nat
  BY NumberNat
<1>7. Number(f, "queued") + Number(f, "processing")
        - Cardinality(In(f, "queued") \cap In(f, "processing")) <= MaxPendingJobs
  BY <1>4, <1>6
<1>8. Cardinality(In(f, "queued") \cup In(f, "processing")) <= MaxPendingJobs
  BY <1>2, <1>7
<1> HIDE DEF In
<1> QED
  BY <1>5, <1>8, Zenon

\* The queue, with its leases and clocks, is one of jobs that wait, are attempted
\* one attempt after the other, oldest first, and end at most once.
THEOREM StoreImplementsLifecycle == Spec => ImplementsLifecycle
<1>1. Init => Lifecycle!Init
  BY DEF Init, NoRecord, Lifecycle!Init
<1>2. Init => Types /\ Links /\ Counted /\ Ordered
  BY InitTypes, InitLinks, InitCounted, InitOrdered
<1>3. Types /\ Links /\ Counted /\ Ordered /\ [Next]_vars
        => (Types /\ Links /\ Counted /\ Ordered)'
  BY StepTypes, StepLinks, StepCounted, StepOrdered
<1>4. ASSUME Types, Ordered, Counted', [Next]_vars
      PROVE  Lifecycle!Next
  <2>1. \A j \in Job : Lifecycle!Keeps(j) \/ Lifecycle!JobStep(j)
    BY <1>4, StepLifecycle
  <2>2. ASSUME NEW j \in Job, NEW i \in Job, job'[j].attempts > job[j].attempts
        PROVE  /\ i # j => job'[i].attempts <= job[i].attempts
               /\ job'[i].status = "queued" => job[j].seq < job[i].seq
    <3>1. IsTaken(j)
      BY <1>4, <2>2, StepAttempts
    <3>2. i # j => job'[i].attempts = job[i].attempts
      BY <1>4, <3>1, ClaimLeaves DEF IsTaken
    <3>3. job[i].attempts \in Nat
      BY <1>4 DEF Types, TypeOK, JobRecord
    <3> QED
      BY <1>4, <3>1, <3>2, <3>3, StepTakes
  <2>3. Number(job', "queued") + Number(job', "processing") <= MaxPendingJobs
    BY <1>4 DEF Counted, Live, Pending, Number, In
  <2>4. Cardinality({j \in Job : job'[j].status \in {"queued", "processing"}})
          <= MaxPendingJobs
    BY <2>3, PendingLimited
  <2>5. \A j, i \in Job :
          [n \in Job |-> job[n].attempts]'[j] > [n \in Job |-> job[n].attempts][j] =>
            /\ i # j => [n \in Job |-> job[n].attempts]'[i]
                          <= [n \in Job |-> job[n].attempts][i]
            /\ [n \in Job |-> job[n].status]'[i] = "queued" =>
                 [n \in Job |-> job[n].seq][j] < [n \in Job |-> job[n].seq][i]
    BY <2>2
  <2>6. {j \in Job : [n \in Job |-> job[n].status]'[j] \in {"queued", "processing"}}
          = {j \in Job : job'[j].status \in {"queued", "processing"}}
    OBVIOUS
  <2>7. Cardinality({j \in Job : [n \in Job |-> job[n].status]'[j]
                                   \in {"queued", "processing"}})
          <= MaxPendingJobs
    BY <2>4, <2>6, Zenon
  <2>8. \A S : Lifecycle!Cardinality(S) = Cardinality(S)
    BY Zenon DEF Lifecycle!Cardinality, Cardinality
  <2> QED
    BY <2>1, <2>5, <2>7, <2>8, Zenon DEF Lifecycle!Next
<1> QED
  BY <1>1, <1>2, <1>3, <1>4, PTL DEF Spec, ImplementsLifecycle, Lifecycle!Spec

-----------------------------------------------------------------------------
(* The quota *)

\* The bytes held by the uploads of S when f gives the records, one by one.
Units(f, S) == {p \in S \X (1 .. MaxUploadBytes) : p[2] <= Held(f[p[1]])}

LEMMA HeldType ==
    ASSUME NEW r \in UploadRecord
    PROVE  Held(r) \in 0 .. MaxUploadBytes
BY LimitsAssumption DEF Held, UploadRecord

LEMMA UnitsFinite ==
    ASSUME NEW f, NEW S, S \subseteq Upload
    PROVE  IsFiniteSet(Units(f, S)) /\ Cardinality(Units(f, S)) \in Nat
<1>1. IsFiniteSet(S) /\ IsFiniteSet(1 .. MaxUploadBytes)
  BY IdentifiersAssumption, LimitsAssumption, FS_Subset, FS_Interval
<1>2. IsFiniteSet(S \X (1 .. MaxUploadBytes))
  BY <1>1, FS_Product
<1>3. IsFiniteSet(Units(f, S))
  BY <1>2, FS_Subset DEF Units
<1> QED
  BY <1>3, FS_CardinalityType

\* One upload holds as many units as it holds bytes.
LEMMA UnitsOfOne ==
    ASSUME NEW f, NEW u \in Upload, Held(f[u]) \in 0 .. MaxUploadBytes
    PROVE  Cardinality(Units(f, {u})) = Held(f[u])
<1>1. PICK n : n = Held(f[u])
  OBVIOUS
<1>2. n \in 0 .. MaxUploadBytes
  BY <1>1
<1>3. Units(f, {u}) = {u} \X (1 .. n)
  BY <1>1, <1>2, LimitsAssumption DEF Units
<1>4. /\ IsFiniteSet({u}) /\ Cardinality({u}) = 1
      /\ IsFiniteSet(1 .. n) /\ Cardinality(1 .. n) = n
  <2>1. n \in Int /\ 1 \in Int /\ n >= 0
    BY <1>2, LimitsAssumption
  <2>2. /\ IsFiniteSet(1 .. n)
        /\ Cardinality(1 .. n) = IF 1 > n THEN 0 ELSE n - 1 + 1
    BY <2>1, FS_Interval
  <2>3. IsFiniteSet({u}) /\ Cardinality({u}) = 1
    BY FS_Singleton
  <2> QED
    BY <2>1, <2>2, <2>3
<1>5. Cardinality({u} \X (1 .. n)) = Cardinality({u}) * Cardinality(1 .. n)
  BY <1>4, FS_Product
<1>6. Cardinality({u} \X (1 .. n)) = n
  BY <1>2, <1>4, <1>5, LimitsAssumption
<1> QED
  BY <1>1, <1>3, <1>6

\* The uploads of S, and no others, change what they hold.
Rehold(f, g, S) ==
    /\ S \subseteq Upload
    /\ \A v \in Upload \ S : Held(g[v]) = Held(f[v])

LEMMA UnitsChange ==
    ASSUME NEW f, NEW g, NEW S, Rehold(f, g, S)
    PROVE  Cardinality(Units(g, Upload)) =
             Cardinality(Units(f, Upload)) - Cardinality(Units(f, S))
             + Cardinality(Units(g, S))
<1>1. Units(f, S) \subseteq Units(f, Upload)
  BY DEF Units, Rehold
<1>2. Units(g, Upload) = (Units(f, Upload) \ Units(f, S)) \cup Units(g, S)
  BY DEF Units, Rehold
<1>3. (Units(f, Upload) \ Units(f, S)) \cap Units(g, S) = {}
  BY DEF Units, Rehold
<1>4. /\ IsFiniteSet(Units(f, Upload)) /\ IsFiniteSet(Units(f, S))
      /\ IsFiniteSet(Units(g, S))
  BY UnitsFinite DEF Rehold
<1>5. PICK F, D, A, G : /\ F = Units(f, Upload) /\ D = Units(f, S)
                       /\ A = Units(g, S) /\ G = Units(g, Upload)
  OBVIOUS
<1>6. /\ IsFiniteSet(F) /\ IsFiniteSet(D) /\ IsFiniteSet(A)
      /\ F \cap D = D /\ G = (F \ D) \cup A /\ (F \ D) \cap A = {}
  BY <1>1, <1>2, <1>3, <1>4, <1>5
<1>7. /\ IsFiniteSet(F \ D)
      /\ Cardinality(F \ D) = Cardinality(F) - Cardinality(F \cap D)
  BY <1>6, FS_Difference
<1>8. Cardinality((F \ D) \cup A) =
        Cardinality(F \ D) + Cardinality(A) - Cardinality((F \ D) \cap A)
  BY <1>6, <1>7, FS_Union
<1>9. /\ Cardinality((F \ D) \cap A) = 0
      /\ Cardinality(F) \in Nat /\ Cardinality(D) \in Nat
      /\ Cardinality(A) \in Nat
  BY <1>6, FS_EmptySet, FS_CardinalityType
<1>10. Cardinality(G) = Cardinality(F) - Cardinality(D) + Cardinality(A)
  <2>1. Cardinality(G) = Cardinality((F \ D) \cup A)
    BY <1>6
  <2>2. Cardinality(F \cap D) = Cardinality(D)
    BY <1>6
  <2> QED
    BY <2>1, <2>2, <1>7, <1>8, <1>9
<1> QED
  BY <1>5, <1>10

\* One upload changes what it holds.
LEMMA UnitsChangeOne ==
    ASSUME NEW f, NEW g, NEW u, Rehold(f, g, {u}),
           Held(f[u]) \in 0 .. MaxUploadBytes, Held(g[u]) \in 0 .. MaxUploadBytes
    PROVE  Cardinality(Units(g, Upload)) =
             Cardinality(Units(f, Upload)) - Held(f[u]) + Held(g[u])
<1>1. u \in Upload
  BY DEF Rehold
<1>2. /\ Cardinality(Units(f, {u})) = Held(f[u])
      /\ Cardinality(Units(g, {u})) = Held(g[u])
  BY <1>1, UnitsOfOne
<1> QED
  BY <1>2, UnitsChange

\* The uploads of S give up all they hold.
LEMMA UnitsRelease ==
    ASSUME NEW f, NEW g, NEW S, Rehold(f, g, S), \A u \in S : Held(g[u]) = 0
    PROVE  Cardinality(Units(g, Upload)) =
             Cardinality(Units(f, Upload)) - Cardinality(Units(f, S))
<1>1. Units(g, S) = {}
  BY LimitsAssumption DEF Units
<1>2. Cardinality(Units(g, S)) = 0
  BY <1>1, FS_EmptySet
<1>3. /\ Cardinality(Units(f, Upload)) \in Nat
      /\ Cardinality(Units(f, S)) \in Nat
  BY UnitsFinite DEF Rehold
<1> QED
  BY <1>2, <1>3, UnitsChange

Accounted ==
    /\ used = Cardinality(Units(upload, Upload))
    /\ used <= MaxStorageBytes

LEMMA AccountedIsQuotaExact == Accounted <=> QuotaExact
BY DEF Accounted, QuotaExact, HeldBytes, Units

\* What release and removeUpload give back for stored uploads is what they hold.
LEMMA ChargedIsHeld ==
    ASSUME NEW S, S \subseteq Upload, \A u \in S : upload[u].state = "stored"
    PROVE  ChargedBytes(S) = Cardinality(Units(upload, S))
<1>1. \A u \in S : Held(upload[u]) = upload[u].bytes
  BY DEF Held, Saving
<1>2. Units(upload, S) =
        {p \in S \X (1 .. MaxUploadBytes) : p[2] <= upload[p[1]].bytes}
  BY <1>1 DEF Units
<1> QED
  BY <1>2 DEF ChargedBytes

\* A step of one upload that books the difference keeps the account.
LEMMA OneAccounted ==
    ASSUME Types, Types', Accounted, NEW u, Rehold(upload, upload', {u}),
           used' - used = Held(upload'[u]) - Held(upload[u]),
           used' <= MaxStorageBytes
    PROVE  Accounted'
<1>1. u \in Upload
  BY DEF Rehold
<1>2. upload[u] \in UploadRecord /\ upload'[u] \in UploadRecord
      /\ used \in Int /\ used' \in Int
  BY <1>1 DEF Types, TypeOK
<1>3. /\ Held(upload[u]) \in 0 .. MaxUploadBytes
      /\ Held(upload'[u]) \in 0 .. MaxUploadBytes
  BY <1>2, HeldType
<1>4. Cardinality(Units(upload', Upload)) =
        Cardinality(Units(upload, Upload)) - Held(upload[u]) + Held(upload'[u])
  BY <1>3, UnitsChangeOne
<1> QED
  BY <1>2, <1>3, <1>4, LimitsAssumption DEF Accounted

\* The uploads of S, all stored, give up their charges.
LEMMA ReleaseAccounted ==
    ASSUME Types, Accounted, NEW S, Rehold(upload, upload', S),
           \A u \in S : upload[u].state = "stored",
           \A u \in S : Held(upload'[u]) = 0,
           used' = used - ChargedBytes(S)
    PROVE  Accounted'
<1>1. ChargedBytes(S) = Cardinality(Units(upload, S))
  BY ChargedIsHeld DEF Rehold
<1>2. Cardinality(Units(upload, S)) \in Nat
  BY UnitsFinite DEF Rehold
<1>3. Cardinality(Units(upload', Upload)) =
        Cardinality(Units(upload, Upload)) - Cardinality(Units(upload, S))
  BY UnitsRelease
<1>4. used \in Int
  BY DEF Types, TypeOK
<1> QED
  BY <1>1, <1>2, <1>3, <1>4, LimitsAssumption DEF Accounted

LEMMA SaveAccounted ==
    ASSUME Types, Types', Links, Accounted, NEW u \in Upload,
           SaveNext(u) \/ DiscardUpload(u)
    PROVE  Accounted'
<1>1. /\ upload \in [Upload -> UploadRecord] /\ upload[u] \in UploadRecord
      /\ upload'[u] \in UploadRecord /\ used \in Int
  BY DEF Types, TypeOK
<1>2. \A v \in Upload \ {u} : upload'[v] = upload[v]
  BY <1>1 DEF SaveNext, SaveBegin, SaveWrite, SaveEOF, SaveDrop, SaveReject,
             SaveCommit, DiscardUpload
<1>3. Rehold(upload, upload', {u})
  BY <1>2 DEF Rehold
<1>4. Held(upload[u]) \in 0 .. MaxUploadBytes
  BY <1>1, HeldType
<1>5. used <= MaxStorageBytes
  BY DEF Accounted
<1>6. /\ used' - used = Held(upload'[u]) - Held(upload[u])
      /\ used' <= MaxStorageBytes
  <2>1. CASE SaveBegin(u)
    <3>1. Held(upload[u]) = 0
      BY <2>1 DEF SaveBegin, Held, Saving, Links, EntriesOK
    <3>2. Held(upload'[u]) = MaxUploadBytes
      BY <2>1, <1>1 DEF SaveBegin, NoEntry, Held, Saving
    <3> QED
      BY <2>1, <1>1, <3>1, <3>2, LimitsAssumption DEF SaveBegin
  <2>2. CASE SaveWrite(u)
    <3>1. upload[u].state \in Saving /\ upload'[u].state \in Saving /\ used' = used
      BY <2>2, <1>1 DEF SaveWrite, UploadRecord, Saving
    <3> QED
      BY <1>1, <1>5, <3>1, LimitsAssumption DEF Held
  <2>3. CASE \E n \in Size : SaveEOF(u, n)
    <3>1. PICK n \in Size : SaveEOF(u, n)
      BY <2>3
    <3>2. upload'[u] = [upload[u] EXCEPT !.state = "written", !.size = n]
      BY <3>1, <1>1 DEF SaveEOF
    <3>3. upload[u].state \in Saving /\ used' = used
      BY <3>1 DEF SaveEOF, Saving
    <3>4. upload'[u].state \in Saving
      BY <1>1, <3>2 DEF UploadRecord, Saving
    <3> QED
      BY <1>1, <1>5, <3>3, <3>4, LimitsAssumption DEF Held
  <2>4. CASE SaveDrop(u)
    <3>1. upload[u].state \in Saving /\ upload'[u].state \in Saving /\ used' = used
      BY <2>4, <1>1 DEF SaveDrop, UploadRecord, Saving
    <3> QED
      BY <1>1, <1>5, <3>1, LimitsAssumption DEF Held
  <2>5. CASE SaveReject(u)
    <3>1. Held(upload[u]) = MaxUploadBytes
      BY <2>5 DEF SaveReject, Held, Saving
    <3>2. Held(upload'[u]) = 0
      BY <2>5, <1>1 DEF SaveReject, NoEntry, Held, Saving
    <3> QED
      BY <2>5, <1>1, <1>5, <3>1, <3>2, LimitsAssumption DEF SaveReject
  <2>6. CASE SaveCommit(u)
    <3>1. PICK n : n = Charge(upload[u].size)
      OBVIOUS
    <3>2. n \in 1 .. MaxUploadBytes
      BY <2>6, <1>1, <3>1, ChargeType DEF SaveCommit, UploadRecord
    <3>3. Held(upload[u]) = MaxUploadBytes
      BY <2>6 DEF SaveCommit, Held, Saving
    <3>4. upload'[u] = [upload[u] EXCEPT !.state = "stored", !.bytes = n,
                                         !.created = clock]
      BY <2>6, <1>1, <3>1 DEF SaveCommit
    <3>5. Held(upload'[u]) = n
      BY <1>1, <3>4 DEF UploadRecord, Held, Saving
    <3>6. used' = used - MaxUploadBytes + n
      BY <2>6, <3>1 DEF SaveCommit
    <3> QED
      BY <1>1, <1>5, <3>2, <3>3, <3>5, <3>6, LimitsAssumption
  <2>7. CASE DiscardUpload(u)
    <3>1. Held(upload[u]) = upload[u].bytes
      BY <2>7 DEF DiscardUpload, Held, Saving
    <3>2. Held(upload'[u]) = 0
      BY <2>7, <1>1 DEF DiscardUpload, NoEntry, Held, Saving
    <3> QED
      BY <2>7, <1>1, <1>4, <1>5, <3>1, <3>2, LimitsAssumption DEF DiscardUpload
  <2> QED
    BY <2>1, <2>2, <2>3, <2>4, <2>5, <2>6, <2>7 DEF SaveNext
<1> QED
  BY <1>3, <1>6, OneAccounted

LEMMA SubmitAccounted ==
    ASSUME Types, Types', Accounted, NEW u \in Upload, NEW j, NEW t, Submit(u, j, t)
    PROVE  Accounted'
<1>1. upload \in [Upload -> UploadRecord] /\ upload[u] \in UploadRecord
      /\ used \in Int
  BY DEF Types, TypeOK
<1>2. Rehold(upload, upload', {u})
  BY <1>1 DEF Rehold, Submit
<1>3. Held(upload'[u]) = Held(upload[u])
  BY <1>1 DEF Submit, Held, UploadRecord
<1>4. Held(upload[u]) \in 0 .. MaxUploadBytes
  BY <1>1, HeldType
<1>5. used' = used /\ used' <= MaxStorageBytes
  BY DEF Submit, Accounted
<1>6. used' - used = Held(upload'[u]) - Held(upload[u])
  BY <1>1, <1>3, <1>4, <1>5, LimitsAssumption
<1> QED
  BY <1>2, <1>5, <1>6, OneAccounted

\* Delete, and an attempt that ends its job, give up the charge of one upload.
LEMMA OneReleaseAccounted ==
    ASSUME Types, Types', Accounted, NEW u \in Upload, upload[u].state = "stored",
           \A v \in Upload \ {u} : upload'[v] = upload[v],
           Held(upload'[u]) = 0, used' = used - upload[u].bytes
    PROVE  Accounted'
<1>1. upload[u] \in UploadRecord /\ used \in Int
  BY DEF Types, TypeOK
<1>2. Held(upload[u]) = upload[u].bytes /\ Held(upload[u]) \in 0 .. MaxUploadBytes
  BY <1>1, HeldType DEF Held, Saving
<1>3. Rehold(upload, upload', {u})
  BY DEF Rehold
<1>4. used' - used = Held(upload'[u]) - Held(upload[u]) /\ used' <= MaxStorageBytes
  BY <1>1, <1>2, LimitsAssumption DEF Accounted
<1> QED
  BY <1>3, <1>4, OneAccounted

LEMMA DeleteAccounted ==
    ASSUME Types, Types', Links, Accounted, NEW j \in Job, Delete(j)
    PROVE  Accounted'
<1>1. PICK u : u = job[j].upload
  OBVIOUS
<1>2. u \in Upload /\ upload[u].state = "stored"
  BY <1>1 DEF Delete, Links, LinksAgree
<1>3. upload \in [Upload -> UploadRecord]
  BY DEF Types, TypeOK
<1>4. upload' = [upload EXCEPT ![u] = NoEntry("gone")]
      /\ used' = used - upload[u].bytes
  BY <1>1 DEF Delete
<1>5. Held(upload'[u]) = 0 /\ \A v \in Upload \ {u} : upload'[v] = upload[v]
  BY <1>2, <1>3, <1>4 DEF NoEntry, Held, Saving
<1> QED
  BY <1>2, <1>4, <1>5, OneReleaseAccounted

LEMMA WorkerAccounted ==
    ASSUME Types, Types', Links, Accounted, NEW j \in Job, NEW k, NEW t,
           WorkerNext(j, k, t)
    PROVE  Accounted'
<1>1. job[j].status = "processing"
  BY DEF WorkerNext, Heartbeat, FinishResult, FinishRetry, FinishError, Leased
<1>2. PICK u : u = job[j].upload
  OBVIOUS
<1>3. u \in Upload /\ upload[u].state = "stored"
  BY <1>1, <1>2 DEF Links, LinksAgree, Live, Pending
<1>4. upload \in [Upload -> UploadRecord]
  BY DEF Types, TypeOK
<1>5. ASSUME NEW r, Settle(j, r)
      PROVE  Accounted'
  <2>1. upload' = [upload EXCEPT ![u].bytes = 0] /\ used' = used - upload[u].bytes
    BY <1>2, <1>5 DEF Settle
  <2>2. upload'[u] = [upload[u] EXCEPT !.bytes = 0]
        /\ \A v \in Upload \ {u} : upload'[v] = upload[v]
    BY <1>3, <1>4, <2>1
  <2>3. Held(upload'[u]) = 0
    BY <1>3, <1>4, <2>2 DEF Held, Saving, UploadRecord
  <2> QED
    BY <1>3, <2>1, <2>2, <2>3, OneReleaseAccounted
<1>6. CASE Heartbeat(j, k, t) \/ FinishRetry(j, k, t)
  BY <1>6 DEF Heartbeat, FinishRetry, Accounted
<1>7. CASE FinishResult(j, k, t) \/ \E retry \in BOOLEAN : FinishError(j, k, t, retry)
  BY <1>5, <1>7 DEF FinishResult, FinishError
<1> QED
  BY <1>6, <1>7 DEF WorkerNext

LEMMA ClaimAccounted ==
    ASSUME Types, Links, Accounted, NEW t, Claim(t)
    PROVE  Accounted'
<1>1. PICK next \in Job \cup {NoJob} :
         ClaimWith(next, t) /\ (next # NoJob => next \in Waiting(t))
  BY ClaimSets DEF Claim, Oldest
<1>2. PICK S : S = {job[j].upload : j \in Exhausted(t)}
  OBVIOUS
<1>3. S \subseteq Upload /\ \A u \in S : upload[u].state = "stored"
  BY <1>2, ClaimSets DEF Links, LinksAgree, Live, Pending
<1>4. /\ used' = used - ChargedBytes(S)
      /\ \A u \in Upload : upload'[u] = IF u \in S
                                       THEN [upload[u] EXCEPT !.bytes = 0]
                                       ELSE upload[u]
  BY <1>1, <1>2 DEF ClaimWith
<1>5. Rehold(upload, upload', S)
  BY <1>3, <1>4 DEF Rehold
<1>6. \A u \in S : Held(upload'[u]) = 0
  BY <1>3, <1>4 DEF Held, Saving, Types, TypeOK, UploadRecord
<1> QED
  BY <1>3, <1>4, <1>5, <1>6, ReleaseAccounted

LEMMA CleanupLockedAccounted ==
    ASSUME Types, Links, Accounted, NEW t, CleanupLocked(t)
    PROVE  Accounted'
<1>1. PICK R, M, S : /\ R = {job[j].upload : j \in Aged(t)}
                     /\ M = {job[j].upload : j \in Old(t)} \cup Abandoned(t)
                     /\ S = R \cup M
  OBVIOUS
<1>2. /\ Aged(t) \subseteq Job /\ \A j \in Aged(t) : job[j].status \in Live
      /\ Old(t) \subseteq Job /\ \A j \in Old(t) : job[j].status \in Live
  BY CleanupEffect DEF Live
<1>3. S \subseteq Upload /\ \A u \in S : upload[u].state = "stored"
  BY <1>1, <1>2 DEF Abandoned, Links, LinksAgree
<1>4. /\ used' = used - ChargedBytes(S)
      /\ \A u \in Upload : upload'[u] = IF u \in M THEN NoEntry("gone")
                                       ELSE IF u \in R
                                       THEN [upload[u] EXCEPT !.bytes = 0]
                                       ELSE upload[u]
  BY <1>1 DEF CleanupLocked, Old
<1>5. Rehold(upload, upload', S)
  BY <1>1, <1>3, <1>4 DEF Rehold
<1>6. Held(NoEntry("gone")) = 0
  BY DEF Held, Saving, NoEntry
<1>7. \A u \in R : upload[u].state = "stored" /\ u \in Upload
  BY <1>1, <1>3
<1>8. \A u \in S : Held(upload'[u]) = 0
  <2> SUFFICES ASSUME NEW u \in S PROVE Held(upload'[u]) = 0
    OBVIOUS
  <2>1. CASE u \in M
    BY <1>3, <1>4, <1>6, <2>1
  <2>2. CASE u \notin M
    <3>1. upload'[u] = [upload[u] EXCEPT !.bytes = 0] /\ upload[u].state = "stored"
          /\ upload[u] \in UploadRecord
      BY <1>1, <1>3, <1>4, <2>2 DEF Types, TypeOK
    <3> QED
      BY <3>1 DEF Held, Saving, UploadRecord
  <2> QED
    BY <2>1, <2>2
<1> QED
  BY <1>3, <1>4, <1>5, <1>8, ReleaseAccounted

LEMMA NothingHeld ==
    ASSUME NEW f, \A u \in Upload : Held(f[u]) = 0
    PROVE  Cardinality(Units(f, Upload)) = 0
<1>1. Units(f, Upload) = {}
  BY LimitsAssumption DEF Units
<1> QED
  BY <1>1, FS_EmptySet

LEMMA InitAccounted == Init => Accounted
<1> SUFFICES ASSUME Init PROVE Accounted
  OBVIOUS
<1>1. \A u \in Upload : Held(upload[u]) = 0
  BY DEF Init, NoEntry, Held, Saving
<1> QED
  BY <1>1, NothingHeld, LimitsAssumption DEF Init, Accounted

LEMMA StepAccounted ==
    ASSUME Types, Types', Links, Accounted, [Next]_vars
    PROVE  Accounted'
<1>1. CASE \E u \in Upload : SaveNext(u) \/ DiscardUpload(u)
  BY <1>1, SaveAccounted
<1>2. CASE \E j \in Job : Delete(j)
  BY <1>2, DeleteAccounted
<1>3. CASE \E u \in Upload, j \in Job, t \in RecentPast : Submit(u, j, t)
  BY <1>3, SubmitAccounted
<1>4. CASE \E t \in RecentPast : Claim(t)
  BY <1>4, ClaimAccounted
<1>5. CASE \E j \in Job : \E k \in Issued(j), t \in RecentPast :
             WorkerNext(j, k, t)
  BY <1>5, WorkerAccounted
<1>6. CASE \E t \in RecentPast : CleanupLocked(t)
  BY <1>6, CleanupLockedAccounted
<1>7. CASE SweepNext
  BY <1>7 DEF SweepNext, CleanupList, CleanupEntry, CleanupRemove,
              CleanupReturn, Accounted
<1>8. CASE New
  <2>1. \A u \in Upload : Held(upload'[u]) = 0
    BY <1>8 DEF New, NoEntry, Held, Saving, Links, EntriesOK
  <2>2. Cardinality(Units(upload', Upload)) = 0
    BY <2>1, NothingHeld
  <2> QED
    BY <1>8, <2>2, LimitsAssumption DEF New, Accounted
<1>9. CASE Tick
  BY <1>9 DEF Tick, Accounted
<1>10. CASE UNCHANGED vars
  BY <1>10 DEF vars, Accounted
<1> QED
  BY <1>1, <1>2, <1>3, <1>4, <1>5, <1>6, <1>7, <1>8, <1>9, <1>10 DEF Next

\* Store.used is the sum of what the uploads hold, and stays within the limit.
THEOREM QuotaIsExact == Spec => []QuotaExact
<1>1. Init => Types /\ Links /\ Accounted
  BY InitTypes, InitLinks, InitAccounted
<1>2. Types /\ Links /\ Accounted /\ [Next]_vars
      => (Types /\ Links /\ Accounted)'
  BY StepTypes, StepLinks, StepAccounted
<1>3. Types /\ Links /\ Accounted => QuotaExact
  BY AccountedIsQuotaExact
<1> QED
  BY <1>1, <1>2, <1>3, PTL DEF Spec

-----------------------------------------------------------------------------
(* Files *)

\* Uploads whose file nobody needs, now or later.
Dead(u) ==
    \/ upload[u].state \in {"dropped", "gone"}
    \/ upload[u].state = "stored" /\ upload[u].bytes = 0

FileOK(u) ==
    /\ upload[u].state \in {"unborn", "reserved"} => file[u] = Absent
    /\ upload[u].state \in {"writing", "written"} =>
          file[u] # Absent /\ upload[u].started <= file[u]
    /\ upload[u].state \in Saving =>
          upload[u].started <= clock /\ clock <= upload[u].started + MaxSave
    /\ upload[u].state = "stored" /\ upload[u].bytes > 0 =>
          /\ file[u] # Absent
          /\ \/ sweep.pc = "idle"
             \/ u \in sweep.known
             \/ sweep.now - file[u] <= StaleAge
    /\ sweep.doomed = u => Dead(u)

SweepOK ==
    /\ sweep.now <= clock
    /\ sweep.doomed # NoUpload => sweep.pc = "sweeping"

Filed == SweepOK /\ \A u \in Upload : FileOK(u)

LEMMA UnlinkEffect ==
    ASSUME NEW S, Unlink(S), NEW u \in Upload
    PROVE  /\ u \notin S => file'[u] = file[u]
           /\ file'[u] \in {file[u], Absent}
BY DEF Unlink

\* Nothing that FileOK(u) speaks of changes.
LEMMA FileKept ==
    ASSUME NEW u \in Upload, FileOK(u), UNCHANGED <<upload[u], file[u], sweep, clock>>
    PROVE  FileOK(u)'
BY DEF FileOK, Dead

\* An upload becomes dead, or stays so, whatever happens to its file.
LEMMA FileDead ==
    ASSUME NEW u \in Upload, FileOK(u), Dead(u)',
           upload'[u].state = "dropped" =>
              /\ upload[u].state \in Saving
              /\ upload'[u].started = upload[u].started /\ clock' = clock
    PROVE  FileOK(u)'
BY DEF FileOK, Dead, Saving

LEMMA InitFiled == Init => Filed
<1> SUFFICES ASSUME Init PROVE Filed
  OBVIOUS
<1>1. SweepOK
  BY DEF Init, NoSweep, SweepOK
<1>2. \A u \in Upload : FileOK(u)
  BY IdentifiersAssumption DEF Init, NoEntry, NoSweep, FileOK, Saving
<1> QED
  BY <1>1, <1>2 DEF Filed

LEMMA SaveFiled ==
    ASSUME Types, Types', Links, Filed, NEW u \in Upload,
           SaveNext(u) \/ DiscardUpload(u)
    PROVE  Filed'
<1>1. /\ upload \in [Upload -> UploadRecord] /\ upload[u] \in UploadRecord
      /\ file \in [Upload -> Time \cup {Absent}] /\ clock \in Time
      /\ sweep \in SweepRecord
  BY DEF Types, TypeOK
<1>2. UNCHANGED <<sweep, clock>>
  BY DEF SaveNext, SaveBegin, SaveWrite, SaveEOF, SaveDrop, SaveReject,
         SaveCommit, DiscardUpload
<1>3. FileOK(u) /\ SweepOK
  BY DEF Filed
<1>4. ASSUME NEW v \in Upload, v # u
      PROVE  FileOK(v)'
  <2>1. upload'[v] = upload[v]
    BY <1>1, <1>4 DEF SaveNext, SaveBegin, SaveWrite, SaveEOF, SaveDrop,
                      SaveReject, SaveCommit, DiscardUpload
  <2>2. file'[v] = file[v]
    BY <1>1, <1>4, UnlinkEffect
       DEF SaveNext, SaveBegin, SaveWrite, SaveEOF, SaveDrop, SaveReject,
           SaveCommit, DiscardUpload
  <2> QED
    BY <1>2, <2>1, <2>2, FileKept DEF Filed
<1>5. FileOK(u)'
  <2>1. CASE SaveBegin(u)
    <3>1. /\ upload[u].state = "unborn" /\ file' = file
          /\ upload'[u].state = "reserved" /\ upload'[u].started = clock
      BY <2>1, <1>1 DEF SaveBegin, NoEntry
    <3>2. clock <= clock + MaxSave
      BY <1>1, TimesAssumption DEF Time
    <3> QED
      BY <1>1, <1>2, <1>3, <3>1, <3>2 DEF FileOK, Dead, Time
  <2>2. CASE SaveWrite(u)
    <3>1. /\ upload[u].state \in {"reserved", "writing"}
          /\ upload'[u].state = "writing"
          /\ upload'[u].started = upload[u].started
          /\ file'[u] = clock
      BY <2>2, <1>1 DEF SaveWrite, UploadRecord
    <3>2. clock # Absent
      BY <1>1, TimesAssumption DEF Time, Absent
    <3> QED
      BY <1>2, <1>3, <3>1, <3>2 DEF FileOK, Dead, Saving
  <2>3. CASE \E n \in Size : SaveEOF(u, n)
    <3>1. PICK n \in Size : SaveEOF(u, n)
      BY <2>3
    <3>2. upload'[u] = [upload[u] EXCEPT !.state = "written", !.size = n]
      BY <3>1, <1>1 DEF SaveEOF
    <3>3. /\ upload[u].state = "writing" /\ upload'[u].state = "written"
          /\ upload'[u].started = upload[u].started /\ file' = file
      BY <3>1, <3>2, <1>1 DEF SaveEOF, UploadRecord
    <3> QED
      BY <1>2, <1>3, <3>3 DEF FileOK, Dead, Saving
  <2>4. CASE SaveDrop(u)
    <3>1. /\ upload[u].state \in Saving /\ upload'[u].state = "dropped"
          /\ upload'[u].started = upload[u].started
      BY <2>4, <1>1 DEF SaveDrop, UploadRecord, Saving
    <3>2. Dead(u)'
      BY <3>1 DEF Dead
    <3> QED
      BY <1>2, <1>3, <3>1, <3>2, FileDead
  <2>5. CASE SaveReject(u) \/ DiscardUpload(u)
    <3>1. upload'[u].state = "gone"
      BY <2>5, <1>1 DEF SaveReject, DiscardUpload, NoEntry
    <3>2. Dead(u)'
      BY <3>1 DEF Dead
    <3> QED
      BY <1>3, <3>1, <3>2, FileDead
  <2>6. CASE SaveCommit(u)
    <3>1. /\ upload[u].state = "written" /\ upload'[u].state = "stored"
          /\ file' = file
      BY <2>6, <1>1 DEF SaveCommit, UploadRecord
    <3>2. /\ file[u] # Absent /\ upload[u].started <= file[u]
          /\ clock <= upload[u].started + MaxSave /\ sweep.doomed # u
      BY <1>3, <3>1 DEF FileOK, Dead, Saving
    <3>3. file[u] \in Time /\ upload[u].started \in Time /\ sweep.now \in Time
      BY <1>1, <3>2 DEF UploadRecord, SweepRecord
    <3>4. sweep.now - file[u] <= StaleAge
      BY <1>1, <1>3, <3>2, <3>3, TimesAssumption DEF SweepOK, Time
    <3> QED
      BY <1>2, <3>1, <3>2, <3>4 DEF FileOK, Saving
  <2> QED
    BY <2>1, <2>2, <2>3, <2>4, <2>5, <2>6 DEF SaveNext
<1>6. SweepOK'
  BY <1>2, <1>3 DEF SweepOK
<1> QED
  BY <1>4, <1>5, <1>6 DEF Filed

\* Submit: the entry of the upload gets its job.
LEMMA SubmitFiled ==
    ASSUME Types, Filed, NEW u \in Upload, NEW j, NEW t, Submit(u, j, t)
    PROVE  Filed'
<1>1. upload \in [Upload -> UploadRecord]
  BY DEF Types, TypeOK
<1>2. UNCHANGED <<file, sweep, clock>> /\ upload' = [upload EXCEPT ![u].job = j]
  BY DEF Submit
<1>3. ASSUME NEW v \in Upload
      PROVE  /\ upload'[v].state = upload[v].state
             /\ upload'[v].bytes = upload[v].bytes
             /\ upload'[v].started = upload[v].started
  BY <1>1, <1>2 DEF UploadRecord
<1>4. \A v \in Upload : FileOK(v)'
  BY <1>2, <1>3 DEF Filed, FileOK, Dead
<1> QED
  BY <1>2, <1>4 DEF Filed, SweepOK

\* Stored uploads lose their charge or their entry, and their files go.
LEMMA ReleaseFiled ==
    ASSUME Types, Filed, NEW S, Unlink(S), UNCHANGED <<sweep, clock>>,
           \A u \in Upload : u \in S =>
              /\ upload[u].state = "stored"
              /\ upload'[u] \in {NoEntry("gone"), [upload[u] EXCEPT !.bytes = 0]},
           \A u \in Upload : u \notin S => upload'[u] = upload[u]
    PROVE  Filed'
<1>1. ASSUME NEW u \in Upload, u \in S
      PROVE  Dead(u)' /\ upload'[u].state # "dropped"
  <2>1. upload[u] \in UploadRecord
    BY DEF Types, TypeOK
  <2>2. CASE upload'[u] = NoEntry("gone")
    BY <2>2 DEF NoEntry, Dead
  <2>3. CASE upload'[u] = [upload[u] EXCEPT !.bytes = 0]
    <3>1. upload'[u].state = "stored" /\ upload'[u].bytes = 0
      BY <1>1, <2>1, <2>3 DEF UploadRecord
    <3> QED
      BY <3>1 DEF Dead
  <2> QED
    BY <1>1, <2>2, <2>3
<1>2. ASSUME NEW u \in Upload
      PROVE  FileOK(u)'
  <2>1. FileOK(u)
    BY DEF Filed
  <2>2. CASE u \in S
    BY <1>1, <2>1, <2>2, FileDead
  <2>3. CASE u \notin S
    <3>1. file'[u] = file[u]
      BY <2>3, UnlinkEffect
    <3> QED
      BY <2>1, <2>3, <3>1, FileKept
  <2> QED
    BY <2>2, <2>3
<1> QED
  BY <1>2 DEF Filed, SweepOK

LEMMA DeleteFiled ==
    ASSUME Types, Links, Filed, NEW j \in Job, Delete(j)
    PROVE  Filed'
<1>1. upload \in [Upload -> UploadRecord]
  BY DEF Types, TypeOK
<1>2. job[j].upload \in Upload /\ upload[job[j].upload].state = "stored"
  BY DEF Delete, Links, LinksAgree
<1> DEFINE S == {job[j].upload}
<1>3. Unlink(S) /\ UNCHANGED <<sweep, clock>>
  BY DEF Delete
<1>4. /\ \A u \in Upload : u \in S =>
            /\ upload[u].state = "stored"
            /\ upload'[u] \in {NoEntry("gone"), [upload[u] EXCEPT !.bytes = 0]}
      /\ \A u \in Upload : u \notin S => upload'[u] = upload[u]
  BY <1>1, <1>2 DEF Delete
<1> HIDE DEF S
<1> QED
  BY <1>3, <1>4, ReleaseFiled

LEMMA ClaimFiled ==
    ASSUME Types, Links, Filed, NEW t, Claim(t)
    PROVE  Filed'
<1>1. PICK next : ClaimWith(next, t)
  BY DEF Claim
<1> DEFINE S == {job[j].upload : j \in Exhausted(t)}
<1>2. Unlink(S) /\ UNCHANGED <<sweep, clock>>
  BY <1>1 DEF ClaimWith
<1>3. \A j \in Exhausted(t) : upload[job[j].upload].state = "stored"
  BY ClaimSets DEF Links, LinksAgree, Live, Pending
<1>4. \A u \in Upload : u \in S =>
         /\ upload[u].state = "stored"
         /\ upload'[u] \in {NoEntry("gone"), [upload[u] EXCEPT !.bytes = 0]}
  BY <1>1, <1>3 DEF ClaimWith
<1>5. \A u \in Upload : u \notin S => upload'[u] = upload[u]
  BY <1>1 DEF ClaimWith
<1> HIDE DEF S
<1> QED
  BY <1>2, <1>4, <1>5, ReleaseFiled

LEMMA WorkerFiled ==
    ASSUME Types, Links, Filed, NEW j \in Job, NEW k, NEW t, WorkerNext(j, k, t)
    PROVE  Filed'
<1>1. upload \in [Upload -> UploadRecord]
  BY DEF Types, TypeOK
<1>2. CASE Heartbeat(j, k, t) \/ FinishRetry(j, k, t)
  BY <1>2, FileKept DEF Heartbeat, FinishRetry, Filed, SweepOK
<1>3. ASSUME NEW r, Settle(j, r), job[j].status = "processing"
      PROVE  Filed'
  <2> DEFINE S == {job[j].upload}
  <2>1. job[j].upload \in Upload /\ upload[job[j].upload].state = "stored"
    BY <1>3 DEF Links, LinksAgree, Live, Pending
  <2>2. Unlink(S) /\ UNCHANGED <<sweep, clock>>
    BY <1>3 DEF Settle
  <2>3. /\ \A u \in Upload : u \in S =>
              /\ upload[u].state = "stored"
              /\ upload'[u] \in {NoEntry("gone"), [upload[u] EXCEPT !.bytes = 0]}
        /\ \A u \in Upload : u \notin S => upload'[u] = upload[u]
    BY <1>1, <1>3, <2>1 DEF Settle
  <2> HIDE DEF S
  <2> QED
    BY <2>2, <2>3, ReleaseFiled
<1>4. CASE FinishResult(j, k, t)
  BY <1>3, <1>4 DEF FinishResult, Leased
<1>5. CASE \E retry \in BOOLEAN : FinishError(j, k, t, retry)
  BY <1>3, <1>5 DEF FinishError, Leased
<1> QED
  BY <1>2, <1>4, <1>5 DEF WorkerNext

\* Cleanup's critical section: what is still charged becomes known.
LEMMA CleanupLockedFiled ==
    ASSUME Types, Types', Links, Filed, NEW t \in RecentPast, CleanupLocked(t)
    PROVE  Filed'
<1>1. /\ upload \in [Upload -> UploadRecord] /\ upload' \in [Upload -> UploadRecord]
      /\ clock \in Time
  BY DEF Types, TypeOK
<1>2. t <= clock
  BY <1>1, RecentPastIsTime
<1>3. /\ clock' = clock /\ sweep'.now = t /\ sweep'.pc = "listing"
      /\ sweep'.known = Known(upload') /\ sweep'.doomed = NoUpload
  BY DEF CleanupLocked, NoSweep
<1>4. SweepOK'
  BY <1>2, <1>3 DEF SweepOK
<1>5. ASSUME NEW u \in Upload
      PROVE  FileOK(u)'
  <2>1. FileOK(u) /\ sweep'.doomed # u
    BY <1>3, IdentifiersAssumption DEF Filed
  <2>2. CASE upload'[u] = NoEntry("gone")
    BY <2>1, <2>2, FileDead DEF Dead, NoEntry
  <2>3. CASE upload[u].job \in Aged(t) /\ upload'[u] = [upload[u] EXCEPT !.bytes = 0]
    <3>1. job[upload[u].job].upload = u /\ upload[u].job \in Job
          /\ job[upload[u].job].status \in Live
      BY <2>3, CleanupEffect, IdentifiersAssumption DEF Links, LinksAgree, Live
    <3>2. upload[u].state = "stored"
      BY <3>1 DEF Links, LinksAgree
    <3>3. upload'[u].state = "stored" /\ upload'[u].bytes = 0
      BY <1>1, <2>3, <3>2 DEF UploadRecord
    <3> QED
      BY <2>1, <3>3, FileDead DEF Dead
  <2>4. CASE /\ upload[u].job \notin Aged(t) /\ u \notin Abandoned(t)
             /\ upload'[u] = upload[u]
    <3>1. u \notin {job[j].upload : j \in Aged(t)}
      BY <2>4, CleanupEffect DEF Links, LinksAgree, Live
    <3>2. file'[u] = file[u]
      BY <2>4, <3>1, UnlinkEffect DEF CleanupLocked
    <3>3. upload[u].state = "stored" /\ upload[u].bytes > 0 => u \in sweep'.known
      BY <1>3, <2>4 DEF Known
    <3> QED
      BY <1>3, <2>1, <2>4, <3>2, <3>3 DEF FileOK
  <2> QED
    BY <2>2, <2>3, <2>4, CleanupEffect
<1> QED
  BY <1>4, <1>5 DEF Filed

\* An unseen file that is too old belongs to no upload that needs it.
LEMMA StaleIsDead ==
    ASSUME Types, Filed, NEW u \in Upload, sweep.pc = "sweeping", ~Spared(u)
    PROVE  Dead(u)
<1>1. /\ upload[u] \in UploadRecord /\ file[u] \in Time /\ clock \in Time
      /\ sweep.now \in Time
  BY DEF Types, TypeOK, SweepRecord, Spared
<1>2. FileOK(u) /\ sweep.now <= clock
  BY DEF Filed, SweepOK
<1>3. u \notin sweep.known /\ file[u] # Absent /\ ~(sweep.now - file[u] <= StaleAge)
  BY DEF Spared
<1>4. upload[u].state \notin {"unborn", "reserved"}
  BY <1>2, <1>3 DEF FileOK
<1>5. upload[u].state \notin {"writing", "written"}
  <2> SUFFICES ASSUME upload[u].state \in {"writing", "written"} PROVE FALSE
    OBVIOUS
  <2>1. upload[u].started <= file[u] /\ clock <= upload[u].started + MaxSave
    BY <1>2 DEF FileOK, Saving
  <2>2. upload[u].started \in Time
    BY <1>1 DEF UploadRecord
  <2> QED
    BY <1>1, <1>2, <1>3, <2>1, <2>2, TimesAssumption DEF Time
<1>6. upload[u].state = "stored" => ~(upload[u].bytes > 0)
  BY <1>2, <1>3 DEF FileOK
<1>7. upload[u].bytes \in 0 .. MaxUploadBytes
      /\ upload[u].state \in Saving \cup {"unborn", "stored", "gone"}
  BY <1>1 DEF UploadRecord
<1>8. upload[u].state = "stored" => upload[u].bytes = 0
  BY <1>6, <1>7, LimitsAssumption
<1> QED
  BY <1>4, <1>5, <1>7, <1>8 DEF Dead, Saving

LEMMA SweepFiled ==
    ASSUME Types, Links, Filed, SweepNext
    PROVE  Filed'
<1>1. /\ upload \in [Upload -> UploadRecord] /\ clock \in Time
      /\ sweep \in SweepRecord /\ file \in [Upload -> Time \cup {Absent}]
  BY DEF Types, TypeOK
<1>2. UNCHANGED <<upload, clock>>
  BY DEF SweepNext, CleanupList, CleanupEntry, CleanupRemove, CleanupReturn
<1>3. 0 <= clock
  BY <1>1, TimesAssumption DEF Time
<1>4. CASE CleanupList
  <2>1. CASE sweep' = NoSweep
    <3>1. sweep'.pc = "idle" /\ sweep'.now = 0 /\ sweep'.doomed = NoUpload
      BY <2>1 DEF NoSweep
    <3>2. \A u \in Upload : FileOK(u)'
      BY <1>2, <1>4, <3>1, IdentifiersAssumption DEF CleanupList, Filed, FileOK
    <3> QED
      BY <1>2, <1>3, <3>1, <3>2 DEF Filed, SweepOK
  <2>2. CASE sweep' = [sweep EXCEPT !.pc = "sweeping",
                                    !.todo = {u \in Upload : file[u] # Absent}]
    <3>1. /\ sweep'.pc = "sweeping" /\ sweep'.now = sweep.now
          /\ sweep'.doomed = sweep.doomed /\ sweep'.known = sweep.known
          /\ sweep.pc = "listing" /\ file' = file
      BY <1>1, <1>4, <2>2 DEF CleanupList, SweepRecord
    <3>2. \A u \in Upload : FileOK(u)'
      BY <1>2, <3>1 DEF Filed, FileOK, Dead
    <3> QED
      BY <1>2, <3>1, <3>2 DEF Filed, SweepOK
  <2> QED
    BY <1>4, <2>1, <2>2 DEF CleanupList
<1>5. CASE \E u \in Upload : CleanupEntry(u)
  <2>1. PICK u \in Upload : CleanupEntry(u)
    BY <1>5
  <2>2. /\ sweep.pc = "sweeping" /\ sweep.doomed = NoUpload /\ file' = file
        /\ sweep'.pc = sweep.pc /\ sweep'.now = sweep.now
        /\ sweep'.known = sweep.known
        /\ sweep'.doomed = IF Spared(u) THEN NoUpload ELSE u
    BY <1>1, <2>1 DEF CleanupEntry, SweepRecord
  <2>3. ASSUME NEW v \in Upload
        PROVE  FileOK(v)'
    <3>1. sweep'.doomed = v => Dead(v)
      BY <2>2, StaleIsDead, IdentifiersAssumption
    <3> QED
      BY <1>2, <2>2, <3>1 DEF Filed, FileOK, Dead
  <2> QED
    BY <1>2, <2>2, <2>3 DEF Filed, SweepOK
<1>6. CASE CleanupRemove
  <2>1. /\ sweep'.pc = sweep.pc /\ sweep'.now = sweep.now
        /\ sweep'.known = sweep.known /\ sweep'.doomed = NoUpload
        /\ sweep.doomed # NoUpload /\ Unlink({sweep.doomed})
    BY <1>1, <1>6 DEF CleanupRemove, SweepRecord
  <2>2. ASSUME NEW v \in Upload
        PROVE  FileOK(v)'
    <3>1. FileOK(v) /\ sweep'.doomed # v
      BY <2>1, IdentifiersAssumption DEF Filed
    <3>2. CASE v = sweep.doomed
      <4>1. Dead(v) /\ Dead(v)'
        BY <1>2, <3>1, <3>2 DEF FileOK, Dead
      <4>2. upload'[v].state = "dropped" => upload[v].state \in Saving
        BY <1>2 DEF Saving
      <4> QED
        BY <1>2, <3>1, <4>1, <4>2, FileDead
    <3>3. CASE v # sweep.doomed
      <4>1. file'[v] = file[v]
        BY <2>1, <3>3, UnlinkEffect
      <4> QED
        BY <1>2, <2>1, <3>1, <4>1 DEF FileOK, Dead
    <3> QED
      BY <3>2, <3>3
  <2> QED
    BY <1>2, <2>1, <2>2 DEF Filed, SweepOK
<1>7. CASE CleanupReturn
  <2>1. sweep'.pc = "idle" /\ sweep'.now = 0 /\ sweep'.doomed = NoUpload
        /\ file' = file
    BY <1>7 DEF CleanupReturn, NoSweep
  <2>2. \A u \in Upload : FileOK(u)'
    BY <1>2, <2>1, IdentifiersAssumption DEF Filed, FileOK
  <2> QED
    BY <1>2, <1>3, <2>1, <2>2 DEF Filed, SweepOK
<1> QED
  BY <1>4, <1>5, <1>6, <1>7 DEF SweepNext

LEMMA NewFiled ==
    ASSUME Types, Filed, New
    PROVE  Filed'
<1>1. /\ sweep'.pc = "idle" /\ sweep'.now = 0 /\ sweep'.doomed = NoUpload
      /\ clock' = clock /\ 0 <= clock
  BY TimesAssumption DEF New, NoSweep, Types, TypeOK, Time
<1>2. ASSUME NEW u \in Upload
      PROVE  FileOK(u)'
  <2>1. file'[u] = Absent /\ upload'[u].state \in {"unborn", "gone"}
    BY DEF New, NoEntry
  <2> QED
    BY <1>1, <2>1, IdentifiersAssumption DEF FileOK, Saving
<1> QED
  BY <1>1, <1>2 DEF Filed, SweepOK

LEMMA TickFiled ==
    ASSUME Types, Filed, Tick
    PROVE  Filed'
<1>1. /\ upload \in [Upload -> UploadRecord] /\ clock \in Time
      /\ sweep.now \in Time
  BY DEF Types, TypeOK, SweepRecord
<1>2. UNCHANGED <<upload, file, sweep>> /\ clock' = clock + 1
  BY DEF Tick
<1>3. ASSUME NEW u \in Upload, upload[u].state \in Saving
      PROVE  upload[u].started <= clock' /\ clock' <= upload[u].started + MaxSave
  <2>1. upload[u].started \in Time /\ clock < upload[u].started + MaxSave
        /\ upload[u].started <= clock
    BY <1>1, <1>3 DEF Tick, UploadRecord, Filed, FileOK
  <2> QED
    BY <1>1, <1>2, <2>1, TimesAssumption DEF Time
<1>4. \A u \in Upload : FileOK(u)'
  BY <1>2, <1>3 DEF Filed, FileOK, Dead
<1>5. sweep'.now <= clock'
  BY <1>1, <1>2, TimesAssumption DEF Filed, SweepOK, Time
<1> QED
  BY <1>2, <1>4, <1>5 DEF Filed, SweepOK

LEMMA StepFiled ==
    ASSUME Types, Types', Links, Filed, [Next]_vars
    PROVE  Filed'
<1>1. CASE \E u \in Upload : SaveNext(u) \/ DiscardUpload(u)
  BY <1>1, SaveFiled
<1>2. CASE \E j \in Job : Delete(j)
  BY <1>2, DeleteFiled
<1>3. CASE \E u \in Upload, j \in Job, t \in RecentPast : Submit(u, j, t)
  BY <1>3, SubmitFiled
<1>4. CASE \E t \in RecentPast : Claim(t)
  BY <1>4, ClaimFiled
<1>5. CASE \E j \in Job : \E k \in Issued(j), t \in RecentPast :
             WorkerNext(j, k, t)
  BY <1>5, WorkerFiled
<1>6. CASE \E t \in RecentPast : CleanupLocked(t)
  BY <1>6, CleanupLockedFiled
<1>7. CASE SweepNext
  BY <1>7, SweepFiled
<1>8. CASE New
  BY <1>8, NewFiled
<1>9. CASE Tick
  BY <1>9, TickFiled
<1>10. CASE UNCHANGED vars
  BY <1>10 DEF vars, Filed, SweepOK, FileOK, Dead
<1> QED
  BY <1>1, <1>2, <1>3, <1>4, <1>5, <1>6, <1>7, <1>8, <1>9, <1>10 DEF Next

\* The audio of every upload that can be submitted or is being processed is on
\* disk, however Saves, sweeps, workers and deletions interleave.
THEOREM AudioNeverLost == Spec => []AudioAvailable
<1>1. Init => Filed
  BY InitFiled
<1>2. /\ Types /\ Links /\ (Types /\ Links)' /\ Filed /\ [Next]_vars
      => Filed'
  BY StepFiled
<1>3. Filed => AudioAvailable
  BY DEF Filed, FileOK, AudioAvailable
<1> QED
  BY <1>1, <1>2, <1>3, LinksInvariant, PTL DEF Spec

-----------------------------------------------------------------------------
(* Where removals succeed, every file is paid for *)

\* An upload that holds no storage, or is about to lose it, has no file.
Unpaid(u) == Held(upload[u]) = 0 \/ upload[u].state = "dropped"

Paid == \A u \in Upload : Unpaid(u) => file[u] = Absent

\* Files go with what pays for them, and no other upload changes what it holds.
LEMMA PaidKept ==
    ASSUME Paid, NEW S, ~RemovalMayFail, Unlink(S),
           \A u \in Upload : u \notin S => (Unpaid(u)' => Unpaid(u))
    PROVE  Paid'
BY DEF Paid, Unlink

\* No file appears and no upload loses what it holds.
LEMMA PaidSame ==
    ASSUME Paid, UNCHANGED file, \A u \in Upload : Unpaid(u)' => Unpaid(u)
    PROVE  Paid'
BY DEF Paid

LEMMA SavePaid ==
    ASSUME Types, Paid, ~RemovalMayFail,
           NEW u \in Upload, SaveNext(u) \/ DiscardUpload(u)
    PROVE  Paid'
<1>1. upload \in [Upload -> UploadRecord] /\ MaxUploadBytes \in Nat \ {0}
  BY LimitsAssumption DEF Types, TypeOK
<1>2. upload' = [upload EXCEPT ![u] = upload'[u]]
  BY <1>1 DEF SaveNext, SaveBegin, SaveWrite, SaveDrop, SaveReject, SaveCommit,
              SaveEOF, DiscardUpload
<1>3. \A v \in Upload : v # u => (Unpaid(v)' => Unpaid(v))
  BY <1>1, <1>2 DEF Unpaid
<1>4. CASE SaveBegin(u) \/ \E n \in Size : SaveEOF(u, n)
  <2>1. upload'[u].state \in {"reserved", "written"} /\ UNCHANGED file
    BY <1>1, <1>4 DEF SaveBegin, SaveEOF, NoEntry, UploadRecord
  <2>2. ~Unpaid(u)'
    BY <1>1, <2>1 DEF Unpaid, Held, Saving
  <2> QED
    BY <1>3, <2>1, <2>2, PaidSame
<1>5. CASE SaveWrite(u)
  <2>1. upload'[u].state = "writing" /\ \A v \in Upload : v # u => file'[v] = file[v]
    BY <1>1, <1>5 DEF SaveWrite, UploadRecord
  <2>2. ~Unpaid(u)'
    BY <1>1, <2>1 DEF Unpaid, Held, Saving
  <2> QED
    BY <1>3, <2>1, <2>2 DEF Paid
<1>6. CASE SaveDrop(u) \/ DiscardUpload(u)
  BY <1>3, <1>6, PaidKept DEF SaveDrop, DiscardUpload
<1>7. CASE SaveReject(u)
  <2>1. Unpaid(u) /\ UNCHANGED file
    BY <1>7 DEF SaveReject, Unpaid
  <2> QED
    BY <1>3, <2>1, PaidSame
<1>8. CASE SaveCommit(u)
  <2>1. upload[u].size \in 0 .. MaxUploadBytes + 1 /\ Acceptable(upload[u].size)
    BY <1>1, <1>8 DEF SaveCommit, UploadRecord
  <2>2. Charge(upload[u].size) > 0
    BY <2>1, ChargeType, <1>1
  <2>3. /\ upload'[u].state = "stored" /\ upload'[u].bytes = Charge(upload[u].size)
        /\ UNCHANGED file
    BY <1>1, <1>8 DEF SaveCommit, UploadRecord
  <2>4. ~Unpaid(u)'
    BY <2>2, <2>3 DEF Unpaid, Held, Saving
  <2> QED
    BY <1>3, <2>3, <2>4, PaidSame
<1> QED
  BY <1>4, <1>5, <1>6, <1>7, <1>8 DEF SaveNext

LEMMA SubmitPaid ==
    ASSUME Types, Paid, NEW u \in Upload, NEW j, NEW t, Submit(u, j, t)
    PROVE  Paid'
<1>1. \A v \in Upload : /\ upload'[v].state = upload[v].state
                        /\ upload'[v].bytes = upload[v].bytes
  BY DEF Submit, Types, TypeOK, UploadRecord
<1> QED
  BY <1>1, PaidSame DEF Submit, Unpaid, Held

LEMMA ReleasePaid ==
    ASSUME Types, Links, Paid, ~RemovalMayFail,
           \/ \E j \in Job : Delete(j)
           \/ \E t : Claim(t)
           \/ \E k, t : \E j \in Job : WorkerNext(j, k, t)
    PROVE  Paid'
<1>1. upload \in [Upload -> UploadRecord]
  BY DEF Types, TypeOK
<1>2. ASSUME NEW S, Unlink(S), \A u \in Upload : u \notin S => upload'[u] = upload[u]
      PROVE  Paid'
  BY <1>2, PaidKept DEF Unpaid
<1>3. CASE \E j \in Job : Delete(j)
  <2>1. PICK j \in Job : Delete(j)
    BY <1>3
  <2>2. /\ Unlink({job[j].upload})
        /\ \A u \in Upload : u \notin {job[j].upload} => upload'[u] = upload[u]
    BY <1>1, <2>1 DEF Delete
  <2> QED
    BY <1>2, <2>2
<1>4. CASE \E t : Claim(t)
  <2>1. PICK t, next : ClaimWith(next, t)
    BY <1>4 DEF Claim
  <2> DEFINE S == {job[j].upload : j \in Exhausted(t)}
  <2>2. Unlink(S) /\ \A u \in Upload : u \notin S => upload'[u] = upload[u]
    BY <2>1 DEF ClaimWith
  <2> HIDE DEF S
  <2> QED
    BY <1>2, <2>2
<1>5. CASE \E k, t : \E j \in Job : WorkerNext(j, k, t)
  <2>0. PICK k, t : \E j \in Job : WorkerNext(j, k, t)
    BY <1>5
  <2>1. PICK j \in Job : WorkerNext(j, k, t)
    BY <2>0
  <2>2. CASE Heartbeat(j, k, t) \/ FinishRetry(j, k, t)
    BY <2>2, PaidSame DEF Heartbeat, FinishRetry, Unpaid
  <2>3. CASE \E r : Settle(j, r)
    <3>1. /\ Unlink({job[j].upload})
          /\ \A u \in Upload : u \notin {job[j].upload} => upload'[u] = upload[u]
      BY <1>1, <2>3 DEF Settle
    <3> QED
      BY <1>2, <3>1
  <2> QED
    BY <2>1, <2>2, <2>3 DEF WorkerNext, FinishResult, FinishError
<1> QED
  BY <1>3, <1>4, <1>5

\* The uploads of outdated jobs lost their files when the jobs ended.
LEMMA CleanupPaid ==
    ASSUME Types, Links, Paid, ~RemovalMayFail, NEW t, CleanupLocked(t)
    PROVE  Paid'
<1> DEFINE S == {job[j].upload : j \in Aged(t)} \cup Abandoned(t)
<1>1. Unlink(S)
  BY DEF CleanupLocked
<1>2. ASSUME NEW u \in Upload, u \notin S, Unpaid(u)'
      PROVE  Unpaid(u)
  <2>1. CASE upload[u].job \in Old(t)
    <3>1. /\ job[upload[u].job].status \in Finished /\ upload[u].job \in Job
          /\ job[upload[u].job].upload = u
      BY <2>1, CleanupEffect, IdentifiersAssumption DEF Links, LinksAgree, Live
    <3>2. upload[u].state = "stored" /\ ~(upload[u].bytes > 0)
      BY <3>1 DEF Links, LinksAgree, Live, Pending, Finished
    <3>3. upload[u].bytes = 0
      BY <3>2, LimitsAssumption DEF Types, TypeOK, UploadRecord
    <3> QED
      BY <3>2, <3>3 DEF Unpaid, Held, Saving
  <2>2. CASE upload[u].job \in Aged(t)
    BY <1>2, <2>2, CleanupEffect, IdentifiersAssumption DEF Links, LinksAgree, Live
  <2>3. CASE u \in Abandoned(t)
    BY <1>2, <2>3
  <2>4. CASE upload'[u] = upload[u]
    BY <1>2, <2>4 DEF Unpaid
  <2> QED
    BY <2>1, <2>2, <2>3, <2>4, CleanupEffect
<1> HIDE DEF S
<1> QED
  BY <1>1, <1>2, PaidKept

LEMMA StepPaid ==
    ASSUME Types, Links, Paid, ~RemovalMayFail, [Next]_vars
    PROVE  Paid'
<1>1. CASE \E u \in Upload : SaveNext(u) \/ DiscardUpload(u)
  BY <1>1, SavePaid
<1>2. CASE \E u \in Upload, j \in Job, t \in RecentPast : Submit(u, j, t)
  BY <1>2, SubmitPaid
<1>3. CASE \/ \E j \in Job : Delete(j)
           \/ \E t \in RecentPast : Claim(t)
           \/ \E j \in Job : \E k \in Issued(j), t \in RecentPast : WorkerNext(j, k, t)
  BY <1>3, ReleasePaid
<1>4. CASE \E t \in RecentPast : CleanupLocked(t)
  BY <1>4, CleanupPaid
<1>5. CASE SweepNext
  <2>1. CASE CleanupRemove
    BY <2>1, PaidKept DEF CleanupRemove, Unpaid
  <2>2. CASE UNCHANGED <<upload, file>>
    BY <2>2, PaidSame DEF Unpaid
  <2> QED
    BY <1>5, <2>1, <2>2 DEF SweepNext, CleanupList, CleanupEntry, CleanupReturn
<1>6. CASE New
  BY <1>6 DEF New, Paid
<1>7. CASE Tick \/ UNCHANGED vars
  BY <1>7, PaidSame DEF Tick, vars, Unpaid
<1> QED
  BY <1>1, <1>2, <1>3, <1>4, <1>5, <1>6, <1>7 DEF Next

\* Where os.Remove succeeds, no file outlives the reservation or the charge that
\* pays for it, so the directory never holds more than the storage limit.
THEOREM FilesArePaidFor == ~RemovalMayFail => (Spec => []FilesPaidFor)
<1> SUFFICES ASSUME ~RemovalMayFail PROVE Spec => []FilesPaidFor
  OBVIOUS
<1>1. Init => Paid
  BY DEF Init, Paid
<1>2. Types /\ Links /\ Paid /\ [Next]_vars => Paid'
  BY StepPaid
<1>3. Types /\ Paid => FilesPaidFor
  <2> SUFFICES ASSUME Types, Paid, NEW u \in Upload, file[u] # Absent
               PROVE  Held(upload[u]) > 0
    BY DEF FilesPaidFor
  <2>1. Held(upload[u]) \in Nat
    BY LimitsAssumption DEF Types, TypeOK, UploadRecord, Held
  <2> QED
    BY <2>1 DEF Paid, Unpaid
<1> QED
  BY <1>1, <1>2, <1>3, LinksInvariant, PTL DEF Spec, Links
=============================================================================
