--------------------------- MODULE RequestsProofs ---------------------------
(***************************************************************************)
(* Requests runs the Store and nothing but the Store, so that all that is  *)
(* proved of Store holds beside requests of every number and kind; the     *)
(* upload slots are exact; no upload and no job is left to nobody; and     *)
(* every request comes in time for what it saved and waits for.            *)
(***************************************************************************)
EXTENDS Requests, StoreAccountingProofs

\* What a handler knows at a point of its code: what it saves, waits for or has
\* announced exists, and only two endpoints submit.
Local ==
    \A r \in Request :
        /\ request[r].pc = "saving" => request[r].upload \in Upload
        /\ request[r].pc \in {"polling", "sleeping", "deleting"}
              => request[r].job \in Job
        /\ request[r].pc = "parsed" => request[r].kind \in {"sync", "url"}
        /\ request[r].answer \in {"uploaded", "queued"}
              => request[r].upload \in Upload

\* The calls of one request.
SaveSteps(r) ==
    \/ \E u \in Upload : FileBegins(r, u)
    \/ FileSaves(r) \/ FileDropped(r) \/ FileSaved(r) \/ FileFails(r)

QueueSteps(r) ==
    \/ \E j \in Job, t \in RecentPast : JobSubmitted(r, j, t)
    \/ Failed(r) \/ Returned(r)

\* The steps of a request that do not touch the Store.
OwnSteps(r) ==
    \/ \E kind \in Kind : Arrive(r, kind) \/ ArriveRefused(r, kind)
    \/ BodyEnds(r) \/ BodyFails(r) \/ Leave(r)
    \/ FileRefused(r) \/ FormRefused(r) \/ FormRead(r) \/ OptionsRefused(r)
    \/ SubmissionRefused(r) \/ Poll(r) \/ TickerFires(r) \/ GiveUp(r)

LEMMA StepsOfRequests ==
    RequestsNext => \/ \E r \in Request :
                          SaveSteps(r) \/ QueueSteps(r) \/ OwnSteps(r)
                    \/ Others
                    \/ TimePasses
BY DEF RequestsNext, Progress, SaveSteps, QueueSteps, OwnSteps

-----------------------------------------------------------------------------
(* Every step is one of Store, or none *)

LEMMA SaveStepsRunStore ==
    ASSUME Local, NEW r \in Request, SaveSteps(r)
    PROVE  Next
<1>1. CASE \E u \in Upload : FileBegins(r, u)
  BY <1>1 DEF FileBegins, Next, SaveNext
<1>2. CASE FileSaves(r)
  BY <1>2 DEF FileSaves, Local, Next, SaveNext
<1>3. CASE FileDropped(r) \/ FileSaved(r) \/ FileFails(r)
  BY <1>3 DEF FileDropped, FileSaved, FileFails, Local, Next, SaveNext
<1> QED
  BY <1>1, <1>2, <1>3 DEF SaveSteps

LEMMA QueueStepsRunStore ==
    ASSUME RequestsTypeOK, Local, NEW r \in Request, QueueSteps(r)
    PROVE  [Next]_vars
<1>1. request[r].upload \in Upload \cup {NoUpload}
  BY DEF RequestsTypeOK
<1>2. CASE \E j \in Job, t \in RecentPast : JobSubmitted(r, j, t)
  BY <1>1, <1>2 DEF JobSubmitted, Next
<1>3. CASE Failed(r)
  <2>1. CASE Discards(r)
    BY <1>1, <1>3, <2>1 DEF Failed, Discards, Next
  <2>2. CASE ~Discards(r)
    BY <1>3, <2>2 DEF Failed
  <2> QED
    BY <2>1, <2>2
<1>4. CASE Returned(r)
  <2>1. CASE Deletes(r)
    BY <1>4, <2>1 DEF Returned, Local, Next
  <2>2. CASE ~Deletes(r)
    BY <1>4, <2>2 DEF Returned
  <2> QED
    BY <2>1, <2>2
<1> QED
  BY <1>2, <1>3, <1>4 DEF QueueSteps

LEMMA OwnStepsStutter ==
    ASSUME NEW r \in Request, OwnSteps(r)
    PROVE  UNCHANGED vars
BY DEF OwnSteps, Arrive, ArriveRefused, BodyEnds, BodyFails, Leave, FileRefused,
       FormRefused, FormRead, OptionsRefused, SubmissionRefused, Poll,
       TickerFires, GiveUp

LEMMA OthersRunStore ==
    ASSUME Local, Others
    PROVE  Next
<1>1. Announced \subseteq Upload
  BY DEF Announced, Local
<1>2. ASSUME NEW u \in Announced, NEW j \in Job, NEW t \in RecentPast,
             Submit(u, j, t)
      PROVE  Next
  BY <1>1, <1>2 DEF Next
<1> QED
  BY <1>2 DEF Others, Next

LEMMA StepRunsStore ==
    ASSUME RequestsTypeOK, Local, [RequestsNext]_allVars
    PROVE  [Next]_vars
<1>1. CASE UNCHANGED allVars
  BY <1>1 DEF allVars
<1>2. CASE \E r \in Request : SaveSteps(r) \/ QueueSteps(r) \/ OwnSteps(r)
  BY <1>2, SaveStepsRunStore, QueueStepsRunStore, OwnStepsStutter
<1>3. CASE Others
  BY <1>3, OthersRunStore
<1>4. CASE TimePasses
  BY <1>4 DEF TimePasses, Next
<1> QED
  BY <1>1, <1>2, <1>3, <1>4, StepsOfRequests

-----------------------------------------------------------------------------
(* The state of the requests *)

RequestRecord ==
    [pc : {"idle", "reading", "saving", "parsed", "polling", "sleeping",
           "failing", "deleting", "done"},
     kind : Kind \cup {"none"}, upload : Upload \cup {NoUpload},
     job : Job \cup {NoJob}, body : {"none", "arriving", "read", "failed"},
     slot : BOOLEAN, timed : BOOLEAN, left : BOOLEAN, since : Time, polled : Time,
     answer : Answers]

\* One request alone: its record, what it knows, that it holds a slot until its
\* body is read or it is done, and that no deadline outlives the body.
RequestOK(q) ==
    /\ q \in RequestRecord
    /\ q.pc = "idle" => q.kind = "none"
    /\ q.pc = "saving" => q.upload \in Upload
    /\ q.pc \in {"polling", "sleeping", "deleting"} => q.job \in Job
    /\ q.pc = "parsed" => q.kind \in {"sync", "url"}
    /\ q.answer \in {"uploaded", "queued"} => q.upload \in Upload
    /\ q.slot <=> TakesSlot(q.kind) /\ q.pc # "done" /\ q.body # "read"
    /\ q.timed => q.body # "read"
    /\ q.kind = "url" /\ q.pc # "done" => q.body = "read"
    /\ q.pc \in {"parsed", "polling", "sleeping", "deleting"} => q.body = "read"
    /\ q.pc = "deleting" /\ q.answer = "left" => q.left

Holders(f) == {r \in Request : f[r].slot}

RequestsOK ==
    /\ request = [r \in Request |-> request[r]]
    /\ \A r \in Request : RequestOK(request[r])
    /\ slots = Cardinality(Holders(request))
    /\ slots <= UploadSlots

LEMMA RequestsOKImplies ==
    ASSUME RequestsOK
    PROVE  /\ RequestsTypeOK /\ Local /\ SlotsExact
           /\ request \in [Request -> RequestRecord]
<1>1. request \in [Request -> RequestRecord]
  BY DEF RequestsOK, RequestOK
<1>2. Cardinality(Holders(request)) \in Nat
  BY RequestsAssumption, FS_Subset, FS_CardinalityType DEF Holders
<1>3. RequestsTypeOK
  BY <1>1, <1>2 DEF RequestsOK, RequestsTypeOK, RequestRecord
<1>4. Local
  BY DEF RequestsOK, RequestOK, Local
<1>5. Holders(request) =
         {r \in Request : TakesSlot(request[r].kind) /\ request[r].pc # "done"
                          /\ request[r].body # "read"}
  BY DEF RequestsOK, RequestOK, Holders
<1> QED
  BY <1>1, <1>3, <1>4, <1>5 DEF RequestsOK, SlotsExact

LEMMA InitRequestsOK == RequestsInit => RequestsOK
<1> SUFFICES ASSUME RequestsInit PROVE RequestsOK
  OBVIOUS
<1>1. 0 \in Time
  BY TimesAssumption DEF Time
<1>2. RequestOK(NoRequest)
  BY <1>1 DEF RequestOK, NoRequest, RequestRecord, Answers, TakesSlot
<1>3. Holders(request) = {}
  BY DEF RequestsInit, NoRequest, Holders
<1> QED
  BY <1>2, <1>3, FS_EmptySet, RequestsAssumption DEF RequestsInit, RequestsOK

\* A step of one request, and what it does to the channel.
LEMMA OneRequest ==
    ASSUME RequestsOK, NEW r \in Request, NEW q, RequestOK(q),
           request' = [request EXCEPT ![r] = q],
           \/ /\ q.slot <=> request[r].slot
              /\ slots' = slots
           \/ /\ q.slot /\ ~request[r].slot
              /\ slots' = slots + 1 /\ slots < UploadSlots
           \/ /\ ~q.slot /\ request[r].slot
              /\ slots' = slots - 1
    PROVE  RequestsOK'
<1> DEFINE S == Holders(request)
           T == Holders(request')
<1>1. /\ request' = [p \in Request |-> request'[p]]
      /\ request'[r] = q
      /\ \A p \in Request \ {r} : request'[p] = request[p]
  BY DEF RequestsOK
<1>2. IsFiniteSet(S) /\ IsFiniteSet(T) /\ Cardinality(S) \in Nat
  BY RequestsAssumption, FS_Subset, FS_CardinalityType DEF Holders
<1>3. r \in S <=> request[r].slot
  BY DEF Holders
<1>4. r \in T <=> q.slot
  BY <1>1 DEF Holders
<1>5. \A p \in Request \ {r} : p \in S <=> p \in T
  BY <1>1 DEF Holders
<1>6. S \subseteq Request /\ T \subseteq Request
  BY DEF Holders
<1>7. slots = Cardinality(S) /\ slots <= UploadSlots
  BY DEF RequestsOK
<1>8. slots' = Cardinality(T) /\ slots' <= UploadSlots
  <2>1. CASE slots' = slots /\ (q.slot <=> request[r].slot)
    <3>1. \A p : p \in S <=> p \in T
      BY <1>3, <1>4, <1>5, <1>6, <2>1
    <3>2. S = T
      BY <3>1
    <3> QED
      BY <1>7, <2>1, <3>2
  <2>2. CASE slots' = slots - 1 /\ ~q.slot /\ request[r].slot
    <3>1. r \in S /\ T = S \ {r}
      BY <1>3, <1>4, <1>5, <1>6, <2>2
    <3>2. Cardinality(T) = Cardinality(S) - 1
      BY <1>2, <3>1, FS_RemoveElement
    <3> QED
      BY <1>2, <1>7, <2>2, <3>2, RequestsAssumption
  <2>3. CASE slots' = slots + 1 /\ slots < UploadSlots /\ q.slot /\ ~request[r].slot
    <3>1. r \notin S /\ T = S \cup {r}
      BY <1>3, <1>4, <1>5, <1>6, <2>3
    <3>2. Cardinality(T) = Cardinality(S) + 1
      BY <1>2, <3>1, FS_AddElement
    <3> QED
      BY <1>2, <1>7, <2>3, <3>2, RequestsAssumption
  <2> QED
    BY <2>1, <2>2, <2>3
<1> QED
  BY <1>1, <1>8 DEF RequestsOK

\* A request that is answered gives its slot back, if it still has one.
LEMMA AnsweredOK ==
    ASSUME RequestsOK, NEW r \in Request, request[r].pc # "idle",
           NEW j \in Job \cup {NoJob}, NEW answer \in Answers,
           answer \in {"uploaded", "queued"} => request[r].upload \in Upload,
           request' = [request EXCEPT ![r] = Answered(r, j, answer)],
           slots' = Release(r)
    PROVE  RequestsOK'
<1>1. RequestOK(request[r]) /\ 0 \in Time /\ slots \in Nat
  BY RequestsOKImplies, TimesAssumption DEF RequestsOK, Time, RequestsTypeOK
<1> DEFINE q == Answered(r, j, answer)
<1>2. RequestOK(q) /\ ~q.slot
  <2>1. request[r] \in RequestRecord
    BY <1>1 DEF RequestOK
  <2>2. NoRequest \in RequestRecord /\ ~NoRequest.slot /\ ~NoRequest.timed
    BY <1>1 DEF NoRequest, RequestRecord, Answers
  <2>3. q \in RequestRecord /\ ~q.slot /\ ~q.timed
    BY <2>1, <2>2, ZenonT(40) DEF Answered, RequestRecord
  <2>4. q.pc = "done" /\ q.upload = request[r].upload /\ q.answer = answer
    BY <2>2 DEF Answered, RequestRecord
  <2> QED
    BY <2>3, <2>4 DEF RequestOK
<1>3. request' = [request EXCEPT ![r] = q]
  OBVIOUS
<1>4. \/ slots' = slots /\ (q.slot <=> request[r].slot)
      \/ slots' = slots - 1 /\ ~q.slot /\ request[r].slot
  BY <1>2 DEF Release
<1> HIDE DEF q
<1> QED
  BY <1>2, <1>3, <1>4, OneRequest

LEMMA SaveStepsOK ==
    ASSUME RequestsOK, clock \in Time, NEW r \in Request, SaveSteps(r)
    PROVE  RequestsOK'
<1>1. RequestOK(request[r]) /\ slots \in Nat /\ slots <= UploadSlots
  BY RequestsOKImplies DEF RequestsOK, RequestsTypeOK
<1>2. CASE \E u \in Upload : FileBegins(r, u)
  <2>1. PICK u \in Upload : FileBegins(r, u)
    BY <1>2
  <2> DEFINE q == [request[r] EXCEPT !.pc = "saving", !.upload = u]
  <2>2. RequestOK(q) /\ (q.slot <=> request[r].slot)
    BY <1>1, <2>1 DEF FileBegins, RequestOK, RequestRecord, TakesSlot
  <2>3. request' = [request EXCEPT ![r] = q] /\ slots' = slots
    BY <2>1 DEF FileBegins
  <2> HIDE DEF q
  <2> QED
    BY <2>2, <2>3, OneRequest
<1>3. CASE FileSaves(r) \/ FileDropped(r)
  BY <1>3 DEF FileSaves, FileDropped, requestVars, RequestsOK, Holders
<1>4. CASE FileSaved(r)
  <2>1. request[r].pc = "saving" /\ request[r].upload \in Upload
    BY <1>1, <1>4 DEF FileSaved, RequestOK
  <2>2. CASE /\ request[r].kind = "upload" /\ slots' = Release(r)
             /\ request' = [request EXCEPT
                               ![r] = Answered(r, NoJob, "uploaded")]
    BY <2>1, <2>2, AnsweredOK DEF Answers
  <2>3. ASSUME NEW pc \in {"reading", "parsed"}, Goes(r, pc),
               pc = "parsed" => request[r].kind = "url"
        PROVE  RequestsOK'
    <3> DEFINE q == [request[r] EXCEPT !.pc = pc]
    <3>1. RequestOK(q) /\ (q.slot <=> request[r].slot)
      BY <1>1, <2>1, <2>3 DEF RequestOK, RequestRecord, TakesSlot
    <3>2. request' = [request EXCEPT ![r] = q] /\ slots' = slots
      BY <2>3 DEF Goes
    <3> HIDE DEF q
    <3> QED
      BY <3>1, <3>2, OneRequest
  <2> QED
    BY <1>4, <2>2, <2>3 DEF FileSaved
<1>5. CASE FileFails(r)
  <2> DEFINE q == [request[r] EXCEPT !.pc = "failing", !.upload = NoUpload,
                                     !.answer = "refused"]
  <2>1. RequestOK(q) /\ (q.slot <=> request[r].slot)
    <3>1. request[r].pc = "saving"
      BY <1>5 DEF FileFails
    <3>2. "refused" \in Answers
      BY DEF Answers
    <3> QED
      BY <1>1, <3>1, <3>2 DEF RequestOK, RequestRecord, TakesSlot
  <2>2. request' = [request EXCEPT ![r] = q] /\ slots' = slots
    BY <1>5 DEF FileFails
  <2> HIDE DEF q
  <2> QED
    BY <2>1, <2>2, OneRequest
<1> QED
  BY <1>2, <1>3, <1>4, <1>5 DEF SaveSteps

LEMMA QueueStepsOK ==
    ASSUME RequestsOK, clock \in Time, NEW r \in Request, QueueSteps(r)
    PROVE  RequestsOK'
<1>1. RequestOK(request[r]) /\ slots \in Nat /\ slots <= UploadSlots
  BY RequestsOKImplies DEF RequestsOK, RequestsTypeOK
<1>2. /\ request[r].job \in Job \cup {NoJob} /\ request[r].answer \in Answers
      /\ request[r].answer \in {"uploaded", "queued"}
            => request[r].upload \in Upload
  BY <1>1 DEF RequestOK, RequestRecord
<1>3. CASE \E j \in Job, t \in RecentPast : JobSubmitted(r, j, t)
  <2>1. PICK j \in Job, t \in RecentPast : JobSubmitted(r, j, t)
    BY <1>3
  <2>2. /\ request[r].pc = "parsed" /\ request[r].upload \in Upload
        /\ request[r].kind \in {"sync", "url"}
    BY <1>1, <2>1 DEF JobSubmitted, RequestOK, RequestRecord
  <2>3. CASE request[r].kind = "sync"
    <3> DEFINE q == [request[r] EXCEPT !.pc = "polling", !.job = j,
                                       !.since = clock]
    <3>1. RequestOK(q) /\ (q.slot <=> request[r].slot)
      BY <1>1, <2>2 DEF RequestOK, RequestRecord, TakesSlot
    <3>2. request' = [request EXCEPT ![r] = q] /\ slots' = slots
      BY <2>1, <2>3 DEF JobSubmitted
    <3> HIDE DEF q
    <3> QED
      BY <3>1, <3>2, OneRequest
  <2>4. CASE request[r].kind = "url"
    <3>1. slots' = Release(r)
      BY <1>1, <2>1, <2>4 DEF JobSubmitted, RequestOK, TakesSlot, Release
    <3>2. request' = [request EXCEPT ![r] = Answered(r, j, "queued")]
      BY <2>1, <2>4 DEF JobSubmitted
    <3> QED
      BY <2>2, <3>1, <3>2, AnsweredOK DEF Answers
  <2> QED
    BY <2>2, <2>3, <2>4
<1>4. CASE Failed(r) \/ Returned(r)
  <2>1. /\ request[r].pc # "idle" /\ slots' = Release(r)
        /\ request' = [request EXCEPT ![r] =
                          Answered(r, request[r].job, request[r].answer)]
    BY <1>4 DEF Failed, Returned
  <2> QED
    BY <1>2, <2>1, AnsweredOK
<1> QED
  BY <1>3, <1>4 DEF QueueSteps

\* Failures before the queue has the job.
LEMMA FailsOK ==
    ASSUME RequestsOK, NEW r \in Request,
           request[r].pc \in {"reading", "parsed"},
           NEW answer \in {"refused", "full", "expired"}, Fails(r, answer)
    PROVE  RequestsOK'
<1> DEFINE q == [request[r] EXCEPT !.pc = "failing", !.answer = answer]
<1>1. RequestOK(request[r])
  BY DEF RequestsOK
<1>2. answer \in Answers /\ answer \notin {"uploaded", "queued"}
  BY DEF Answers
<1>3. RequestOK(q) /\ (q.slot <=> request[r].slot)
  BY <1>1, <1>2, ZenonT(40) DEF RequestOK, RequestRecord, TakesSlot
<1>4. request' = [request EXCEPT ![r] = q] /\ slots' = slots
  BY DEF Fails
<1> HIDE DEF q
<1> QED
  BY <1>3, <1>4, OneRequest

LEMMA ArrivalOK ==
    ASSUME RequestsOK, clock \in Time, NEW r \in Request, NEW kind \in Kind,
           Arrive(r, kind) \/ ArriveRefused(r, kind)
    PROVE  RequestsOK'
<1>1. RequestOK(request[r]) /\ slots \in Nat /\ 0 \in Time
  BY RequestsOKImplies, TimesAssumption DEF RequestsOK, RequestsTypeOK, Time
<1>2. /\ NoRequest \in RequestRecord /\ ~NoRequest.slot
      /\ NoRequest.answer = "none" /\ NoRequest.body = "none"
      /\ "refused" \in Answers
  BY <1>1 DEF NoRequest, RequestRecord, Answers
<1>3. request[r].pc = "idle" /\ kind \in Kind
  BY DEF Arrive, ArriveRefused
<1>4. CASE Arrive(r, kind)
  <2> DEFINE q == [NoRequest EXCEPT
                      !.pc = "reading", !.kind = kind, !.since = clock,
                      !.body = IF TakesSlot(kind) THEN "arriving" ELSE "read",
                      !.slot = TakesSlot(kind), !.timed = TakesSlot(kind)]
  <2>1. TakesSlot(kind) \in BOOLEAN
    BY DEF TakesSlot
  <2>2. q \in RequestRecord /\ (q.slot <=> TakesSlot(kind))
    BY <1>2, <2>1 DEF RequestRecord
  <2>0. kind = "url" => ~TakesSlot(kind)
    BY DEF TakesSlot
  <2>3. RequestOK(q)
    BY <1>2, <2>1, <2>2, <2>0 DEF RequestOK, RequestRecord
  <2>4. request' = [request EXCEPT ![r] = q]
    BY <1>4 DEF Arrive
  <2>5. ~request[r].slot
    BY <1>1, <1>3 DEF RequestOK, TakesSlot
  <2>6. slots' = IF TakesSlot(kind) THEN slots + 1 ELSE slots
    BY <1>4 DEF Arrive
  <2>7. TakesSlot(kind) => slots < UploadSlots
    BY <1>4 DEF Arrive
  <2> HIDE DEF q
  <2> QED
    BY <2>2, <2>3, <2>4, <2>5, <2>6, <2>7, OneRequest
<1>5. CASE ArriveRefused(r, kind)
  <2> DEFINE q == [NoRequest EXCEPT !.pc = "done", !.kind = kind,
                                    !.answer = "refused"]
  <2>1. RequestOK(q) /\ ~q.slot
    BY <1>2 DEF RequestOK, RequestRecord
  <2>2. ~request[r].slot
    BY <1>1, <1>3 DEF RequestOK, TakesSlot
  <2>3. request' = [request EXCEPT ![r] = q] /\ slots' = slots
    BY <1>5 DEF ArriveRefused
  <2> HIDE DEF q
  <2> QED
    BY <2>1, <2>2, <2>3, OneRequest
<1> QED
  BY <1>4, <1>5

LEMMA BodyOK ==
    ASSUME RequestsOK, NEW r \in Request, BodyEnds(r) \/ BodyFails(r)
    PROVE  RequestsOK'
<1>1. RequestOK(request[r])
  BY DEF RequestsOK
<1>2. request[r].body = "arriving" /\ request[r].pc \in {"reading", "saving"}
  BY DEF BodyEnds, BodyFails, Reads
<1>3. CASE BodyEnds(r)
  <2> DEFINE q == [request[r] EXCEPT !.body = "read", !.slot = FALSE,
                                     !.timed = FALSE]
  <2>1. RequestOK(q) /\ ~q.slot
    BY <1>1, <1>2 DEF RequestOK, RequestRecord
  <2>2. request' = [request EXCEPT ![r] = q]
    BY <1>3 DEF BodyEnds
  <2>3. \/ slots' = slots /\ (q.slot <=> request[r].slot)
        \/ slots' = slots - 1 /\ ~q.slot /\ request[r].slot
    BY <1>3, <2>1 DEF BodyEnds, Release
  <2> HIDE DEF q
  <2> QED
    BY <2>1, <2>2, <2>3, OneRequest
<1>4. CASE BodyFails(r)
  <2> DEFINE q == [request[r] EXCEPT !.body = "failed"]
  <2>1. RequestOK(q) /\ (q.slot <=> request[r].slot)
    BY <1>1, <1>2 DEF RequestOK, RequestRecord, TakesSlot
  <2>2. request' = [request EXCEPT ![r] = q] /\ slots' = slots
    BY <1>4 DEF BodyFails
  <2> HIDE DEF q
  <2> QED
    BY <2>1, <2>2, OneRequest
<1> QED
  BY <1>3, <1>4

LEMMA WaitOK ==
    ASSUME RequestsOK, clock \in Time, NEW r \in Request,
           Poll(r) \/ TickerFires(r) \/ GiveUp(r) \/ Leave(r)
    PROVE  RequestsOK'
<1>1. RequestOK(request[r])
  BY DEF RequestsOK
<1>2. request[r].pc \in {"polling", "sleeping"} /\ request[r].job \in Job
  BY <1>1 DEF Poll, TickerFires, GiveUp, Leave, RequestOK
<1>3. ASSUME NEW pc \in {"polling", "sleeping", "deleting"},
             NEW answer \in Answers \ {"uploaded", "queued", "left"},
             NEW polled \in Time,
             request' = [request EXCEPT ![r].pc = pc, ![r].answer = answer,
                                        ![r].polled = polled],
             slots' = slots
      PROVE  RequestsOK'
  <2> DEFINE q == [request[r] EXCEPT !.pc = pc, !.answer = answer,
                                     !.polled = polled]
  <2>1. RequestOK(q) /\ (q.slot <=> request[r].slot)
    BY <1>1, <1>2 DEF RequestOK, RequestRecord, TakesSlot
  <2>2. request' = [request EXCEPT ![r] = q] /\ slots' = slots
    BY <1>3
  <2> HIDE DEF q
  <2> QED
    BY <2>1, <2>2, OneRequest
<1>4. CASE Poll(r)
  <2>1. Answer(request[r].job) \in Answers \ {"uploaded", "queued", "left"}
    BY DEF Answer, Answers
  <2> QED
    BY <1>3, <1>4, <2>1 DEF Poll
<1>5. CASE TickerFires(r)
  <2> DEFINE q == [request[r] EXCEPT !.pc = "polling"]
  <2>1. RequestOK(q) /\ (q.slot <=> request[r].slot)
    BY <1>1, <1>2 DEF RequestOK, RequestRecord, TakesSlot
  <2>2. request' = [request EXCEPT ![r] = q] /\ slots' = slots
    BY <1>5 DEF TickerFires, Goes
  <2> HIDE DEF q
  <2> QED
    BY <2>1, <2>2, OneRequest
<1>6. CASE GiveUp(r)
  <2>1. PICK answer \in {"timeout", "left"} :
           /\ answer = "left" => request[r].left \/ request[r].timed
           /\ request' = [request EXCEPT ![r].pc = "deleting",
                                         ![r].answer = answer]
    BY <1>6 DEF GiveUp
  <2> DEFINE q == [request[r] EXCEPT !.pc = "deleting", !.answer = answer]
  <2>2. answer \in Answers
    BY DEF Answers
  <2>3. RequestOK(q) /\ (q.slot <=> request[r].slot)
    BY <1>1, <1>2, <2>1, <2>2 DEF RequestOK, RequestRecord, TakesSlot
  <2>4. request' = [request EXCEPT ![r] = q] /\ slots' = slots
    BY <1>6, <2>1 DEF GiveUp
  <2> HIDE DEF q
  <2> QED
    BY <2>3, <2>4, OneRequest
<1>7. CASE Leave(r)
  <2> DEFINE q == [request[r] EXCEPT !.left = TRUE]
  <2>1. RequestOK(q) /\ (q.slot <=> request[r].slot)
    BY <1>1, <1>2 DEF RequestOK, RequestRecord, TakesSlot
  <2>2. request' = [request EXCEPT ![r] = q] /\ slots' = slots
    BY <1>7 DEF Leave
  <2> HIDE DEF q
  <2> QED
    BY <2>1, <2>2, OneRequest
<1> QED
  BY <1>4, <1>5, <1>6, <1>7

LEMMA OwnStepsOK ==
    ASSUME RequestsOK, clock \in Time, NEW r \in Request, OwnSteps(r)
    PROVE  RequestsOK'
<1>1. RequestOK(request[r])
  BY DEF RequestsOK
<1>2. CASE FileRefused(r) \/ FormRefused(r) \/ OptionsRefused(r)
           \/ SubmissionRefused(r)
  BY <1>2, FailsOK DEF FileRefused, FormRefused, OptionsRefused,
                       SubmissionRefused
<1>3. CASE FormRead(r)
  <2> DEFINE q == [request[r] EXCEPT !.pc = "parsed"]
  <2>1. /\ request[r].pc = "reading" /\ request[r].kind = "sync"
        /\ request[r].body = "read"
    BY <1>3 DEF FormRead
  <2>2. RequestOK(q) /\ (q.slot <=> request[r].slot)
    BY <1>1, <2>1 DEF RequestOK, RequestRecord, TakesSlot
  <2>3. request' = [request EXCEPT ![r] = q] /\ slots' = slots
    BY <1>3 DEF FormRead, Goes
  <2> HIDE DEF q
  <2> QED
    BY <2>2, <2>3, OneRequest
<1> QED
  BY <1>2, <1>3, ArrivalOK, BodyOK, WaitOK DEF OwnSteps

LEMMA StepRequestsOK ==
    ASSUME RequestsOK, clock \in Time, [RequestsNext]_allVars
    PROVE  RequestsOK'
<1>1. CASE UNCHANGED requestVars
  BY <1>1 DEF requestVars, RequestsOK, Holders
<1>2. CASE \E r \in Request : SaveSteps(r) \/ QueueSteps(r) \/ OwnSteps(r)
  BY <1>2, SaveStepsOK, QueueStepsOK, OwnStepsOK
<1> QED
  BY <1>1, <1>2, StepsOfRequests DEF allVars, Others, TimePasses

-----------------------------------------------------------------------------
(* Whose an upload is *)

Given == {"uploaded", "queued"}

\* An upload that no job references, or that is gone.
Unused(u) ==
    \/ upload[u].state = "stored" /\ upload[u].job = NoJob
    \/ upload[u].state = "gone"

\* An upload and its job, which are there together and go together.
Tied(u, j) ==
    \/ upload[u].state = "stored" /\ upload[u].job = j
    \/ upload[u].state = "gone" /\ job[j].status = "gone"

\* What becomes of the upload and of the job of r, at each point of its code.
Fate(r) ==
    LET q == request[r]
        u == request[r].upload
    IN  /\ u # NoUpload => upload[u].state # "unborn"
        /\ q.pc = "idle" => u = NoUpload
        /\ q.pc = "saving" => upload[u].state \in Saving
        /\ q.pc \in {"reading", "parsed", "failing"} /\ u # NoUpload => Unused(u)
        /\ q.pc \in {"idle", "reading", "saving", "parsed", "failing"}
              => q.job = NoJob
        /\ q.pc \in {"polling", "sleeping", "deleting"}
              => u \in Upload /\ Tied(u, q.job)
        /\ q.pc # "done" => q.answer \notin Given
        /\ q.pc = "done" =>
              \/ q.answer \in Given /\ q.kind # "sync" /\ u # NoUpload
              \/ /\ q.answer \notin Given
                 /\ u # NoUpload => upload[u].state = "gone"
                 /\ q.job # NoJob => job[q.job].status = "gone"

\* No two requests have the same upload.
Distinct ==
    \A r, q \in Request :
        request[r].upload = request[q].upload /\ request[r].upload # NoUpload
        => r = q

\* Every request knows the fate of its own upload, and no other has it.
Owned ==
    /\ Distinct
    /\ \A r \in Request : Fate(r)
    /\ UploadsAreOwned

\* What a step does to an upload that it does not save or submit.
Kept(u) ==
    \/ upload'[u].state = upload[u].state /\ upload'[u].job = upload[u].job
    \/ /\ upload[u].state = "stored" /\ upload'[u].state = "gone"
       /\ upload[u].job # NoJob => job'[upload[u].job].status = "gone"

LEMMA TargetKeeps ==
    ASSUME NEW v \in Upload,
           \/ SaveNext(v)
           \/ \E j \in Job, t \in RecentPast : Submit(v, j, t),
           NEW u \in Upload \ {v}, Types
    PROVE  Kept(u)
BY DEF SaveNext, SaveBegin, SaveWrite, SaveDrop, SaveReject, SaveCommit, SaveEOF,
       Submit, Kept, Types, TypeOK

LEMMA DiscardKeeps ==
    ASSUME Types, NEW v \in Upload, DiscardUpload(v), NEW u \in Upload
    PROVE  Kept(u)
BY DEF DiscardUpload, Kept, Types, TypeOK, NoEntry

LEMMA DeleteKeeps ==
    ASSUME Types, Links, NEW j \in Job, Delete(j), NEW u \in Upload
    PROVE  Kept(u)
<1>1. job \in [Job -> JobRecord] /\ upload \in [Upload -> UploadRecord]
  BY DEF Types, TypeOK
<1>2. /\ upload[job[j].upload].state = "stored"
      /\ upload[job[j].upload].job = j
  BY DEF Delete, Links, LinksAgree
<1>3. job'[j].status = "gone"
  BY <1>1 DEF Delete, NoRecord
<1>4. upload'[u] = IF u = job[j].upload THEN NoEntry("gone") ELSE upload[u]
  BY <1>1 DEF Delete
<1> QED
  BY <1>2, <1>3, <1>4 DEF Kept, NoEntry

\* Charges end, and nothing else.
LEMMA ReleaseKeeps ==
    ASSUME Types, NEW S, NEW u \in Upload,
           upload' = [v \in Upload |-> IF v \in S THEN [upload[v] EXCEPT !.bytes = 0]
                                      ELSE upload[v]]
    PROVE  Kept(u)
BY DEF Kept, Types, TypeOK, UploadRecord

LEMMA WorkerKeeps ==
    ASSUME Types, NEW j \in Job, NEW k, NEW t, WorkerNext(j, k, t),
           NEW u \in Upload
    PROVE  Kept(u)
<1>1. ASSUME NEW ended, Settle(j, ended)
      PROVE  Kept(u)
  <2>1. upload' = [v \in Upload |-> IF v \in {job[j].upload}
                                   THEN [upload[v] EXCEPT !.bytes = 0]
                                   ELSE upload[v]]
    BY <1>1 DEF Settle, Types, TypeOK
  <2> QED
    BY <2>1, ReleaseKeeps
<1>2. CASE Heartbeat(j, k, t) \/ FinishRetry(j, k, t)
  BY <1>2 DEF Heartbeat, FinishRetry, Kept
<1> QED
  BY <1>1, <1>2 DEF WorkerNext, FinishResult, FinishError

LEMMA CleanupKeeps ==
    ASSUME Types, Links, NEW t \in RecentPast, CleanupLocked(t), NEW u \in Upload
    PROVE  Kept(u)
<1>1. \/ /\ upload[u].job \in Old(t) \/ u \in Abandoned(t)
         /\ upload'[u] = NoEntry("gone")
      \/ upload'[u] = [upload[u] EXCEPT !.bytes = 0]
      \/ upload'[u] = upload[u]
  BY CleanupEffect
<1>2. CASE upload[u].job \in Old(t) /\ upload'[u] = NoEntry("gone")
  <2>1. job'[upload[u].job] = NoRecord("gone") /\ upload[u].job \in Job
    BY <1>2, CleanupEffect
  <2>2. upload[u].state = "stored"
    BY <2>1, IdentifiersAssumption DEF Links, EntriesOK
  <2> QED
    BY <1>2, <2>1, <2>2 DEF Kept, NoEntry, NoRecord
<1>3. CASE u \in Abandoned(t) /\ upload'[u] = NoEntry("gone")
  BY <1>3 DEF Abandoned, Kept, NoEntry
<1>4. CASE upload'[u] = [upload[u] EXCEPT !.bytes = 0]
  BY <1>4 DEF Kept, Types, TypeOK, UploadRecord
<1>5. CASE upload'[u] = upload[u]
  BY <1>5 DEF Kept
<1> QED
  BY <1>1, <1>2, <1>3, <1>4, <1>5

LEMMA OthersKeep ==
    ASSUME Types, Links, NEW u \in Upload,
           \/ \E j \in Job : Delete(j)
           \/ \E t \in RecentPast : Claim(t) \/ CleanupLocked(t)
           \/ \E j \in Job : \E k \in Issued(j), t \in RecentPast : WorkerNext(j, k, t)
           \/ SweepNext \/ Tick
    PROVE  Kept(u)
<1>1. ASSUME NEW t \in RecentPast, Claim(t)
      PROVE  Kept(u)
  <2>1. PICK next : ClaimWith(next, t)
    BY <1>1 DEF Claim
  <2> QED
    BY <2>1, ReleaseKeeps DEF ClaimWith
<1>2. ASSUME NEW t \in RecentPast, CleanupLocked(t)
      PROVE  Kept(u)
  BY <1>2, CleanupKeeps
<1>3. ASSUME NEW j \in Job, NEW k \in Issued(j), NEW t \in RecentPast,
             WorkerNext(j, k, t)
      PROVE  Kept(u)
  BY <1>3, WorkerKeeps
<1>4. CASE SweepNext \/ Tick
  BY <1>4 DEF SweepNext, CleanupList, CleanupEntry, CleanupRemove, CleanupReturn,
              Tick, Kept
<1> QED
  BY <1>1, <1>2, <1>3, <1>4, DeleteKeeps

\* A job that is gone stays gone.
GoneStays == \A j \in Job : job[j].status = "gone" => job'[j].status = "gone"

\* Who does nothing keeps what it has, or loses it altogether.
LEMMA FateKept ==
    ASSUME GoneStays, RequestsOK, NEW r \in Request, Fate(r),
           request'[r] = request[r],
           request[r].upload # NoUpload => Kept(request[r].upload)
    PROVE  Fate(r)'
<1>1. request[r] \in RequestRecord /\ RequestOK(request[r])
  BY DEF RequestsOK, RequestOK
<1> DEFINE u == request[r].upload
           j == request[r].job
<1>2. u \in Upload \cup {NoUpload} /\ j \in Job \cup {NoJob}
  BY <1>1 DEF RequestRecord
<1>3. u # NoUpload =>
        /\ upload[u].state # "unborn" => upload'[u].state # "unborn"
        /\ upload[u].state \in Saving => upload'[u].state \in Saving
        /\ upload[u].state = "gone" => upload'[u].state = "gone"
        /\ Unused(u) => Unused(u)'
  BY DEF Kept, Unused, Saving
<1>4. u # NoUpload /\ j \in Job /\ Tied(u, j) => Tied(u, j)'
  BY IdentifiersAssumption DEF Kept, Tied, GoneStays
<1>5. request[r].pc \in {"polling", "sleeping", "deleting"} => j \in Job
  BY <1>1 DEF RequestOK
<1>6. j # NoJob /\ job[j].status = "gone" => job'[j].status = "gone"
  BY <1>2 DEF GoneStays
<1>7. request[r].pc = "saving" => u \in Upload
  BY <1>1 DEF RequestOK
<1>8. u \in Upload => u # NoUpload
  BY IdentifiersAssumption
<1> QED
  BY <1>3, <1>4, <1>5, <1>6, <1>7, <1>8 DEF Fate, Unused, Tied

\* A step of r, which becomes q and touches no upload but v, its own or a new one.
LEMMA OneOwner ==
    ASSUME Owned, RequestsOK, GoneStays, NEW r \in Request, NEW q,
           request' = [request EXCEPT ![r] = q],
           NEW v \in {NoUpload, q.upload, request[r].upload},
           \A u \in Upload : u # v => Kept(u),
           \/ q.upload \in {NoUpload, request[r].upload}
           \/ q.upload \in Upload /\ upload[q.upload].state = "unborn",
           \/ request[r].upload \in {NoUpload, q.upload}
           \/ upload'[request[r].upload].state = "gone",
           Fate(r)'
    PROVE  Owned'
<1> DEFINE own == request[r].upload
<1>1. /\ request'[r] = q
      /\ \A p \in Request \ {r} : request'[p] = request[p]
  BY DEF RequestsOK
<1>2. \A p \in Request : request[p].upload \in Upload \cup {NoUpload}
  BY DEF RequestsOK, RequestOK, RequestRecord
<1>3. /\ \A p \in Request : Fate(p)
      /\ \A p \in Request : request[p].upload # NoUpload
                            => upload[request[p].upload].state # "unborn"
  BY DEF Owned, Fate
<1>4. \A p \in Request \ {r} : request[p].upload # NoUpload
        => request[p].upload # q.upload /\ request[p].upload # own
  BY <1>3 DEF Owned, Distinct
<1>5. Distinct'
  <2> SUFFICES ASSUME NEW p \in Request, NEW o \in Request,
                      request'[p].upload = request'[o].upload,
                      request'[p].upload # NoUpload
               PROVE  p = o
    BY DEF Distinct
  <2>1. CASE p = r \/ o = r
    BY <1>1, <1>4, <2>1
  <2>2. CASE p # r /\ o # r
    BY <1>1, <2>2 DEF Owned, Distinct
  <2> QED
    BY <2>1, <2>2
<1>6. \A p \in Request : Fate(p)'
  <2> SUFFICES ASSUME NEW p \in Request, p # r PROVE Fate(p)'
    OBVIOUS
  <2>1. request[p].upload # NoUpload => Kept(request[p].upload)
    BY <1>2, <1>4
  <2> QED
    BY <1>1, <1>3, <2>1, FateKept
<1>7. UploadsAreOwned'
  <2> SUFFICES ASSUME NEW u \in Upload,
                      upload'[u].state \notin {"unborn", "gone"}
               PROVE  \E p \in Request :
                         /\ request'[p].upload = u
                         /\ \/ request'[p].pc # "done"
                            \/ request'[p].answer \in Given
    BY DEF UploadsAreOwned, Given
  <2>1. u # NoUpload
    BY IdentifiersAssumption
  <2>2. CASE u = q.upload
    BY <1>1, <2>1, <2>2 DEF Fate
  <2>3. CASE u # q.upload
    <3>1. u # own /\ u # v
      BY <2>1, <2>3
    <3>2. upload[u].state \notin {"unborn", "gone"}
      BY <3>1 DEF Kept
    <3>3. PICK p \in Request :
             /\ request[p].upload = u
             /\ request[p].pc # "done" \/ request[p].answer \in Given
      BY <3>2 DEF Owned, UploadsAreOwned, Given
    <3> QED
      BY <1>1, <3>1, <3>3
  <2> QED
    BY <2>2, <2>3
<1> QED
  BY <1>5, <1>6, <1>7 DEF Owned

\* Until it commits, a Save leaves its entry among the saving ones.
LEMMA SavingOn ==
    ASSUME upload \in [Upload -> UploadRecord], NEW u \in Upload,
           SaveWrite(u) \/ SaveDrop(u) \/ \E n \in Size : SaveEOF(u, n)
    PROVE  upload'[u].state \in {"writing", "written", "dropped"}
<1>0. upload[u] \in UploadRecord
  OBVIOUS
<1>1. CASE SaveWrite(u)
  BY <1>0, <1>1 DEF SaveWrite, UploadRecord
<1>2. CASE SaveDrop(u)
  BY <1>0, <1>2 DEF SaveDrop, UploadRecord
<1>3. CASE \E n \in Size : SaveEOF(u, n)
  <2>1. PICK n \in Size : SaveEOF(u, n)
    BY <1>3
  <2>2. upload' = [upload EXCEPT ![u].state = "written", ![u].size = n]
    BY <2>1 DEF SaveEOF
  <2>3. upload'[u].state = "written"
    BY <1>0, <2>2 DEF UploadRecord
  <2> QED
    BY <2>3
<1> QED
  BY <1>1, <1>2, <1>3

LEMMA SaveStepsOwned ==
    ASSUME Types, Links, RequestsOK, Owned, GoneStays,
           NEW r \in Request, SaveSteps(r)
    PROVE  Owned'
<1>1. /\ RequestOK(request[r]) /\ request[r] \in RequestRecord
      /\ request = [p \in Request |-> request[p]]
  BY DEF RequestsOK, RequestOK
<1>2. Fate(r) /\ upload \in [Upload -> UploadRecord]
  BY DEF Owned, Types, TypeOK
<1> DEFINE own == request[r].upload
<1>3. CASE \E u \in Upload : FileBegins(r, u)
  <2>1. PICK u \in Upload : FileBegins(r, u)
    BY <1>3
  <2> DEFINE q == [request[r] EXCEPT !.pc = "saving", !.upload = u]
  <2>2. /\ request' = [request EXCEPT ![r] = q] /\ request'[r] = q
        /\ request[r].pc = "reading" /\ request[r].upload = NoUpload
        /\ SaveBegin(u)
    BY <1>1, <2>1 DEF FileBegins
  <2>3. /\ q.upload = u /\ q.pc = "saving" /\ q.job = request[r].job
        /\ q.answer = request[r].answer
    BY <1>1 DEF RequestRecord
  <2>4. upload[u].state = "unborn" /\ upload'[u].state = "reserved"
    BY <1>2, <2>2 DEF SaveBegin, NoEntry
  <2>5. Fate(r)'
    BY <1>2, <2>2, <2>3, <2>4 DEF Fate, Saving
  <2>6. \A w \in Upload : w # u => Kept(w)
    BY <2>2, TargetKeeps DEF SaveNext
  <2> HIDE DEF q
  <2> QED
    BY <2>2, <2>3, <2>4, <2>5, <2>6, OneOwner
<1>4. ASSUME request[r].pc = "saving"
      PROVE  own \in Upload /\ own # NoUpload /\ upload[own].state \in Saving
  BY <1>1, <1>2, <1>4, IdentifiersAssumption DEF RequestOK, Fate
<1>5. CASE FileSaves(r) \/ FileDropped(r)
  <2>1. request[r].pc = "saving" /\ request' = request
    BY <1>5 DEF FileSaves, FileDropped, requestVars
  <2>2. SaveWrite(own) \/ SaveDrop(own) \/ \E n \in Size : SaveEOF(own, n)
    BY <1>5 DEF FileSaves, FileDropped
  <2>0. own \in Upload
    BY <1>4, <2>1
  <2>6. SaveNext(own)
    BY <2>2 DEF SaveNext
  <2>7. upload'[own].state \in {"writing", "written", "dropped"}
    BY <1>2, <2>0, <2>2, SavingOn
  <2>3. request' = [request EXCEPT ![r] = request[r]] /\ request'[r] = request[r]
    BY <1>1, <2>1
  <2>4. Fate(r)'
    BY <1>2, <2>1, <2>7, <2>3 DEF Fate, Saving
  <2>5. \A w \in Upload : w # own => Kept(w)
    BY <2>0, <2>6, TargetKeeps
  <2> QED
    BY <2>3, <2>4, <2>5, OneOwner
<1>6. CASE FileSaved(r)
  <2>1. request[r].pc = "saving" /\ SaveCommit(own)
    BY <1>6 DEF FileSaved
  <2>2. upload[own].job = NoJob
    BY <1>4, <2>1 DEF Links, EntriesOK, Saving
  <2>3. upload'[own].state = "stored" /\ upload'[own].job = NoJob
    BY <1>2, <1>4, <2>1, <2>2 DEF SaveCommit, UploadRecord
  <2>4. \A w \in Upload : w # own => Kept(w)
    BY <1>4, <2>1, TargetKeeps DEF SaveNext
  <2>5. ASSUME NEW pc \in {"reading", "parsed"}, Goes(r, pc)
        PROVE  Owned'
    <3> DEFINE q == [request[r] EXCEPT !.pc = pc]
    <3>1. /\ request' = [request EXCEPT ![r] = q] /\ request'[r] = q
          /\ q.upload = own /\ q.pc = pc /\ q.job = request[r].job
          /\ q.answer = request[r].answer
      BY <1>1, <2>5 DEF Goes, RequestRecord
    <3>2. Fate(r)'
      BY <1>2, <2>1, <2>3, <3>1 DEF Fate, Unused
    <3> HIDE DEF q
    <3> QED
      BY <2>4, <3>1, <3>2, OneOwner
  <2>6. CASE /\ request[r].kind = "upload"
             /\ request' = [request EXCEPT
                               ![r] = Answered(r, NoJob, "uploaded")]
    <3> DEFINE q == Answered(r, NoJob, "uploaded")
    <3>1. /\ request'[r] = q
          /\ q.upload = own /\ q.pc = "done" /\ q.job = NoJob
          /\ q.answer = "uploaded" /\ q.kind = "upload"
      BY <1>1, <2>6 DEF Answered, NoRequest
    <3>2. Fate(r)'
      BY <1>4, <2>1, <2>3, <3>1 DEF Fate, Given
    <3> HIDE DEF q
    <3> QED
      BY <2>4, <2>6, <3>1, <3>2, OneOwner
  <2> QED
    BY <1>6, <2>5, <2>6 DEF FileSaved
<1>7. CASE FileFails(r)
  <2> DEFINE q == [request[r] EXCEPT !.pc = "failing", !.upload = NoUpload,
                                     !.answer = "refused"]
  <2>1. request[r].pc = "saving" /\ SaveReject(own)
    BY <1>7 DEF FileFails
  <2>2. /\ request' = [request EXCEPT ![r] = q] /\ request'[r] = q
        /\ q.upload = NoUpload /\ q.pc = "failing" /\ q.job = request[r].job
        /\ q.answer = "refused"
    BY <1>1, <1>7 DEF FileFails, RequestRecord
  <2>3. upload'[own].state = "gone"
    BY <1>2, <1>4, <2>1 DEF SaveReject, NoEntry
  <2>4. Fate(r)'
    BY <1>2, <2>1, <2>2 DEF Fate, Given
  <2>5. \A w \in Upload : w # own => Kept(w)
    BY <1>4, <2>1, TargetKeeps DEF SaveNext
  <2> HIDE DEF q
  <2> QED
    BY <2>2, <2>3, <2>4, <2>5, OneOwner
<1> QED
  BY <1>3, <1>5, <1>6, <1>7 DEF SaveSteps

\* The handler returns with an answer that gives nothing away.
LEMMA AnsweredOwned ==
    ASSUME Types, Links, RequestsOK, Owned, GoneStays, NEW r \in Request,
           request' = [request EXCEPT ![r] =
                          Answered(r, request[r].job, request[r].answer)],
           request[r].pc # "done",
           \A u \in Upload : Kept(u),
           request[r].upload # NoUpload
              => upload'[request[r].upload].state = "gone",
           request[r].job # NoJob => job'[request[r].job].status = "gone"
    PROVE  Owned'
<1> DEFINE q == Answered(r, request[r].job, request[r].answer)
<1>1. request = [p \in Request |-> request[p]]
  BY DEF RequestsOK
<1>2. /\ request'[r] = q /\ q.upload = request[r].upload /\ q.pc = "done"
      /\ q.job = request[r].job /\ q.answer = request[r].answer
  BY <1>1 DEF Answered, NoRequest
<1>3. request[r].answer \notin Given
  BY DEF Owned, Fate
<1>4. Fate(r)'
  BY <1>2, <1>3 DEF Fate
<1> HIDE DEF q
<1> QED
  BY <1>2, <1>4, OneOwner

LEMMA QueueStepsOwned ==
    ASSUME Types, Links, RequestsOK, Owned, GoneStays,
           NEW r \in Request, QueueSteps(r)
    PROVE  Owned'
<1>1. /\ RequestOK(request[r]) /\ request[r] \in RequestRecord
      /\ request = [p \in Request |-> request[p]]
  BY DEF RequestsOK, RequestOK
<1>2. /\ Fate(r) /\ upload \in [Upload -> UploadRecord]
      /\ job \in [Job -> JobRecord]
  BY DEF Owned, Types, TypeOK
<1> DEFINE own == request[r].upload
<1>3. own \in Upload \cup {NoUpload} /\ NoUpload \notin Upload
  BY <1>1, IdentifiersAssumption DEF RequestRecord
<1>4. CASE \E j \in Job, t \in RecentPast : JobSubmitted(r, j, t)
  <2>1. PICK j \in Job, t \in RecentPast : JobSubmitted(r, j, t)
    BY <1>4
  <2>2. /\ request[r].pc = "parsed" /\ own \in Upload /\ Submit(own, j, t)
        /\ request[r].kind \in {"sync", "url"}
    BY <1>1, <1>3, <2>1 DEF JobSubmitted, RequestOK
  <2>3. upload'[own].state = "stored" /\ upload'[own].job = j
    BY <1>2, <2>2 DEF Submit, UploadRecord
  <2>4. \A w \in Upload : w # own => Kept(w)
    BY <2>2, TargetKeeps
  <2>5. CASE request[r].kind = "sync"
    <3> DEFINE q == [request[r] EXCEPT !.pc = "polling", !.job = j,
                                       !.since = clock]
    <3>1. /\ request' = [request EXCEPT ![r] = q] /\ request'[r] = q
          /\ q.upload = own /\ q.pc = "polling" /\ q.job = j
          /\ q.answer = request[r].answer
      BY <1>1, <2>1, <2>5 DEF JobSubmitted, RequestRecord
    <3>2. Fate(r)'
      BY <1>2, <1>3, <2>2, <2>3, <3>1, ZenonT(40) DEF Fate, Tied
    <3> HIDE DEF q
    <3> QED
      BY <2>4, <3>1, <3>2, OneOwner
  <2>6. CASE request[r].kind = "url"
    <3> DEFINE q == Answered(r, j, "queued")
    <3>1. /\ request' = [request EXCEPT ![r] = q] /\ request'[r] = q
          /\ q.upload = own /\ q.pc = "done" /\ q.kind = "url"
          /\ q.answer = "queued"
      BY <1>1, <2>1, <2>6 DEF JobSubmitted, Answered, NoRequest
    <3>2. Fate(r)'
      BY <1>3, <2>2, <2>3, <3>1 DEF Fate, Given
    <3> HIDE DEF q
    <3> QED
      BY <2>4, <3>1, <3>2, OneOwner
  <2> QED
    BY <2>2, <2>5, <2>6
<1>5. CASE Failed(r)
  <2>1. /\ request[r].pc = "failing" /\ request[r].job = NoJob
        /\ own # NoUpload => Unused(own)
    BY <1>2, <1>5 DEF Failed, Fate
  <2>2. CASE Discards(r)
    <3>1. DiscardUpload(own) /\ own \in Upload
      BY <1>3, <1>5, <2>2 DEF Failed, Discards
    <3>2. upload'[own].state = "gone"
      BY <1>2, <3>1 DEF DiscardUpload, NoEntry
    <3> QED
      BY <1>5, <2>1, <3>1, <3>2, DiscardKeeps, AnsweredOwned DEF Failed
  <2>3. CASE ~Discards(r)
    <3>1. UNCHANGED vars
      BY <1>5, <2>3 DEF Failed
    <3>2. upload' = upload /\ \A u \in Upload : Kept(u)
      BY <3>1 DEF vars, Kept
    <3>3. own # NoUpload => upload[own].state = "gone"
      BY <2>1, <2>3 DEF Discards, Unused
    <3> QED
      BY <1>5, <2>1, <3>2, <3>3, AnsweredOwned DEF Failed
  <2> QED
    BY <2>2, <2>3
<1>6. CASE Returned(r)
  <2> DEFINE j == request[r].job
  <2>1. /\ request[r].pc = "deleting" /\ own \in Upload /\ j \in Job
        /\ Tied(own, j)
    BY <1>1, <1>2, <1>6 DEF Returned, Fate, RequestOK
  <2>2. CASE Deletes(r)
    <3>1. Delete(j) /\ job[j].status \in Live
      BY <1>6, <2>2 DEF Returned, Deletes
    <3>2. own = job[j].upload
      BY <2>1, <3>1, IdentifiersAssumption
         DEF Tied, Links, LinksAgree, Live, Pending, Finished
    <3>3. upload'[own].state = "gone" /\ job'[j].status = "gone"
      BY <1>2, <2>1, <3>1, <3>2 DEF Delete, NoEntry, NoRecord
    <3> QED
      BY <1>6, <2>1, <3>1, <3>3, DeleteKeeps, AnsweredOwned DEF Returned
  <2>3. CASE ~Deletes(r)
    <3>1. UNCHANGED vars
      BY <1>6, <2>3 DEF Returned
    <3>2. upload' = upload /\ job' = job /\ \A u \in Upload : Kept(u)
      BY <3>1 DEF vars, Kept
    <3>3. upload[own].state = "gone" /\ job[j].status = "gone"
      BY <2>1, <2>3, IdentifiersAssumption
         DEF Deletes, Tied, Links, LinksAgree
    <3> QED
      BY <1>6, <2>1, <3>2, <3>3, AnsweredOwned DEF Returned
  <2> QED
    BY <2>2, <2>3
<1> QED
  BY <1>4, <1>5, <1>6 DEF QueueSteps

\* A step of r alone, after which it has the upload and the job it had.
LEMMA AloneOwned ==
    ASSUME RequestsOK, Owned, GoneStays, UNCHANGED vars, NEW r \in Request,
           NEW q, request' = [request EXCEPT ![r] = q],
           q.upload = request[r].upload, Fate(r)'
    PROVE  Owned'
<1>1. \A u \in Upload : Kept(u)
  BY DEF vars, Kept
<1> QED
  BY <1>1, OneOwner

LEMMA OwnStepsOwned ==
    ASSUME RequestsOK, Owned, GoneStays, NEW r \in Request, OwnSteps(r)
    PROVE  Owned'
<1>1. /\ RequestOK(request[r]) /\ request[r] \in RequestRecord
      /\ request = [p \in Request |-> request[p]]
  BY DEF RequestsOK, RequestOK
<1>2. Fate(r) /\ UNCHANGED vars /\ upload' = upload /\ job' = job
  BY OwnStepsStutter DEF Owned, vars
<1>3. CASE \E kind \in Kind : Arrive(r, kind) \/ ArriveRefused(r, kind)
  <2>1. PICK kind \in Kind : Arrive(r, kind) \/ ArriveRefused(r, kind)
    BY <1>3
  <2>2. request[r].pc = "idle" /\ request[r].upload = NoUpload
    BY <1>2, <2>1 DEF Arrive, ArriveRefused, Fate
  <2>3. ASSUME NEW q, request' = [request EXCEPT ![r] = q],
               q.pc \in {"reading", "done"}, q.upload = NoUpload, q.job = NoJob,
               q.answer \in {"none", "refused"}
        PROVE  Owned'
    <3>1. request'[r] = q
      BY <1>1, <2>3
    <3>2. Fate(r)'
      BY <2>3, <3>1 DEF Fate, Given
    <3> QED
      BY <1>2, <2>2, <2>3, <3>2, AloneOwned
  <2>4. CASE Arrive(r, kind)
    <3> DEFINE q == [NoRequest EXCEPT
                       !.pc = "reading", !.kind = kind, !.since = clock,
                       !.body = IF TakesSlot(kind) THEN "arriving" ELSE "read",
                       !.slot = TakesSlot(kind), !.timed = TakesSlot(kind)]
    <3>1. request' = [request EXCEPT ![r] = q]
      BY <2>4 DEF Arrive
    <3>2. /\ q.pc = "reading" /\ q.upload = NoUpload /\ q.job = NoJob
          /\ q.answer = "none"
      BY DEF NoRequest
    <3> HIDE DEF q
    <3> QED
      BY <2>3, <3>1, <3>2
  <2>5. CASE ArriveRefused(r, kind)
    <3> DEFINE q == [NoRequest EXCEPT !.pc = "done", !.kind = kind,
                                      !.answer = "refused"]
    <3>1. request' = [request EXCEPT ![r] = q]
      BY <2>5 DEF ArriveRefused
    <3>2. /\ q.pc = "done" /\ q.upload = NoUpload /\ q.job = NoJob
          /\ q.answer = "refused"
      BY DEF NoRequest
    <3> HIDE DEF q
    <3> QED
      BY <2>3, <3>1, <3>2
  <2> QED
    BY <2>1, <2>4, <2>5
<1>4. ASSUME NEW q, request' = [request EXCEPT ![r] = q],
             q.upload = request[r].upload, q.job = request[r].job,
             q.kind = request[r].kind,
             \/ q.pc = request[r].pc /\ q.answer = request[r].answer
             \/ /\ q.pc \in {"parsed", "failing"}
                /\ request[r].pc \in {"reading", "parsed"}
                /\ q.answer \notin Given
             \/ /\ q.pc \in {"polling", "sleeping", "deleting"}
                /\ request[r].pc \in {"polling", "sleeping"}
                /\ q.answer \notin Given
      PROVE  Owned'
  <2>1. request'[r] = q
    BY <1>1, <1>4
  <2>2. Fate(r)'
    BY <1>2, <1>4, <2>1 DEF Fate, Unused, Tied
  <2> QED
    BY <1>2, <1>4, <2>2, AloneOwned
<1>5. CASE BodyEnds(r) \/ BodyFails(r) \/ Leave(r)
  <2>1. ASSUME NEW body \in {request[r].body, "read", "failed"},
               NEW slot \in BOOLEAN, NEW timed \in BOOLEAN, NEW left \in BOOLEAN,
               request' = [request EXCEPT
                             ![r] = [@ EXCEPT !.body = body, !.slot = slot,
                                              !.timed = timed, !.left = left]]
        PROVE  Owned'
    <3> DEFINE q == [request[r] EXCEPT !.body = body, !.slot = slot,
                                       !.timed = timed, !.left = left]
    <3>1. request' = [request EXCEPT ![r] = q]
      BY <2>1
    <3>2. /\ q.upload = request[r].upload /\ q.job = request[r].job
          /\ q.kind = request[r].kind /\ q.pc = request[r].pc
          /\ q.answer = request[r].answer
      BY <1>1 DEF RequestRecord
    <3> HIDE DEF q
    <3> QED
      BY <1>4, <3>1, <3>2
  <2>2. /\ request[r].slot \in BOOLEAN /\ request[r].timed \in BOOLEAN
        /\ request[r].left \in BOOLEAN
    BY <1>1 DEF RequestRecord
  <2>3. CASE BodyEnds(r)
    <3>1. request' = [request EXCEPT
                        ![r] = [@ EXCEPT !.body = "read", !.slot = FALSE,
                                         !.timed = FALSE, !.left = request[r].left]]
      BY <1>1, <2>3 DEF BodyEnds, RequestRecord
    <3> QED
      BY <2>1, <2>2, <3>1
  <2>4. CASE BodyFails(r)
    <3>1. request' = [request EXCEPT
                        ![r] = [@ EXCEPT !.body = "failed", !.slot = request[r].slot,
                                         !.timed = request[r].timed,
                                         !.left = request[r].left]]
      BY <1>1, <2>4 DEF BodyFails, RequestRecord
    <3> QED
      BY <2>1, <2>2, <3>1
  <2>5. CASE Leave(r)
    <3>1. request' = [request EXCEPT
                        ![r] = [@ EXCEPT !.body = request[r].body,
                                         !.slot = request[r].slot,
                                         !.timed = request[r].timed, !.left = TRUE]]
      BY <1>1, <2>5 DEF Leave, RequestRecord
    <3> QED
      BY <2>1, <2>2, <3>1
  <2> QED
    BY <1>5, <2>3, <2>4, <2>5
<1>6. ASSUME NEW pc, NEW answer, NEW polled,
             request' = [request EXCEPT ![r] = [@ EXCEPT !.pc = pc,
                                          !.answer = answer, !.polled = polled]],
             \/ /\ pc \in {"parsed", "failing"}
                /\ request[r].pc \in {"reading", "parsed"}
             \/ /\ pc \in {"polling", "sleeping", "deleting"}
                /\ request[r].pc \in {"polling", "sleeping"},
             answer \notin Given
      PROVE  Owned'
  <2> DEFINE q == [request[r] EXCEPT !.pc = pc, !.answer = answer,
                                     !.polled = polled]
  <2>1. request' = [request EXCEPT ![r] = q]
    BY <1>6
  <2>2. /\ q.upload = request[r].upload /\ q.job = request[r].job
        /\ q.kind = request[r].kind /\ q.pc = pc /\ q.answer = answer
    BY <1>1 DEF RequestRecord
  <2> HIDE DEF q
  <2> QED
    BY <1>4, <1>6, <2>1, <2>2
<1>7. request[r].pc # "done" => request[r].answer \notin Given
  BY <1>2 DEF Fate
<1>8. ASSUME NEW answer \in {"refused", "full", "expired"}, Fails(r, answer),
             request[r].pc \in {"reading", "parsed"}
      PROVE  Owned'
  <2>1. request' = [request EXCEPT ![r] = [@ EXCEPT !.pc = "failing",
                                             !.answer = answer,
                                             !.polled = request[r].polled]]
    BY <1>1, <1>8 DEF Fails, RequestRecord
  <2>2. answer \notin Given
    BY DEF Given
  <2> QED
    BY <1>6, <1>8, <2>1, <2>2
<1>9. CASE FileRefused(r) \/ FormRefused(r) \/ OptionsRefused(r)
           \/ SubmissionRefused(r)
  BY <1>8, <1>9 DEF FileRefused, FormRefused, OptionsRefused, SubmissionRefused
<1>10. ASSUME NEW pc \in {"parsed", "polling"}, Goes(r, pc),
              IF pc = "parsed" THEN request[r].pc = "reading"
              ELSE request[r].pc = "sleeping"
       PROVE  Owned'
  <2>1. request' = [request EXCEPT ![r] = [@ EXCEPT !.pc = pc,
                                             !.answer = request[r].answer,
                                             !.polled = request[r].polled]]
    BY <1>1, <1>10 DEF Goes, RequestRecord
  <2>2. request[r].answer \notin Given
    BY <1>7, <1>10
  <2> QED
    BY <1>6, <1>10, <2>1, <2>2
<1>11. CASE FormRead(r) \/ TickerFires(r)
  BY <1>10, <1>11 DEF FormRead, TickerFires
<1>12. CASE Poll(r)
  <2> DEFINE answer == Answer(request[r].job)
             pc == IF answer = "none" THEN "sleeping" ELSE "deleting"
  <2>1. answer \notin Given
    BY DEF Answer, Given
  <2>2. /\ request[r].pc = "polling"
        /\ request' = [request EXCEPT ![r] = [@ EXCEPT !.pc = pc,
                                                !.answer = answer, !.polled = clock]]
    BY <1>12 DEF Poll
  <2>3. pc \in {"sleeping", "deleting"}
    OBVIOUS
  <2> HIDE DEF answer, pc
  <2> QED
    BY <1>6, <2>1, <2>2, <2>3
<1>13. CASE GiveUp(r)
  <2>1. PICK answer \in {"timeout", "left"} :
           request' = [request EXCEPT ![r].pc = "deleting", ![r].answer = answer]
    BY <1>13 DEF GiveUp
  <2>2. request' = [request EXCEPT ![r] = [@ EXCEPT !.pc = "deleting",
                                             !.answer = answer,
                                             !.polled = request[r].polled]]
    BY <1>1, <2>1 DEF RequestRecord
  <2>3. request[r].pc = "sleeping" /\ answer \notin Given
    BY <1>13 DEF GiveUp, Given
  <2> QED
    BY <1>6, <2>2, <2>3
<1> QED
  BY <1>3, <1>5, <1>9, <1>11, <1>12, <1>13 DEF OwnSteps

LEMMA OthersOwned ==
    ASSUME Types, Links, RequestsOK, Owned, GoneStays, Others \/ TimePasses
    PROVE  Owned'
<1>1. request' = request /\ \A r \in Request : Fate(r)
  BY DEF Others, TimePasses, requestVars, Owned
<1>2. \A r \in Request : request[r].upload \in Upload \cup {NoUpload}
  BY DEF RequestsOK, RequestOK, RequestRecord
<1>3. Distinct'
  BY <1>1 DEF Owned, Distinct
<1>4. CASE \A u \in Upload : Kept(u)
  <2>1. \A r \in Request : Fate(r)'
    BY <1>1, <1>2, <1>4, FateKept
  <2>2. UploadsAreOwned'
    BY <1>1, <1>4 DEF Owned, UploadsAreOwned, Kept
  <2> QED
    BY <1>3, <2>1, <2>2 DEF Owned
<1>5. ASSUME NEW v \in Announced, NEW j \in Job, NEW t \in RecentPast,
             Submit(v, j, t)
      PROVE  Owned'
  <2>1. PICK o \in Request : request[o].upload = v /\ request[o].answer \in Given
    BY DEF Announced, Given
  <2>2. v \in Upload /\ v # NoUpload
    BY <1>2, <2>1, IdentifiersAssumption DEF RequestsOK, RequestOK, Given
  <2>3. \A u \in Upload : u # v => Kept(u)
    BY <1>5, <2>2, TargetKeeps
  <2>4. upload'[v].state = "stored"
    BY <1>5, <2>2 DEF Submit, Types, TypeOK, UploadRecord
  <2>5. request[o].pc = "done" /\ request[o].kind # "sync"
    BY <1>1, <2>1 DEF Fate
  <2>6. Fate(o)'
    BY <1>1, <2>1, <2>2, <2>4, <2>5 DEF Fate
  <2>7. ASSUME NEW r \in Request, r # o
        PROVE  Fate(r)'
    <3>1. request[r].upload # v
      BY <2>1, <2>2, <2>7 DEF Owned, Distinct
    <3> QED
      BY <1>1, <1>2, <2>3, <3>1, FateKept
  <2>8. UploadsAreOwned'
    <3> SUFFICES ASSUME NEW u \in Upload,
                        upload'[u].state \notin {"unborn", "gone"}
                 PROVE  \E p \in Request :
                           /\ request[p].upload = u
                           /\ \/ request[p].pc # "done"
                              \/ request[p].answer \in Given
      BY <1>1 DEF UploadsAreOwned, Given
    <3>1. CASE u = v
      BY <2>1, <3>1
    <3>2. CASE u # v
      BY <2>3, <3>2 DEF Kept, Owned, UploadsAreOwned, Given
    <3> QED
      BY <3>1, <3>2
  <2> QED
    BY <1>3, <2>6, <2>7, <2>8 DEF Owned
<1>6. CASE ~\E u \in Announced, j \in Job, t \in RecentPast : Submit(u, j, t)
  <2>1. \/ \E j \in Job : Delete(j)
        \/ \E t \in RecentPast : Claim(t) \/ CleanupLocked(t)
        \/ \E j \in Job : \E k \in Issued(j), t \in RecentPast :
              WorkerNext(j, k, t)
        \/ SweepNext \/ Tick
    BY <1>6 DEF Others, TimePasses
  <2> QED
    BY <1>4, <2>1, OthersKeep
<1> QED
  BY <1>5, <1>6

LEMMA StepOwned ==
    ASSUME Types, Links, RequestsOK, Owned, [RequestsNext]_allVars
    PROVE  Owned'
<1>1. [Next]_vars
  BY RequestsOKImplies, StepRunsStore
<1>2. GoneStays
  BY <1>1, StepOutcomes DEF GoneStays
<1>3. CASE UNCHANGED allVars
  BY <1>3 DEF allVars, requestVars, vars, Owned, Distinct, Fate, Unused, Tied,
              UploadsAreOwned
<1>4. CASE \E r \in Request : SaveSteps(r) \/ QueueSteps(r) \/ OwnSteps(r)
  BY <1>2, <1>4, SaveStepsOwned, QueueStepsOwned, OwnStepsOwned
<1>5. CASE Others \/ TimePasses
  BY <1>2, <1>5, OthersOwned
<1> QED
  BY <1>3, <1>4, <1>5, StepsOfRequests

LEMMA InitOwned == RequestsInit => Owned
<1> SUFFICES ASSUME RequestsInit PROVE Owned
  OBVIOUS
<1>1. \A r \in Request : request[r] = NoRequest
  BY DEF RequestsInit
<1>2. \A r \in Request : Fate(r)
  BY <1>1 DEF Fate, NoRequest, Given
<1>3. Distinct
  BY <1>1 DEF Distinct, NoRequest
<1>4. UploadsAreOwned
  BY DEF RequestsInit, Init, NoEntry, UploadsAreOwned
<1> QED
  BY <1>2, <1>3, <1>4 DEF Owned

-----------------------------------------------------------------------------
(* The theorems *)

LEMMA RequestsInvariant == RequestsSpec => []RequestsOK /\ Spec
<1>1. RequestsInit => Init /\ Types /\ RequestsOK
  BY InitTypes, InitRequestsOK DEF RequestsInit
<1>2. RequestsOK /\ [RequestsNext]_allVars => [Next]_vars
  BY RequestsOKImplies, StepRunsStore
<1>3. Types /\ RequestsOK /\ [RequestsNext]_allVars => (Types /\ RequestsOK)'
  <2>1. Types => clock \in Time
    BY DEF Types, TypeOK
  <2> QED
    BY <1>2, <2>1, StepTypes, StepRequestsOK
<1> QED
  BY <1>1, <1>2, <1>3, PTL DEF RequestsSpec, Spec

\* However many requests run, and whichever way they return, the Store does
\* nothing in their hands that it does not promise: all that is proved of Store
\* holds of the whole API.
THEOREM RequestsRunStore == RequestsSpec => Spec
BY RequestsInvariant

\* So beside any number of requests the quota and the counters stay exact and
\* no audio that is needed is lost.
THEOREM StoreHoldsForRequests ==
    RequestsSpec => [](QuotaExact /\ CountsExact /\ AudioAvailable)
BY RequestsRunStore, QuotaIsExact, CountsAreExact, AudioNeverLost, PTL

\* The channel of slots is exact: a slot is given back once for each that was
\* taken, at the end of the body or of the request.
THEOREM SlotsAreExact == RequestsSpec => []SlotsExact
<1>1. RequestsOK => SlotsExact
  BY RequestsOKImplies
<1> QED
  BY <1>1, RequestsInvariant, PTL

\* A wait is never given up for a deadline that the body has left behind.
THEOREM OnlyDisconnectsLeave == RequestsSpec => []LeftOnlyIfLeft
<1>1. RequestsOK => LeftOnlyIfLeft
  BY DEF RequestsOK, RequestOK, LeftOnlyIfLeft
<1> QED
  BY <1>1, RequestsInvariant, PTL

\* The state of every request keeps its type.
THEOREM RequestsTypeCorrect == RequestsSpec => []RequestsTypeOK
<1>1. RequestsOK => RequestsTypeOK
  BY RequestsOKImplies
<1> QED
  BY <1>1, RequestsInvariant, PTL

LEMMA OwnedInvariant == RequestsSpec => []Owned
<1>1. RequestsInit => Owned
  BY InitOwned
<1>2. Types /\ Links /\ RequestsOK /\ Owned /\ [RequestsNext]_allVars => Owned'
  BY StepOwned
<1>3. RequestsSpec => [](Types /\ Links) /\ []RequestsOK
  BY RequestsInvariant, LinksInvariant, PTL
<1> QED
  BY <1>1, <1>2, <1>3, PTL DEF RequestsSpec

\* Quota is never held for nobody: whatever fails or is refused, an upload that
\* is there has a request that goes on, or a client that knows of it.
THEOREM QuotaIsOwned == RequestsSpec => []UploadsAreOwned
<1>1. Owned => UploadsAreOwned
  BY DEF Owned
<1> QED
  BY <1>1, OwnedInvariant, PTL

\* A synchronous request leaves neither a job nor an upload behind.
THEOREM NothingIsLeft == RequestsSpec => []SyncLeavesNothing
<1>1. Owned => SyncLeavesNothing
  BY DEF Owned, Fate, SyncLeavesNothing
<1> QED
  BY <1>1, OwnedInvariant, PTL

-----------------------------------------------------------------------------
(* Requests come in time *)

\* A request that still fills or parses its form finds what it has saved, for
\* the janitor takes no upload as young as that.  A wait sees its job before
\* the retention of an outcome is over: it looked, or the job ended, a short
\* while ago.
Punctual(r) ==
    LET q == request[r]
        u == request[r].upload
        j == request[r].job
    IN  /\ q.since <= clock /\ q.polled <= clock
        /\ q.pc \in {"reading", "parsed"} /\ u # NoUpload =>
              /\ upload[u].state = "stored"
              /\ q.since <= upload[u].created
              /\ clock <= upload[u].created + MaxSave
        /\ q.pc \in {"polling", "sleeping"} =>
              /\ job[j].status \in Live
              /\ job[j].status \in Finished =>
                    clock <= job[j].updated + PollEvery + Skew
        /\ q.pc = "sleeping" =>
              /\ clock <= q.polled + PollEvery
              /\ job[j].status \in Finished => q.polled <= job[j].updated + Skew
        /\ q.answer # "gone"

AllPunctual == \A r \in Request : Punctual(r)

\* The calls of Store that others make: all but those that save u, discard it
\* or submit it, or delete j.
Elsewhere(u, j) ==
    \/ UNCHANGED vars
    \/ \E v \in Upload : SaveNext(v)
    \/ \E v \in Upload \ {u} : DiscardUpload(v)
    \/ \E i \in Job \ {j} : Delete(i)
    \/ \E v \in Upload \ {u}, i \in Job, t \in RecentPast : Submit(v, i, t)
    \/ \E t \in RecentPast : Claim(t) \/ CleanupLocked(t)
    \/ \E i \in Job : \E k \in Issued(i), t \in RecentPast : WorkerNext(i, k, t)
    \/ SweepNext

\* An upload that waits for its submission, and is young, stays.
Awaits(u) ==
    /\ upload[u].state = "stored" /\ upload[u].job = NoJob
    /\ clock <= upload[u].created + MaxSave

LEMMA YoungIsKept ==
    ASSUME Types, NEW u \in Upload, Awaits(u), NEW t \in RecentPast
    PROVE  u \notin Abandoned(t)
<1>1. /\ t \in Int /\ clock \in Int /\ t <= clock /\ upload[u].created \in Int
      /\ StaleAge \in Int /\ Retention \in Int
      /\ MaxSave \in Int /\ MaxSave <= StaleAge
  BY RecentPastIsTime, TimesAssumption DEF Types, TypeOK, UploadRecord, Time
<1>2. Greatest(Retention, StaleAge) \in Int /\ StaleAge <= Greatest(Retention, StaleAge)
  BY <1>1 DEF Greatest
<1> QED
  BY <1>1, <1>2 DEF Awaits, Abandoned

LEMMA AwaitsOn ==
    ASSUME Types, Links, NEW u \in Upload, Awaits(u), NEW j, Elsewhere(u, j)
    PROVE  upload'[u].state = "stored" /\ upload'[u].created = upload[u].created
<1> DEFINE Same == /\ upload'[u].state = "stored"
                   /\ upload'[u].created = upload[u].created
<1>0. /\ job \in [Job -> JobRecord] /\ upload \in [Upload -> UploadRecord]
      /\ upload[u].state = "stored" /\ upload[u].job = NoJob /\ NoJob \notin Job
  BY IdentifiersAssumption DEF Types, TypeOK, Awaits
<1>1. ASSUME NEW S, upload' = [v \in Upload |->
                                 IF v \in S THEN [upload[v] EXCEPT !.bytes = 0]
                                 ELSE upload[v]]
      PROVE  Same
  BY <1>0, <1>1 DEF UploadRecord
<1>2. ASSUME NEW v \in Upload, SaveNext(v)
      PROVE  Same
  <2>1. CASE v # u
    BY <1>0, <1>2, <2>1 DEF SaveNext, SaveBegin, SaveWrite, SaveDrop, SaveReject,
                            SaveCommit, SaveEOF
  <2>2. CASE v = u
    BY <1>0, <1>2, <2>2 DEF SaveNext, SaveBegin, SaveWrite, SaveDrop, SaveReject,
                            SaveCommit, SaveEOF
  <2> QED
    BY <2>1, <2>2
<1>3. ASSUME NEW v \in Upload \ {u},
             \/ DiscardUpload(v)
             \/ \E i \in Job, t \in RecentPast : Submit(v, i, t)
      PROVE  Same
  BY <1>0, <1>3 DEF DiscardUpload, Submit
<1>4. ASSUME NEW i \in Job, Delete(i)
      PROVE  Same
  <2>1. upload[job[i].upload].job = i
    BY <1>4 DEF Delete, Links, LinksAgree
  <2>2. job[i].upload # u
    BY <1>0, <2>1
  <2> QED
    BY <1>0, <1>4, <2>2 DEF Delete
<1>5. ASSUME NEW t \in RecentPast, Claim(t)
      PROVE  Same
  BY <1>1, <1>5 DEF Claim, ClaimWith
<1>6. ASSUME NEW t \in RecentPast, CleanupLocked(t)
      PROVE  Same
  <2>1. /\ u \notin Abandoned(t) /\ upload[u].job \notin Old(t)
        /\ upload[u].job \notin Aged(t)
    BY <1>0, YoungIsKept DEF Old, Outdated, Aged
  <2>2. upload'[u] = upload[u]
    BY <1>6, <2>1, CleanupEffect
  <2> QED
    BY <1>0, <2>2
<1>7. ASSUME NEW i \in Job, NEW k, NEW t, WorkerNext(i, k, t)
      PROVE  Same
  <2>1. ASSUME NEW ended, Settle(i, ended)
        PROVE  Same
    <3>1. upload' = [v \in Upload |-> IF v \in {job[i].upload}
                                     THEN [upload[v] EXCEPT !.bytes = 0]
                                     ELSE upload[v]]
      BY <1>0, <2>1 DEF Settle
    <3> QED
      BY <1>1, <3>1
  <2>2. CASE Heartbeat(i, k, t) \/ FinishRetry(i, k, t)
    BY <1>0, <2>2 DEF Heartbeat, FinishRetry
  <2> QED
    BY <1>7, <2>1, <2>2 DEF WorkerNext, FinishResult, FinishError
<1>8. CASE UNCHANGED vars \/ SweepNext
  BY <1>0, <1>8 DEF vars, SweepNext, CleanupList, CleanupEntry, CleanupRemove,
                    CleanupReturn
<1> QED
  BY <1>2, <1>3, <1>4, <1>5, <1>6, <1>7, <1>8 DEF Elsewhere

\* A job is there until its outcome is old.
LEMMA OutcomeLasts ==
    ASSUME Types, Links, NEW j \in Job, job[j].status \in Live,
           job[j].status \in Finished => clock <= job[j].updated + Retention,
           NEW u, Elsewhere(u, j)
    PROVE  job'[j].status \in Live
<1>0. job \in [Job -> JobRecord]
  BY DEF Types, TypeOK
<1>1. CASE job'[j] = job[j]
  BY <1>1
<1>2. ASSUME NEW i \in Job \ {j}, Delete(i)
      PROVE  job'[j] = job[j]
  BY <1>0, <1>2 DEF Delete
<1>3. ASSUME NEW v, NEW i \in Job, NEW t, Submit(v, i, t)
      PROVE  job'[j] = job[j]
  BY <1>0, <1>3 DEF Submit, Live, Pending, Finished
<1>4. ASSUME NEW t \in RecentPast, Claim(t)
      PROVE  job'[j].status \in Live
  <2>1. PICK next : ClaimWith(next, t)
    BY <1>4 DEF Claim
  <2> QED
    BY <1>0, <2>1 DEF ClaimWith, Leasing, Fail, SetStatus, JobRecord, Live, Pending,
                      Finished
<1>5. ASSUME NEW t \in RecentPast, CleanupLocked(t)
      PROVE  job'[j].status \in Live
  <2>1. /\ t \in Int /\ clock \in Int /\ t <= clock /\ job[j].updated \in Int
        /\ Retention \in Int
    BY <1>0, RecentPastIsTime, TimesAssumption DEF Types, TypeOK, JobRecord, Time
  <2>2. j \notin Old(t)
    BY <2>1 DEF Old, Outdated, Finished
  <2>3. job'[j].status = "error" \/ job'[j] = job[j]
    BY <1>5, <2>2, CleanupEffect
  <2> QED
    BY <2>3 DEF Live, Finished
<1>6. ASSUME NEW i \in Job, NEW k, NEW t, WorkerNext(i, k, t)
      PROVE  job'[j].status \in Live
  <2>1. ASSUME NEW ended, Settle(i, ended), ended.status \in Live
        PROVE  job'[j].status \in Live
    BY <1>0, <2>1 DEF Settle
  <2>2. CASE Heartbeat(i, k, t)
    BY <1>0, <2>2 DEF Heartbeat, JobRecord
  <2>3. CASE FinishRetry(i, k, t)
    BY <1>0, <2>3 DEF FinishRetry, SetStatus, JobRecord, Live, Pending
  <2>4. CASE FinishResult(i, k, t)
    <3>1. [SetStatus(job[i], "completed") EXCEPT !.result = k, !.updated = t].status
             = "completed"
      BY <1>0 DEF SetStatus, JobRecord
    <3> QED
      BY <2>1, <2>4, <3>1 DEF FinishResult, Live, Finished
  <2>5. CASE \E retry \in BOOLEAN : FinishError(i, k, t, retry)
    <3>1. Fail(job[i], "reported", t).status = "error"
      BY <1>0, RecordFields
    <3> QED
      BY <2>1, <2>5, <3>1 DEF FinishError, Live, Finished
  <2> QED
    BY <1>6, <2>2, <2>3, <2>4, <2>5 DEF WorkerNext
<1>7. CASE \/ UNCHANGED vars \/ SweepNext
           \/ \E v \in Upload : SaveNext(v) \/ DiscardUpload(v)
  BY <1>1, <1>7 DEF vars, SweepNext, CleanupList, CleanupEntry, CleanupRemove,
                    CleanupReturn, SaveNext, SaveBegin, SaveWrite, SaveDrop,
                    SaveReject, SaveCommit, SaveEOF, DiscardUpload
<1> QED
  BY <1>1, <1>2, <1>3, <1>4, <1>5, <1>6, <1>7 DEF Elsewhere

\* What ends, ends now.
LEMMA OutcomeIsRecent ==
    ASSUME Types, [Next]_vars, NEW j \in Job, job[j].status \in Live,
           job'[j].status \in Finished
    PROVE  \/ job[j].status \in Finished /\ job'[j].updated = job[j].updated
           \/ clock <= job'[j].updated + Skew
<1>0. job[j] \in JobRecord /\ clock \in Int /\ Skew \in Int
  BY TimesAssumption DEF Types, TypeOK, Time
<1>1. MovesOn(j)
  BY StepMoves
<1>2. \A t \in RecentPast : t \in Int /\ clock <= t + Skew
  BY <1>0, RecentPastIsTime DEF RecentPast, Types, TypeOK, Time
<1>3. CASE job'[j] = job[j]
  BY <1>3
<1>4. CASE IsCompleted(j)
  BY <1>0, <1>2, <1>4 DEF IsCompleted, SetStatus, JobRecord
<1>5. CASE IsFailed(j)
  BY <1>0, <1>2, <1>5 DEF IsFailed, Fail, SetStatus, JobRecord
<1>6. ~IsEntered(j)
  BY DEF IsEntered, Live, Pending, Finished
<1>7. ~IsTaken(j) /\ ~IsRenewed(j) /\ ~IsReturned(j) /\ ~IsRemoved(j)
  <2>1. ~IsTaken(j)
    BY <1>0, RecordFields DEF IsTaken, Finished
  <2>2. ~IsRenewed(j)
    BY <1>0 DEF IsRenewed, JobRecord, Finished
  <2>3. ~IsReturned(j)
    BY <1>0, RecordFields DEF IsReturned, Finished
  <2>4. ~IsRemoved(j)
    BY DEF IsRemoved, NoRecord, Finished
  <2> QED
    BY <2>1, <2>2, <2>3, <2>4
<1> QED
  BY <1>1, <1>3, <1>4, <1>5, <1>6, <1>7 DEF MovesOn

LEMMA Numbers ==
    ASSUME Types, RequestsOK, NEW r \in Request
    PROVE  /\ clock \in Int /\ MaxSave \in Int /\ PollEvery \in Int /\ Skew \in Int
           /\ Retention \in Int /\ PollEvery + Skew <= Retention /\ 0 <= clock
           /\ 0 <= Skew /\ 0 <= PollEvery /\ 0 <= MaxSave
           /\ request[r] \in RequestRecord
           /\ request[r].since \in Int /\ request[r].polled \in Int
           /\ \A u \in Upload : upload[u].created \in Int
           /\ \A j \in Job : job[j].updated \in Int /\ 0 <= job[j].updated
BY RequestsOKImplies, TimesAssumption, RequestsAssumption, PollAssumption
   DEF Types, TypeOK, RequestsTypeOK, RequestsOK, RequestOK, RequestRecord, Time,
       UploadRecord, JobRecord

Engaged == {"reading", "parsed", "polling", "sleeping"}

\* Whose upload and job are left alone by a step stays punctual.
LEMMA PunctualOn ==
    ASSUME Types, Links, RequestsOK, [Next]_vars, clock' = clock,
           NEW r \in Request, Fate(r), Punctual(r), request'[r] = request[r],
           request[r].pc \in Engaged =>
              Elsewhere(request[r].upload, request[r].job)
    PROVE  Punctual(r)'
<1> DEFINE q == request[r]
           u == request[r].upload
           j == request[r].job
<1>0. /\ q \in RequestRecord /\ RequestOK(q)
      /\ u \in Upload \cup {NoUpload} /\ j \in Job \cup {NoJob}
  BY Numbers DEF RequestsOK, RequestRecord
<1>1. ASSUME q.pc \in {"reading", "parsed"}, u # NoUpload
      PROVE  /\ upload'[u].state = "stored"
             /\ q.since <= upload'[u].created
             /\ clock <= upload'[u].created + MaxSave
  <2>1. u \in Upload /\ Awaits(u)
    BY <1>0, <1>1 DEF Punctual, Fate, Unused, Awaits
  <2>2. Elsewhere(u, j)
    BY <1>1 DEF Engaged
  <2>3. upload'[u].state = "stored" /\ upload'[u].created = upload[u].created
    BY <2>1, <2>2, AwaitsOn
  <2> QED
    BY <1>1, <2>3 DEF Punctual
<1>2. ASSUME q.pc \in {"polling", "sleeping"}
      PROVE  /\ job'[j].status \in Live
             /\ job'[j].status \in Finished =>
                   clock <= job'[j].updated + PollEvery + Skew
             /\ q.pc = "sleeping" /\ job'[j].status \in Finished
                   => q.polled <= job'[j].updated + Skew
  <2>1. j \in Job /\ job[j].status \in Live
    BY <1>0, <1>2 DEF RequestOK, Punctual
  <2>2. job[j].status \in Finished => clock <= job[j].updated + Retention
    BY <1>2, <2>1, Numbers DEF Punctual
  <2>3. job'[j].status \in Live
    BY <1>2, <2>1, <2>2, OutcomeLasts DEF Engaged
  <2>4. ASSUME job'[j].status \in Finished
        PROVE  /\ clock <= job'[j].updated + PollEvery + Skew
               /\ q.pc = "sleeping" => q.polled <= job'[j].updated + Skew
    <3>0. job'[j].updated \in Int
      BY <2>1, StepTypes DEF Types, TypeOK, JobRecord, Time
    <3>1. CASE job[j].status \in Finished /\ job'[j].updated = job[j].updated
      BY <1>2, <3>1 DEF Punctual
    <3>2. CASE clock <= job'[j].updated + Skew
      BY <1>2, <3>0, <3>2, Numbers DEF Punctual
    <3> QED
      BY <2>1, <2>4, <3>1, <3>2, OutcomeIsRecent
  <2> QED
    BY <2>3, <2>4
<1>3. /\ q.since <= clock /\ q.polled <= clock /\ q.answer # "gone"
      /\ q.pc = "sleeping" => clock <= q.polled + PollEvery
  BY DEF Punctual
<1> QED
  BY <1>1, <1>2, <1>3 DEF Punctual

\* The job of a wait is that of its upload, and of no other.
LEMMA WaitedFor ==
    ASSUME Links, NEW r \in Request, Fate(r), RequestOK(request[r]),
           request[r].pc \in {"polling", "sleeping", "deleting"},
           job[request[r].job].status \in Live
    PROVE  /\ request[r].upload \in Upload
           /\ job[request[r].job].upload = request[r].upload
<1>1. /\ request[r].upload \in Upload /\ request[r].job \in Job
      /\ Tied(request[r].upload, request[r].job)
  BY DEF Fate, RequestOK
<1>2. upload[request[r].upload].job = request[r].job
  BY <1>1 DEF Tied, Live, Pending, Finished
<1> QED
  BY <1>1, <1>2, IdentifiersAssumption DEF Links, LinksAgree

\* The steps of others are elsewhere.
LEMMA OthersElsewhere ==
    ASSUME Types, Links, RequestsOK, Owned, NEW r \in Request, Punctual(r), Others,
           request[r].pc \in Engaged
    PROVE  Elsewhere(request[r].upload, request[r].job)
<1> DEFINE u == request[r].upload
           j == request[r].job
<1>1. ASSUME NEW v \in Announced
      PROVE  v \in Upload \ {u}
  <2>1. PICK q \in Request : v = request[q].upload /\ request[q].answer \in Given
    BY <1>1 DEF Announced, Given
  <2>2. v \in Upload /\ request[q].pc = "done"
    BY <2>1 DEF Owned, Fate, RequestsOK, RequestOK, Given
  <2>3. q # r
    BY <2>2 DEF Engaged
  <2> QED
    BY <2>1, <2>2, <2>3, IdentifiersAssumption DEF Owned, Distinct
<1>2. ASSUME NEW i \in Job, job[i].upload \in Announced, Delete(i)
      PROVE  i # j
  <2>1. SUFFICES ASSUME i = j PROVE FALSE
    OBVIOUS
  <2>2. request[r].pc \in {"polling", "sleeping"}
    BY <2>1, IdentifiersAssumption DEF Owned, Fate, Engaged
  <2>3. job[j].upload = u
    BY <2>2, WaitedFor DEF Owned, RequestsOK, Punctual
  <2> QED
    BY <1>1, <1>2, <2>1, <2>3
<1>3. CASE \E v \in Announced, i \in Job, t \in RecentPast : Submit(v, i, t)
  BY <1>1, <1>3 DEF Elsewhere
<1>4. CASE \E i \in Job : job[i].upload \in Announced /\ Delete(i)
  BY <1>2, <1>4 DEF Elsewhere
<1> QED
  BY <1>3, <1>4 DEF Others, Elsewhere

LEMMA NeighboursElsewhere ==
    ASSUME Types, Links, RequestsOK, Owned, NEW r \in Request, Punctual(r),
           NEW q \in Request \ {r}, SaveSteps(q) \/ QueueSteps(q) \/ OwnSteps(q),
           request[r].pc \in Engaged
    PROVE  Elsewhere(request[r].upload, request[r].job)
<1> DEFINE u == request[r].upload
           j == request[r].job
<1>0. RequestOK(request[q]) /\ request[q].upload \in Upload \cup {NoUpload}
  BY RequestsOKImplies DEF RequestsOK, RequestsTypeOK
<1>1. CASE SaveSteps(q)
  <2>1. \E v \in Upload : SaveNext(v)
    BY <1>0, <1>1 DEF SaveSteps, FileBegins, FileSaves, FileDropped, FileSaved,
                      FileFails, SaveNext, RequestOK
  <2> QED
    BY <2>1 DEF Elsewhere
<1>2. CASE OwnSteps(q)
  BY <1>2, OwnStepsStutter DEF Elsewhere
<1>3. ASSUME request[q].upload \in Upload
      PROVE  request[q].upload \in Upload \ {u}
  BY <1>3, IdentifiersAssumption DEF Owned, Distinct
<1>4. CASE \E i \in Job, t \in RecentPast : JobSubmitted(q, i, t)
  BY <1>0, <1>3, <1>4 DEF JobSubmitted, Elsewhere
<1>5. CASE Failed(q)
  BY <1>0, <1>3, <1>5 DEF Failed, Discards, Elsewhere
<1>6. CASE Returned(q)
  <2>1. CASE ~Deletes(q)
    BY <1>6, <2>1 DEF Returned, Elsewhere
  <2>2. CASE Deletes(q)
    <3>1. request[q].pc = "deleting" /\ request[q].job \in Job /\ Delete(request[q].job)
      BY <1>0, <1>6, <2>2 DEF Returned, RequestOK
    <3>2. request[q].job # j
      <4>1. SUFFICES ASSUME request[q].job = j PROVE FALSE
        OBVIOUS
      <4>2. job[j].upload = request[q].upload /\ request[q].upload \in Upload
        BY <1>0, <2>2, <3>1, <4>1, WaitedFor DEF Deletes, Owned
      <4>3. request[r].pc \in {"polling", "sleeping"}
        BY <3>1, <4>1, IdentifiersAssumption DEF Owned, Fate, Engaged
      <4>4. job[j].upload = u
        BY <4>3, WaitedFor DEF Owned, RequestsOK, Punctual
      <4> QED
        BY <1>3, <4>2, <4>4
    <3> QED
      BY <3>1, <3>2 DEF Elsewhere
  <2> QED
    BY <2>1, <2>2
<1> QED
  BY <1>1, <1>2, <1>4, <1>5, <1>6 DEF QueueSteps

\* A step of r.
LEMMA SaveStepPunctual ==
    ASSUME Types, RequestsOK, NEW r \in Request, Fate(r), Punctual(r), SaveSteps(r)
    PROVE  Punctual(r)' /\ clock' = clock
<1> DEFINE u == request[r].upload
<1>0. /\ request[r] \in RequestRecord /\ RequestOK(request[r])
      /\ upload \in [Upload -> UploadRecord]
      /\ clock \in Int /\ MaxSave \in Int /\ 0 <= MaxSave
      /\ request[r].since <= clock /\ request[r].polled <= clock
      /\ request[r].answer # "gone"
  BY Numbers, RequestsOKImplies
     DEF RequestsOK, Punctual, Types, TypeOK, SaveSteps, FileBegins,
         FileSaves, FileDropped, FileSaved, FileFails, requestVars, Goes
<1>1. CASE \E v \in Upload : FileBegins(r, v)
  <2>1. /\ request'[r].pc = "saving" /\ request'[r].since = request[r].since
        /\ request'[r].polled = request[r].polled
        /\ request'[r].answer = request[r].answer /\ clock' = clock
    BY <1>0, <1>1, RequestsOKImplies DEF FileBegins, SaveBegin, RequestRecord
  <2> QED
    BY <1>0, <2>1 DEF Punctual
<1>2. CASE FileSaves(r) \/ FileDropped(r)
  <2>1. /\ request'[r] = request[r] /\ request[r].pc = "saving" /\ clock' = clock
    BY <1>2 DEF FileSaves, FileDropped, SaveWrite, SaveEOF, SaveDrop, requestVars
  <2> QED
    BY <1>0, <2>1 DEF Punctual
<1>3. CASE FileSaved(r)
  <2>1. /\ clock' = clock /\ u \in Upload /\ request[r].pc = "saving"
        /\ upload'[u].state = "stored" /\ upload'[u].created = clock
    BY <1>0, <1>3 DEF FileSaved, SaveCommit, RequestOK, UploadRecord
  <2>2. ASSUME NEW pc \in {"reading", "parsed"}, Goes(r, pc)
        PROVE  Punctual(r)'
    <3>1. request'[r] = [request[r] EXCEPT !.pc = pc]
      BY <2>2, RequestsOKImplies DEF Goes
    <3>2. /\ request'[r].pc = pc /\ request'[r].since = request[r].since
          /\ request'[r].polled = request[r].polled
          /\ request'[r].answer = request[r].answer
          /\ request'[r].upload = u
      BY <1>0, <3>1 DEF RequestRecord
    <3>3. clock <= clock + MaxSave
      BY <1>0
    <3> QED
      BY <1>0, <2>1, <3>2, <3>3 DEF Punctual
  <2>3. CASE request' = [request EXCEPT ![r] = Answered(r, NoJob, "uploaded")]
    <3>1. /\ request'[r].pc = "done" /\ request'[r].since = 0
          /\ request'[r].polled = 0 /\ request'[r].answer = "uploaded"
      BY <2>3, RequestsOKImplies DEF Answered, NoRequest
    <3> QED
      BY <2>1, <3>1, Numbers DEF Punctual
  <2> QED
    BY <1>3, <2>1, <2>2, <2>3 DEF FileSaved
<1>4. CASE FileFails(r)
  <2>1. /\ request'[r].pc = "failing" /\ request'[r].since = request[r].since
        /\ request'[r].polled = request[r].polled
        /\ request'[r].answer = "refused" /\ clock' = clock
    BY <1>0, <1>4, RequestsOKImplies DEF FileFails, SaveReject, RequestRecord
  <2> QED
    BY <1>0, <2>1 DEF Punctual
<1> QED
  BY <1>1, <1>2, <1>3, <1>4 DEF SaveSteps

LEMMA QueueStepPunctual ==
    ASSUME Types, RequestsOK, NEW r \in Request, Fate(r), Punctual(r), QueueSteps(r)
    PROVE  Punctual(r)' /\ clock' = clock
<1>0. /\ request[r] \in RequestRecord
      /\ request \in [Request -> RequestRecord] /\ job \in [Job -> JobRecord]
      /\ clock \in Int /\ 0 <= clock
      /\ request[r].since <= clock /\ request[r].polled <= clock
      /\ request[r].answer # "gone"
  BY Numbers, RequestsOKImplies DEF Punctual, Types, TypeOK
<1>1. ASSUME NEW j, NEW answer, answer # "gone",
             request' = [request EXCEPT ![r] = Answered(r, j, answer)],
             clock' = clock
      PROVE  Punctual(r)'
  <2>1. /\ request'[r].pc = "done" /\ request'[r].since = 0
        /\ request'[r].polled = 0 /\ request'[r].answer = answer
    BY <1>0, <1>1 DEF Answered, NoRequest
  <2> QED
    BY <1>0, <1>1, <2>1 DEF Punctual
<1>2. ASSUME NEW j \in Job, NEW t \in RecentPast, JobSubmitted(r, j, t)
      PROVE  Punctual(r)' /\ clock' = clock
  <2>1. clock' = clock /\ job'[j].status = "queued"
    BY <1>0, <1>2 DEF JobSubmitted, Submit, SetStatus, NoRecord
  <2>2. CASE request[r].kind = "sync"
    <3>1. request'[r] = [request[r] EXCEPT !.pc = "polling", !.job = j,
                                           !.since = clock]
      BY <1>0, <1>2, <2>2 DEF JobSubmitted
    <3>2. /\ request'[r].pc = "polling" /\ request'[r].since = clock
          /\ request'[r].polled = request[r].polled
          /\ request'[r].answer = request[r].answer
          /\ request'[r].job = j
      BY <1>0, <3>1 DEF RequestRecord
    <3> QED
      BY <1>0, <2>1, <3>2 DEF Punctual, Live, Pending, Finished
  <2>3. CASE request[r].kind # "sync"
    BY <1>1, <1>2, <2>1, <2>3 DEF JobSubmitted
  <2> QED
    BY <2>1, <2>2, <2>3
<1>3. CASE Failed(r) \/ Returned(r)
  <2>1. request' = [request EXCEPT ![r] =
                       Answered(r, request[r].job, request[r].answer)]
    BY <1>3 DEF Failed, Returned
  <2>2. clock' = clock
    BY <1>3 DEF Failed, Returned, DiscardUpload, Delete, vars
  <2> QED
    BY <1>0, <1>1, <2>1, <2>2
<1> QED
  BY <1>2, <1>3 DEF QueueSteps

LEMMA OwnStepPunctual ==
    ASSUME Types, RequestsOK, NEW r \in Request, Fate(r), Punctual(r), OwnSteps(r)
    PROVE  Punctual(r)' /\ clock' = clock
<1>0. /\ request[r] \in RequestRecord /\ RequestOK(request[r])
      /\ request \in [Request -> RequestRecord]
      /\ clock \in Int /\ 0 <= clock
      /\ request[r].since <= clock /\ request[r].polled <= clock
      /\ request[r].answer # "gone"
  BY Numbers, RequestsOKImplies DEF Punctual, RequestsOK
<1>1. UNCHANGED vars
  BY OwnStepsStutter
<1>2. UNCHANGED <<job, upload, clock>>
  BY <1>1 DEF vars
<1>3. CASE \E kind \in Kind : Arrive(r, kind) \/ ArriveRefused(r, kind)
  <2>1. /\ request'[r].pc \in {"reading", "done"} /\ request'[r].polled = 0
        /\ request'[r].since \in {0, clock} /\ request'[r].upload = NoUpload
        /\ request'[r].answer \in {"none", "refused"}
    <3>1. CASE \E kind \in Kind : Arrive(r, kind)
      BY <1>0, <3>1 DEF Arrive, NoRequest
    <3>2. CASE \E kind \in Kind : ArriveRefused(r, kind)
      BY <1>0, <3>2 DEF ArriveRefused, NoRequest
    <3> QED
      BY <1>3, <3>1, <3>2
  <2> QED
    BY <1>0, <1>2, <2>1 DEF Punctual
<1>4. CASE BodyEnds(r) \/ BodyFails(r) \/ Leave(r)
  <2>1. /\ request'[r].pc = request[r].pc /\ request'[r].polled = request[r].polled
        /\ request'[r].since = request[r].since
        /\ request'[r].upload = request[r].upload /\ request'[r].job = request[r].job
        /\ request'[r].answer = request[r].answer
    BY <1>0, <1>4 DEF BodyEnds, BodyFails, Leave, RequestRecord
  <2> QED
    BY <1>2, <2>1 DEF Punctual
<1>5. CASE FormRead(r)
  <2>1. /\ request'[r].pc = "parsed" /\ request[r].pc = "reading"
        /\ request'[r].polled = request[r].polled
        /\ request'[r].since = request[r].since
        /\ request'[r].upload = request[r].upload
        /\ request'[r].answer = request[r].answer
    BY <1>0, <1>5 DEF FormRead, Goes, RequestRecord
  <2> QED
    BY <1>2, <2>1 DEF Punctual
<1>6. CASE FileRefused(r) \/ FormRefused(r) \/ OptionsRefused(r)
           \/ SubmissionRefused(r)
  <2>1. PICK answer \in {"refused", "full", "expired"} : Fails(r, answer)
    BY <1>6 DEF FileRefused, FormRefused, OptionsRefused, SubmissionRefused
  <2>2. /\ request'[r].pc = "failing" /\ request'[r].polled = request[r].polled
        /\ request'[r].since = request[r].since /\ request'[r].answer = answer
    BY <1>0, <2>1 DEF Fails, RequestRecord
  <2> QED
    BY <1>0, <1>2, <2>2 DEF Punctual
<1>7. CASE Poll(r)
  <2> DEFINE j == request[r].job
             answer == Answer(j)
  <2>1. job[j].status \in Live /\ j \in Job
    BY <1>0, <1>7 DEF Poll, Punctual, RequestOK
  <2>2. /\ answer # "gone"
        /\ answer = "none" => job[j].status \notin Finished
    BY <2>1 DEF Answer, Live, Pending, Finished
  <2>3. /\ request'[r].pc = IF answer = "none" THEN "sleeping" ELSE "deleting"
        /\ request'[r].answer = answer /\ request'[r].polled = clock
        /\ request'[r].since = request[r].since /\ request'[r].job = j
    BY <1>0, <1>7 DEF Poll, RequestRecord
  <2>4. clock <= clock + PollEvery /\ clock <= clock
    BY Numbers
  <2> HIDE DEF answer
  <2> QED
    BY <1>0, <1>2, <2>1, <2>2, <2>3, <2>4 DEF Punctual
<1>8. CASE TickerFires(r)
  <2>1. /\ request[r].pc = "sleeping" /\ request'[r].pc = "polling"
        /\ request'[r].polled = request[r].polled
        /\ request'[r].since = request[r].since
        /\ request'[r].job = request[r].job
        /\ request'[r].answer = request[r].answer
    BY <1>0, <1>8 DEF TickerFires, Goes, RequestRecord
  <2> QED
    BY <1>2, <2>1 DEF Punctual
<1>9. CASE GiveUp(r)
  <2>1. /\ request'[r].pc = "deleting" /\ request'[r].polled = request[r].polled
        /\ request'[r].since = request[r].since
        /\ request'[r].answer \in {"timeout", "left"}
    BY <1>0, <1>9 DEF GiveUp, RequestRecord
  <2> QED
    BY <1>0, <1>2, <2>1 DEF Punctual
<1> QED
  BY <1>2, <1>3, <1>4, <1>5, <1>6, <1>7, <1>8, <1>9 DEF OwnSteps

\* Time passes for r only while its body arrives and its wait sleeps.
LEMMA TimePunctual ==
    ASSUME Types, RequestsOK, NEW r \in Request, Fate(r), Punctual(r), TimePasses
    PROVE  Punctual(r)'
<1> DEFINE q == request[r]
           u == request[r].upload
           j == request[r].job
<1>0. /\ q \in RequestRecord /\ u \in Upload \cup {NoUpload}
      /\ ~Urgent(r) /\ clock' = clock + 1
      /\ UNCHANGED <<job, upload, request>>
  BY Numbers DEF TimePasses, Tick, requestVars, RequestRecord
<1>1. q.pc \notin {"parsed", "polling"}
  BY <1>0 DEF Urgent
<1>2. q.pc = "reading" => q.kind = "sync" /\ q.body = "arriving"
  BY <1>0 DEF Urgent
<1>3. ASSUME q.pc = "reading", u # NoUpload
      PROVE  clock' <= upload[u].created + MaxSave
  <2>1. Reads(r) /\ ~BodyDue(r)
    BY <1>0, <1>2, <1>3 DEF Reads, Urgent
  <2>2. ~(clock >= q.since + MaxSave)
    BY <2>1 DEF BodyDue
  <2>3. q.since <= upload[u].created /\ u \in Upload
    BY <1>0, <1>3 DEF Punctual
  <2> QED
    BY <1>0, <2>2, <2>3, Numbers
<1>4. ASSUME q.pc = "sleeping"
      PROVE  clock' <= q.polled + PollEvery
  BY <1>0, <1>4, Numbers DEF Urgent, TickerDue
<1>5. q.since <= clock' /\ q.polled <= clock'
  BY <1>0, Numbers DEF Punctual
<1>6. ASSUME q.pc = "sleeping", job[j].status \in Finished
      PROVE  clock' <= job[j].updated + PollEvery + Skew
  <2>1. /\ q.polled <= job[j].updated + Skew /\ j \in Job
    BY <1>6 DEF Punctual, RequestsOK, RequestOK
  <2> QED
    BY <1>0, <1>4, <1>6, <2>1, Numbers
<1> QED
  BY <1>0, <1>1, <1>3, <1>4, <1>5, <1>6 DEF Punctual

LEMMA OthersTakeNoTime ==
    ASSUME Others
    PROVE  clock' = clock /\ request' = request
BY ZenonT(40) DEF Others, requestVars, Delete, Submit, Claim, ClaimWith, CleanupLocked, WorkerNext,
       Heartbeat, FinishResult, FinishRetry, FinishError, Settle, SweepNext,
       CleanupList, CleanupEntry, CleanupRemove, CleanupReturn

\* A step of one request leaves the records of the others.
LEMMA OthersRest ==
    ASSUME RequestsOK, NEW q \in Request, NEW r \in Request \ {q},
           SaveSteps(q) \/ QueueSteps(q) \/ OwnSteps(q)
    PROVE  request'[r] = request[r]
<1>0. request \in [Request -> RequestRecord]
  BY RequestsOKImplies
<1>1. CASE SaveSteps(q)
  BY <1>0, <1>1 DEF SaveSteps, FileBegins, FileSaves, FileDropped, FileSaved,
                    FileFails, requestVars, Goes
<1>2. CASE QueueSteps(q)
  BY <1>0, <1>2 DEF QueueSteps, JobSubmitted, Failed, Returned
<1>3. CASE OwnSteps(q)
  BY <1>0, <1>3 DEF OwnSteps, Arrive, ArriveRefused, BodyEnds, BodyFails, Leave,
                    FileRefused, FormRefused, FormRead, OptionsRefused,
                    SubmissionRefused, Poll, TickerFires, GiveUp, Goes, Fails
<1> QED
  BY <1>1, <1>2, <1>3

LEMMA StepPunctual ==
    ASSUME Types, Links, RequestsOK, Owned, AllPunctual, [RequestsNext]_allVars
    PROVE  AllPunctual'
<1> SUFFICES ASSUME NEW r \in Request PROVE Punctual(r)'
  BY DEF AllPunctual
<1>0. Fate(r) /\ Punctual(r) /\ [Next]_vars
  BY StepRunsStore, RequestsOKImplies DEF Owned, AllPunctual
<1>1. CASE UNCHANGED allVars
  <2>1. UNCHANGED <<job, upload, clock, request>>
    BY <1>1 DEF allVars, vars, requestVars
  <2> QED
    BY <1>0, <2>1 DEF Punctual
<1>2. ASSUME NEW q \in Request, SaveSteps(q) \/ QueueSteps(q) \/ OwnSteps(q)
      PROVE  Punctual(r)'
  <2>1. CASE q = r
    BY <1>0, <1>2, <2>1, SaveStepPunctual, QueueStepPunctual, OwnStepPunctual
  <2>2. CASE q # r
    <3>1. Fate(q) /\ Punctual(q)
      BY DEF Owned, AllPunctual
    <3>2. clock' = clock
      BY <1>2, <3>1, SaveStepPunctual, QueueStepPunctual, OwnStepPunctual
    <3>3. request'[r] = request[r]
      BY <1>2, <2>2, OthersRest
    <3>4. request[r].pc \in Engaged => Elsewhere(request[r].upload, request[r].job)
      BY <1>0, <1>2, <2>2, NeighboursElsewhere
    <3> QED
      BY <1>0, <3>2, <3>3, <3>4, PunctualOn
  <2> QED
    BY <2>1, <2>2
<1>3. CASE Others
  BY <1>0, <1>3, OthersElsewhere, OthersTakeNoTime, PunctualOn
<1>4. CASE TimePasses
  BY <1>0, <1>4, TimePunctual
<1> QED
  BY <1>1, <1>2, <1>3, <1>4, StepsOfRequests

LEMMA InitPunctual == RequestsInit => AllPunctual
<1> SUFFICES ASSUME RequestsInit, NEW r \in Request PROVE Punctual(r)
  BY DEF AllPunctual
<1>1. request[r] = NoRequest /\ clock = 0
  BY DEF RequestsInit, Init
<1> QED
  BY <1>1 DEF Punctual, NoRequest

LEMMA PunctualInvariant == RequestsSpec => []AllPunctual
<1>1. RequestsInit => AllPunctual
  BY InitPunctual
<1>2. Types /\ Links /\ RequestsOK /\ Owned /\ AllPunctual /\ [RequestsNext]_allVars
        => AllPunctual'
  BY StepPunctual
<1>3. RequestsSpec => [](Types /\ Links) /\ []RequestsOK /\ []Owned
  BY RequestsInvariant, OwnedInvariant, LinksInvariant, PTL
<1> QED
  BY <1>1, <1>2, <1>3, PTL DEF RequestsSpec

\* A form whose fields come slowly still finds its upload: where a body has its
\* deadline before the age of a stale file, the janitor takes no upload for
\* abandoned that its own request has yet to submit (pace.add, staleAge).
THEOREM FormsFindTheirUploads == RequestsSpec => []UploadAwaitsSubmission
<1>1. AllPunctual => UploadAwaitsSubmission
  BY DEF AllPunctual, Punctual, UploadAwaitsSubmission
<1> QED
  BY <1>1, PunctualInvariant, PTL

\* A wait never misses how its job ended: between two polls no outcome passes
\* its retention, and nobody else deletes the job (wait, pollInterval).
THEOREM WaitsSeeTheOutcome == RequestsSpec => []NeverAnsweredGone
<1>1. AllPunctual => NeverAnsweredGone
  BY DEF AllPunctual, Punctual, NeverAnsweredGone
<1> QED
  BY <1>1, PunctualInvariant, PTL
=============================================================================
