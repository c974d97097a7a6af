------------------------------ MODULE Requests ------------------------------
(***************************************************************************)
(* The requests that own what they put in the queue: the synchronous one   *)
(* (internal/api/openai.go), the upload and the submission of a trusted    *)
(* URL (handlers.go, audio.go), with the upload slots (api.go).  They run  *)
(* beside workers, the janitor and the clients of asynchronous jobs.       *)
(*                                                                         *)
(* Each request is a process whose critical sections are actions of Store. *)
(* Its local steps take no time; bodies, downloads and waits do.           *)
(***************************************************************************)
EXTENDS Store

CONSTANTS
    Request,                  \* each arrives at most once
    Kind,                     \* what they may ask for: some of Endpoints
    UploadSlots, SyncTimeout,
    PollEvery                 \* pollInterval

\* transcriptions; upload; submit with a URL that resolveAudio downloads.
Endpoints == {"sync", "upload", "url"}

ASSUME RequestsAssumption ==
    /\ IsFiniteSet(Request) /\ Kind \subseteq Endpoints
    /\ UploadSlots \in Nat \ {0}
    /\ SyncTimeout \in Nat \ {0} /\ PollEvery \in Nat \ {0}

\* The shortest retention, 1 s, is longer than the interval of 200 ms and the age
\* of a clock reading together.
ASSUME PollAssumption == PollEvery + Skew <= Retention

VARIABLES
    request,    \* the local state of every request
    slots       \* the length of the channel API.slots

requestVars == <<request, slots>>
allVars == <<vars, requestVars>>

\* since: when the body began, then when the wait began; timed: the connection
\* has a read deadline.
NoRequest ==
    [pc |-> "idle", kind |-> "none", upload |-> NoUpload, job |-> NoJob,
     body |-> "none", slot |-> FALSE, timed |-> FALSE, left |-> FALSE, since |-> 0,
     polled |-> 0, answer |-> "none"]

\* What a request that is answered leaves in the model: whose it was.
Answered(r, j, answer) ==
    [NoRequest EXCEPT !.pc = "done", !.kind = request[r].kind,
                      !.upload = request[r].upload, !.job = j,
                      !.answer = answer]

RequestsInit ==
    /\ Init
    /\ request = [r \in Request |-> NoRequest]
    /\ slots = 0

-----------------------------------------------------------------------------
(* Slots: ServeHTTP takes one, release gives it back once *)

TakesSlot(kind) == kind \in {"sync", "upload"}

\* Mutant: release without OnceFunc gives back what the end of the body did.
MutReleaseTwice(r) ==
    IF TakesSlot(request[r].kind) THEN slots - 1 ELSE slots

\* What release leaves in the channel when r calls it.
Release(r) == IF request[r].slot THEN slots - 1 ELSE slots

Arrive(r, kind) ==
    /\ request[r].pc = "idle" /\ clock + MaxSave <= LastArrival
    /\ TakesSlot(kind) => slots < UploadSlots
    /\ slots' = IF TakesSlot(kind) THEN slots + 1 ELSE slots
    /\ request' = [request EXCEPT ![r] =
                      [NoRequest EXCEPT
                          !.pc = "reading", !.kind = kind, !.since = clock,
                          !.body = IF TakesSlot(kind) THEN "arriving" ELSE "read",
                          !.slot = TakesSlot(kind), !.timed = TakesSlot(kind)]]
    /\ UNCHANGED vars

\* The key is wrong, the announced length is too large, or no slot is free.
ArriveRefused(r, kind) ==
    /\ request[r].pc = "idle" /\ clock + MaxSave <= LastArrival
    /\ request' = [request EXCEPT ![r] = [NoRequest EXCEPT
                      !.pc = "done", !.kind = kind, !.answer = "refused"]]
    /\ UNCHANGED <<vars, slots>>

-----------------------------------------------------------------------------
(* The body: bodyReader *)

\* A Read of the body is running: by the form's parser or by io.Copy in Save.
Reads(r) ==
    /\ request[r].body = "arriving"
    /\ \/ request[r].pc = "reading" /\ request[r].kind = "sync"
       \/ request[r].pc = "saving"
          /\ upload[request[r].upload].state \in {"reserved", "writing"}

\* Mutant: the slot is kept although the body is read.
MutBodyEndsKeepsSlot(r) ==
    /\ Reads(r)
    /\ request' = [request EXCEPT ![r].body = "read"]
    /\ UNCHANGED <<vars, slots>>

\* Mutant: the deadline of the last Read stays.
MutBodyEndsTimed(r) ==
    /\ Reads(r)
    /\ slots' = Release(r)
    /\ request' = [request EXCEPT ![r].body = "read", ![r].slot = FALSE]
    /\ UNCHANGED vars

\* The end of the body gives the slot back; a form's parser reads ahead, so
\* that this may be before the file is saved.  The deadline that every Read has
\* set is cleared: from now on the server reads ahead, to notice a disconnect.
BodyEnds(r) ==
    /\ Reads(r)
    /\ slots' = Release(r)
    /\ request' = [request EXCEPT ![r].body = "read", ![r].slot = FALSE,
                                  ![r].timed = FALSE]
    /\ UNCHANGED vars

\* Too large, stalled, too slow, or the client is gone.
BodyFails(r) ==
    /\ Reads(r)
    /\ request' = [request EXCEPT ![r].body = "failed"]
    /\ UNCHANGED <<vars, slots>>

\* Mutant: no limit on the time a body may take.
MutBodyDueNever(r) == FALSE

\* pace.add: a transfer ends within the hour.
BodyDue(r) == Reads(r) /\ clock >= request[r].since + MaxSave

-----------------------------------------------------------------------------
(* Saving the file *)

Goes(r, pc) == request' = [request EXCEPT ![r].pc = pc] /\ UNCHANGED slots

Fails(r, answer) ==
    /\ request' = [request EXCEPT ![r].pc = "failing", ![r].answer = answer]
    /\ UNCHANGED slots

\* Save begins: for the file part of a form, for the body or for the download.
FileBegins(r, u) ==
    /\ request[r].pc = "reading" /\ request[r].upload = NoUpload
    /\ SaveBegin(u)
    /\ request' = [request EXCEPT ![r].pc = "saving", ![r].upload = u]
    /\ UNCHANGED slots

FileRefused(r) ==
    /\ request[r].pc = "reading" /\ request[r].upload = NoUpload
    /\ used + MaxUploadBytes > MaxStorageBytes
    /\ Fails(r, "full")
    /\ UNCHANGED vars

\* Save goes on.  All of a plain body was read when Save meets its end.
FileSaves(r) ==
    /\ request[r].pc = "saving"
    /\ LET u == request[r].upload
       IN  \/ SaveWrite(u)
           \/ \E n \in Size :
                 /\ request[r].kind = "upload" /\ n <= MaxUploadBytes
                    => request[r].body = "read"
                 /\ SaveEOF(u, n)
    /\ UNCHANGED requestVars

FileDropped(r) ==
    /\ request[r].pc = "saving"
    /\ SaveDrop(request[r].upload)
    /\ UNCHANGED requestVars

\* Save returns the upload: a form is read on, an upload is answered with its
\* URL, a download is submitted.
FileSaved(r) ==
    /\ request[r].pc = "saving"
    /\ SaveCommit(request[r].upload)
    /\ \/ request[r].kind = "sync" /\ Goes(r, "reading")
       \/ request[r].kind = "url" /\ Goes(r, "parsed")
       \/ /\ request[r].kind = "upload"
          /\ slots' = Release(r)
          /\ request' = [request EXCEPT ![r] = Answered(r, NoJob, "uploaded")]

FileFails(r) ==
    /\ request[r].pc = "saving"
    /\ SaveReject(request[r].upload)
    /\ request' = [request EXCEPT ![r].pc = "failing", ![r].upload = NoUpload,
                                  ![r].answer = "refused"]
    /\ UNCHANGED slots

-----------------------------------------------------------------------------
(* The form, its options and the submission *)

\* A broken form, a second file, too many fields; always if the body failed.
FormRefused(r) ==
    /\ request[r].pc = "reading" /\ request[r].kind = "sync"
    /\ Fails(r, "refused")
    /\ UNCHANGED vars

FormRead(r) ==
    /\ request[r].pc = "reading" /\ request[r].kind = "sync"
    /\ request[r].body = "read"
    /\ Goes(r, "parsed")
    /\ UNCHANGED vars

\* parseOptions: a form without a file is always refused.
OptionsRefused(r) ==
    /\ request[r].pc = "parsed" /\ request[r].kind = "sync"
    /\ Fails(r, "refused")
    /\ UNCHANGED vars

\* A synchronous request waits for its job, the other is answered with it.
JobSubmitted(r, j, t) ==
    /\ request[r].pc = "parsed" /\ request[r].upload # NoUpload
    /\ Submit(request[r].upload, j, t)
    /\ request' = [request EXCEPT ![r] =
          IF request[r].kind = "sync"
          THEN [@ EXCEPT !.pc = "polling", !.job = j, !.since = clock]
          ELSE Answered(r, j, "queued")]
    /\ UNCHANGED slots

SubmissionRefused(r) ==
    /\ request[r].pc = "parsed" /\ request[r].upload # NoUpload
    /\ QueueFull \/ upload[request[r].upload].state # "stored"
    /\ Fails(r, IF upload[request[r].upload].state = "stored" THEN "full"
                ELSE "expired")
    /\ UNCHANGED vars

\* Mutant: a download whose submission failed is kept.
MutDiscardsFormsOnly(r) ==
    /\ request[r].upload # NoUpload /\ request[r].kind = "sync"
    /\ upload[request[r].upload].state = "stored"
    /\ upload[request[r].upload].job = NoJob

\* DiscardUpload finds an upload of r that no job references.
Discards(r) ==
    /\ request[r].upload # NoUpload
    /\ upload[request[r].upload].state = "stored"
    /\ upload[request[r].upload].job = NoJob

\* A failure is answered, and what was saved is discarded, on every way out of
\* readForm, transcriptions and submit.
Failed(r) ==
    /\ request[r].pc = "failing"
    /\ IF Discards(r) THEN DiscardUpload(request[r].upload) ELSE UNCHANGED vars
    /\ slots' = Release(r)
    /\ request' = [request EXCEPT ![r] =
                      Answered(r, request[r].job, request[r].answer)]

-----------------------------------------------------------------------------
(* wait, and the deferred Delete *)

\* What Get tells of a job: an answer, or "none" while it is pending.
Answer(j) ==
    CASE job[j].status = "gone" -> "gone"
      [] job[j].status = "error" -> "failed"
      [] job[j].status = "completed" -> "result"
      [] OTHER -> "none"

Poll(r) ==
    /\ request[r].pc = "polling"
    /\ LET answer == Answer(request[r].job)
       IN  request' = [request EXCEPT
                          ![r].pc = IF answer = "none" THEN "sleeping"
                                    ELSE "deleting",
                          ![r].answer = answer, ![r].polled = clock]
    /\ UNCHANGED <<vars, slots>>

\* The client goes away while its request waits.
Leave(r) ==
    /\ request[r].pc \in {"polling", "sleeping"} /\ ~request[r].left
    /\ request' = [request EXCEPT ![r].left = TRUE]
    /\ UNCHANGED <<vars, slots>>

\* Mutant: the ticker takes twice as long.
MutTickerDueLate(r) == clock >= request[r].polled + 2 * PollEvery

TickerDue(r) == clock >= request[r].polled + PollEvery

\* Mutant: the wait ends with its client only.
MutWaitIsOverNever(r) == FALSE

WaitIsOver(r) == clock >= request[r].since + SyncTimeout

\* select: of several cases that are ready, it takes any.
TickerFires(r) ==
    /\ request[r].pc = "sleeping" /\ TickerDue(r)
    /\ Goes(r, "polling")
    /\ UNCHANGED vars

\* A read ahead that runs into a deadline looks like a client that has left.
GiveUp(r) ==
    /\ request[r].pc = "sleeping"
    /\ \E answer \in {"timeout", "left"} :
          /\ answer = "timeout" => WaitIsOver(r)
          /\ answer = "left" => request[r].left \/ request[r].timed
          /\ request' = [request EXCEPT ![r].pc = "deleting",
                                        ![r].answer = answer]
    /\ UNCHANGED <<vars, slots>>

\* Mutant: only a job that has not ended is deleted.
MutDeletesPending(r) == job[request[r].job].status \in Pending

\* Delete finds the job, whatever became of it.
Deletes(r) == job[request[r].job].status \in Live

\* The handler returns: its job goes, with its audio.
Returned(r) ==
    /\ request[r].pc = "deleting"
    /\ IF Deletes(r) THEN Delete(request[r].job) ELSE UNCHANGED vars
    /\ slots' = Release(r)
    /\ request' = [request EXCEPT ![r] =
                      Answered(r, request[r].job, request[r].answer)]

-----------------------------------------------------------------------------
(* The others *)

\* The uploads whose URL a client was told, and the jobs whose id.
Announced == {request[r].upload : r \in {q \in Request :
                 request[q].answer \in {"uploaded", "queued"}}}

Others ==
    /\ \/ \E u \in Announced, j \in Job, t \in RecentPast : Submit(u, j, t)
       \/ \E j \in Job : job[j].upload \in Announced /\ Delete(j)
       \/ \E t \in RecentPast : Claim(t) \/ CleanupLocked(t)
       \/ \E j \in Job : \E k \in Issued(j), t \in RecentPast : WorkerNext(j, k, t)
       \/ SweepNext
    /\ UNCHANGED requestVars

\* A step of the handler of r is due, which takes no time.
Urgent(r) ==
    \/ request[r].pc \in {"parsed", "failing", "deleting", "polling"}
    \/ request[r].pc = "reading"
       /\ ~(request[r].kind = "sync" /\ request[r].body = "arriving")
    \/ request[r].pc = "saving" /\ TakesSlot(request[r].kind)
       /\ request[r].body # "arriving"
    \/ BodyDue(r)
    \/ request[r].pc = "sleeping"
       /\ (TickerDue(r) \/ WaitIsOver(r) \/ request[r].left)

TimePasses ==
    /\ \A r \in Request : ~Urgent(r)
    /\ Tick
    /\ UNCHANGED requestVars

\* The steps of r that do not wait for its client: the body fails by itself
\* only when it has taken too long.
Progress(r) ==
    \/ BodyDue(r) /\ BodyFails(r)
    \/ \E u \in Upload : FileBegins(r, u)
    \/ FileRefused(r) \/ FileSaves(r) \/ FileDropped(r) \/ FileSaved(r)
    \/ FileFails(r) \/ FormRefused(r) \/ FormRead(r) \/ OptionsRefused(r)
    \/ \E j \in Job, t \in RecentPast : JobSubmitted(r, j, t)
    \/ SubmissionRefused(r) \/ Failed(r)
    \/ Poll(r) \/ TickerFires(r) \/ GiveUp(r) \/ Returned(r)

RequestsNext ==
    \/ \E r \in Request :
          \/ \E kind \in Kind : Arrive(r, kind) \/ ArriveRefused(r, kind)
          \/ BodyEnds(r) \/ BodyFails(r) \/ Leave(r)
          \/ Progress(r)
    \/ Others
    \/ TimePasses

\* A handler runs on, and time passes; no client and no worker need do anything.
RequestsFairness ==
    /\ WF_allVars(TimePasses)
    /\ \A r \in Request : WF_allVars(Progress(r))

RequestsSpec == RequestsInit /\ [][RequestsNext]_allVars /\ RequestsFairness

-----------------------------------------------------------------------------
(* Safety *)

Answers == {"none", "refused", "full", "expired", "uploaded", "queued",
            "gone", "failed", "result", "timeout", "left"}

\* The state of every request has its type.
RequestsTypeOK ==
    /\ request \in
          [Request ->
              [pc : {"idle", "reading", "saving", "parsed", "polling",
                     "sleeping", "failing", "deleting", "done"},
               kind : Kind \cup {"none"}, upload : Upload \cup {NoUpload},
               job : Job \cup {NoJob},
               body : {"none", "arriving", "read", "failed"},
               slot : BOOLEAN, timed : BOOLEAN, left : BOOLEAN, since : Time, polled : Time,
               answer : Answers]]
    /\ slots \in Nat

\* However the end of a body and the end of its request fall, the channel holds
\* one slot for each upload whose body is still arriving or has failed in a
\* request that goes on, no slot for any other, and never more than UploadSlots
\* (ServeHTTP, bodyReader.Read).
SlotsExact ==
    /\ slots = Cardinality({r \in Request :
                  TakesSlot(request[r].kind) /\ request[r].pc # "done"
                  /\ request[r].body # "read"})
    /\ slots <= UploadSlots

\* When a synchronous request returns, on whatever way, nothing of it is left:
\* its job is gone and its upload is neither stored nor charged, whether it was
\* refused, finished, timed out, was left, or met the janitor (transcriptions).
SyncLeavesNothing ==
    \A r \in Request : request[r].kind = "sync" /\ request[r].pc = "done" =>
        /\ request[r].job # NoJob => job[request[r].job].status = "gone"
        /\ request[r].upload # NoUpload => upload[request[r].upload].state = "gone"

\* Quota is only ever held for somebody: an upload that is stored or being
\* saved belongs to a request that goes on, or its URL was answered to a client
\* (readForm, submit, download).
UploadsAreOwned ==
    \A u \in Upload : upload[u].state \notin {"unborn", "gone"} =>
        \E r \in Request : /\ request[r].upload = u
                           /\ \/ request[r].pc # "done"
                              \/ request[r].answer \in {"uploaded", "queued"}

\* A form whose fields arrive slowly after its file still finds the upload
\* when it submits it: a body ends before the janitor takes the upload for
\* abandoned (pace.add, staleAge).
UploadAwaitsSubmission ==
    \A r \in Request : request[r].pc \in {"reading", "parsed"}
                       /\ request[r].upload # NoUpload
                       => upload[request[r].upload].state = "stored"

\* A waiting request sees how its job ended: it never comes too late and
\* answers 404 for a job that has finished and passed its retention (wait).
NeverAnsweredGone == \A r \in Request : request[r].answer # "gone"

\* A wait is given up as left by its client only if it was: no deadline of the
\* body's reads outlives the body and cancels the wait (bodyReader.Read, wait).
LeftOnlyIfLeft ==
    \A r \in Request : request[r].pc = "deleting" /\ request[r].answer = "left"
                       => request[r].left

-----------------------------------------------------------------------------
(* Progress *)

\* Every request that has arrived returns, whatever its client and the workers
\* do: bodies have deadlines and waits a timeout (bodyReader, wait).
RequestsReturn ==
    \A r \in Request : request[r].pc # "idle" ~> request[r].pc = "done"
=============================================================================
