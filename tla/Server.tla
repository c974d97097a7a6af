------------------------------- MODULE Server -------------------------------
(***************************************************************************)
(* The queue inside its process (internal/api/server.go): the janitor runs *)
(* Cleanup at once and then at every tick of its timer, the clients, the   *)
(* workers and restarts do as they like.  This is where time is fair and   *)
(* liveness is stated.                                                     *)
(***************************************************************************)
EXTENDS Store

VARIABLE janitor    \* "due": about to call Cleanup; "cleaning"; "waiting"

serverVars == <<vars, janitor>>

ServerInit == Init /\ janitor = "due"

\* Calls of the handlers, for clients and workers.
HandlerNext ==
    \/ \E u \in Upload : SaveNext(u) \/ DiscardUpload(u)
    \/ \E j \in Job : Delete(j)
    \/ \E u \in Upload, j \in Job, t \in RecentPast : Submit(u, j, t)
    \/ \E t \in RecentPast : Claim(t)
    \/ \E j \in Job : \E k \in Issued(j), t \in RecentPast : WorkerNext(j, k, t)

Handle == HandlerNext /\ UNCHANGED janitor

JanitorBegin ==
    /\ janitor = "due"
    /\ \E t \in RecentPast : CleanupLocked(t)
    /\ janitor' = "cleaning"

JanitorSweep ==
    /\ janitor = "cleaning"
    /\ SweepNext
    /\ janitor' = IF sweep'.pc = "idle" THEN "waiting" ELSE "cleaning"

\* The timer fires once per unit of time; a call of Cleanup takes less.
TickerFires ==
    /\ janitor = "waiting"
    /\ Tick
    /\ janitor' = "due"

\* Past the bound of the model's clock the timer keeps firing.
TickerFiresAtBound ==
    /\ janitor = "waiting" /\ clock = MaxClock
    /\ janitor' = "due"
    /\ UNCHANGED vars

\* The process ends, in order or by a crash, and Run starts again.
Restart == New /\ janitor' = "due"

ServerNext ==
    Handle \/ JanitorBegin \/ JanitorSweep \/ TickerFires \/ TickerFiresAtBound
    \/ Restart

\* A running Save ends: its transfer has a deadline, the rest is local.
SaveEnds(u) == (SaveDrop(u) \/ SaveReject(u) \/ SaveCommit(u)) /\ UNCHANGED janitor

\* A removal that is tried again and again succeeds at last.
SweepRemoves == JanitorSweep /\ CleanupRemove /\ file'[sweep.doomed] = Absent

\* The directory can be read, now and then.
SweepLists == JanitorSweep /\ CleanupList /\ sweep'.pc = "sweeping"

Fairness ==
    /\ WF_serverVars(JanitorBegin) /\ WF_serverVars(JanitorSweep)
    /\ WF_serverVars(TickerFires) /\ WF_serverVars(TickerFiresAtBound)
    /\ \A u \in Upload : WF_serverVars(SaveEnds(u))
    /\ SF_serverVars(SweepRemoves) /\ SF_serverVars(SweepLists)

\* No client, no worker and no call of Claim is assumed to do anything.
ServerSpec == ServerInit /\ [][ServerNext]_serverVars /\ Fairness

-----------------------------------------------------------------------------
(* Liveness *)

\* A submitted job never stays pending: with every worker gone, asleep or
\* extending its lease for ever, the age limit ends it (Cleanup).
JobsSettle ==
    \A j \in Job : job[j].status \in Pending ~> job[j].status \notin Pending

\* Whatever the clients leave behind and whichever removals fail, in the end
\* nothing is charged and no file is left (Cleanup, janitor).
StorageDrains == <>[](used = 0 /\ \A u \in Upload : file[u] = Absent)

\* What was submitted is forgotten: a finished job leaves the store, with the
\* upload that re-submitting it would find (Cleanup).
JobsForgotten ==
    \A j \in Job : job[j].status \in Finished ~> job[j].status = "gone"
=============================================================================
