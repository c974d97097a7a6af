------------------------------ MODULE Processes ------------------------------
(***************************************************************************)
(* The processes that share one data directory (internal/api/server.go     *)
(* Run, internal/api/lock.go, store.New, cmd/parakeet-api/main.go): each   *)
(* locks the directory, wipes the audio, serves, and ends in the order of  *)
(* Run's deferred calls.  A handler may outlive the shutdown; only the end *)
(* of its process ends it.                                                 *)
(***************************************************************************)
EXTENDS Naturals, FiniteSets

CONSTANTS
    Process,        \* processes, as an orchestrator starts them
    Blob,           \* audio files, one for each upload
    Nobody,
    MaxStarts       \* bound: how many times a process is started

ASSUME ProcessesAssumption == Nobody \notin Process /\ MaxStarts \in Nat

VARIABLES
    pc,         \* where Run is, for each process
    asked,      \* has SIGTERM or SIGINT arrived?
    conns,      \* "open"; "cut": no new request; "none": no handler runs
    janitor,    \* the goroutine of the janitor
    doomed,     \* the files its Cleanup is going to remove
    lock,       \* who holds the flock on api.lock
    owner,      \* the process whose handler made up the name of the file
    stage,      \* what that process knows of the upload
    disk,       \* the audio directory: "absent", "new", or "old" (staleAge)
    starts

procVars == <<pc, asked, conns, janitor, doomed, lock, owner, stage, disk, starts>>
handlerVars == <<owner, stage, disk>>
janitorVars == <<janitor, doomed>>

ProcessesInit ==
    /\ pc = [p \in Process |-> "down"]
    /\ asked = [p \in Process |-> FALSE]
    /\ conns = [p \in Process |-> "none"]
    /\ janitor = [p \in Process |-> "off"]
    /\ doomed = [p \in Process |-> {}]
    /\ lock = Nobody
    /\ owner = [b \in Blob |-> Nobody]
    /\ stage = [b \in Blob |-> "unused"]
    /\ disk = [b \in Blob |-> "absent"]
    /\ starts = 0

InHand(p) == {b \in Blob : owner[b] = p /\ stage[b] \in {"arrived", "writing"}}
Known(p) == {b \in Blob : owner[b] = p /\ stage[b] = "stored"}

\* Run goes from one of its lines to another, and does nothing else there.
Goes(p, from, to) == pc[p] = from /\ pc' = [pc EXCEPT ![p] = to]

-----------------------------------------------------------------------------
(* The life of a process *)

Start(p) ==
    /\ starts < MaxStarts
    /\ Goes(p, "down", "starting")
    /\ starts' = starts + 1
    /\ UNCHANGED <<asked, conns, janitorVars, lock, handlerVars>>

\* SIGTERM is only noted, by signal.NotifyContext; Run looks once it serves.
Signal(p) ==
    /\ pc[p] # "down" /\ ~asked[p]
    /\ asked' = [asked EXCEPT ![p] = TRUE]
    /\ UNCHANGED <<pc, conns, janitorVars, lock, handlerVars, starts>>

\* The directory cannot be made, or another process has the lock.
Refused(p) ==
    /\ Goes(p, "starting", "returned")
    /\ UNCHANGED <<asked, conns, janitorVars, lock, handlerVars, starts>>

Lock(p) ==
    /\ lock = Nobody /\ lock' = p
    /\ Goes(p, "starting", "locked")
    /\ UNCHANGED <<asked, conns, janitorVars, handlerVars, starts>>

\* store.New deletes whatever a process before it has left.
Wipe(p) ==
    /\ Goes(p, "locked", "wiped")
    /\ disk' = [b \in Blob |-> "absent"]
    /\ UNCHANGED <<asked, conns, janitorVars, lock, owner, stage, starts>>

WipeFails(p) ==
    /\ Goes(p, "locked", "unlocking")
    /\ \E left \in SUBSET Blob :
        disk' = [b \in Blob |-> IF b \in left THEN disk[b] ELSE "absent"]
    /\ UNCHANGED <<asked, conns, janitorVars, lock, owner, stage, starts>>

Listen(p) ==
    /\ Goes(p, "wiped", "serving")
    /\ conns' = [conns EXCEPT ![p] = "open"]
    /\ janitor' = [janitor EXCEPT ![p] = "due"]
    /\ UNCHANGED <<asked, doomed, lock, handlerVars, starts>>

ListenFails(p) ==
    /\ Goes(p, "wiped", "unlocking")
    /\ UNCHANGED <<asked, conns, janitorVars, lock, handlerVars, starts>>

\* Serve fails: Run returns at once, the connections there are stay open.
ServeFails(p) ==
    /\ Goes(p, "serving", "leaving")
    /\ UNCHANGED <<asked, conns, janitorVars, lock, handlerVars, starts>>

Stop(p) ==
    /\ asked[p]
    /\ Goes(p, "serving", "draining")
    /\ UNCHANGED <<asked, conns, janitorVars, lock, handlerVars, starts>>

\* Shutdown waits for the handlers; every one of them has returned.
Drained(p) ==
    /\ InHand(p) = {}
    /\ Goes(p, "draining", "leaving")
    /\ conns' = [conns EXCEPT ![p] = "none"]
    /\ UNCHANGED <<asked, janitorVars, lock, handlerVars, starts>>

\* It waits 30 seconds; Close ends the connections and not the handlers.
DrainTimesOut(p) ==
    /\ Goes(p, "draining", "leaving")
    /\ conns' = [conns EXCEPT ![p] = "cut"]
    /\ UNCHANGED <<asked, janitorVars, lock, handlerVars, starts>>

\* Mutant: the deferred calls the other way round, the wait before the stop.
MutStopJanitorLast(p) ==
    /\ janitor[p] = "ended"
    /\ Goes(p, "leaving", "waiting")
    /\ UNCHANGED <<asked, conns, janitorVars, lock, handlerVars, starts>>

StopJanitor(p) ==
    /\ Goes(p, "leaving", "waiting")
    /\ UNCHANGED <<asked, conns, janitorVars, lock, handlerVars, starts>>

\* Mutant: no wait for a sweep under way.
MutJanitorWaitedNot(p) ==
    /\ Goes(p, "waiting", "unlocking")
    /\ UNCHANGED <<asked, conns, janitorVars, lock, handlerVars, starts>>

JanitorWaited(p) ==
    /\ janitor[p] = "ended"
    /\ Goes(p, "waiting", "unlocking")
    /\ UNCHANGED <<asked, conns, janitorVars, lock, handlerVars, starts>>

Unlock(p) ==
    /\ lock' = Nobody
    /\ Goes(p, "unlocking", "returned")
    /\ UNCHANGED <<asked, conns, janitorVars, handlerVars, starts>>

\* The process is gone, with its memory, its handlers and its lock.
Gone(p) ==
    /\ pc' = [pc EXCEPT ![p] = "down"]
    /\ asked' = [asked EXCEPT ![p] = FALSE]
    /\ conns' = [conns EXCEPT ![p] = "none"]
    /\ janitor' = [janitor EXCEPT ![p] = "off"]
    /\ doomed' = [doomed EXCEPT ![p] = {}]
    /\ lock' = IF lock = p THEN Nobody ELSE lock
    /\ stage' = [b \in Blob |-> IF owner[b] = p THEN "over" ELSE stage[b]]
    /\ UNCHANGED <<owner, disk, starts>>

Exit(p) == pc[p] = "returned" /\ Gone(p)
Die(p) == pc[p] # "down" /\ Gone(p)

-----------------------------------------------------------------------------
(* The handlers: an upload from its request to the removal of its audio *)

Arrive(p, b) ==
    /\ conns[p] = "open" /\ stage[b] = "unused"
    /\ owner' = [owner EXCEPT ![b] = p]
    /\ stage' = [stage EXCEPT ![b] = "arrived"]
    /\ UNCHANGED <<pc, asked, conns, janitorVars, lock, disk, starts>>

\* write creates the file, a request for some time under way included.
Create(b) ==
    /\ stage[b] = "arrived"
    /\ stage' = [stage EXCEPT ![b] = "writing"]
    /\ disk' = [disk EXCEPT ![b] = "new"]
    /\ UNCHANGED <<pc, asked, conns, janitorVars, lock, owner, starts>>

Commit(b) ==
    /\ stage[b] = "writing"
    /\ stage' = [stage EXCEPT ![b] = "stored"]
    /\ UNCHANGED <<pc, asked, conns, janitorVars, lock, owner, disk, starts>>

\* A failed Save, or a call that is done with the audio of a stored upload.
Drop(b) ==
    /\ \/ stage[b] \in {"arrived", "writing"}
       \/ stage[b] = "stored" /\ conns[owner[b]] # "none"
    /\ stage' = [stage EXCEPT ![b] = "over"]
    /\ disk' = [disk EXCEPT ![b] = "absent"]
    /\ UNCHANGED <<pc, asked, conns, janitorVars, lock, owner, starts>>

\* An hour passes; no transfer lasts that long.
Age(b) ==
    /\ disk[b] = "new" /\ stage[b] # "writing"
    /\ disk' = [disk EXCEPT ![b] = "old"]
    /\ UNCHANGED <<pc, asked, conns, janitorVars, lock, owner, stage, starts>>

-----------------------------------------------------------------------------
(* The janitor *)

\* Mutant: only what this process has stored itself.
MutStaleOwn(p) == {b \in Blob \ Known(p) : owner[b] = p /\ disk[b] = "old"}

Stale(p) == {b \in Blob \ Known(p) : disk[b] = "old"}

JanitorLooks(p) ==
    /\ janitor[p] = "due"
    /\ janitor' = [janitor EXCEPT ![p] = "sweeping"]
    /\ doomed' = [doomed EXCEPT ![p] = Stale(p)]
    /\ UNCHANGED <<pc, asked, conns, lock, handlerVars, starts>>

JanitorRemoves(p, b) ==
    /\ janitor[p] = "sweeping" /\ b \in doomed[p]
    /\ disk' = [disk EXCEPT ![b] = "absent"]
    /\ doomed' = [doomed EXCEPT ![p] = @ \ {b}]
    /\ UNCHANGED <<pc, asked, conns, janitor, lock, owner, stage, starts>>

JanitorRests(p) ==
    /\ janitor[p] = "sweeping" /\ doomed[p] = {}
    /\ janitor' = [janitor EXCEPT ![p] = "resting"]
    /\ UNCHANGED <<pc, asked, conns, doomed, lock, handlerVars, starts>>

\* The ticker fires; select may prefer it to a context that is done.
JanitorTicks(p) ==
    /\ janitor[p] = "resting"
    /\ janitor' = [janitor EXCEPT ![p] = "due"]
    /\ UNCHANGED <<pc, asked, conns, doomed, lock, handlerVars, starts>>

JanitorEnds(p) ==
    /\ janitor[p] = "resting" /\ pc[p] \notin {"serving", "draining", "leaving"}
    /\ janitor' = [janitor EXCEPT ![p] = "ended"]
    /\ UNCHANGED <<pc, asked, conns, doomed, lock, handlerVars, starts>>

-----------------------------------------------------------------------------

\* What Run does by itself, once it was called.
Run(p) ==
    \/ Refused(p) \/ Lock(p) \/ Wipe(p) \/ WipeFails(p) \/ Listen(p) \/ ListenFails(p)
    \/ Stop(p) \/ Drained(p) \/ DrainTimesOut(p)
    \/ StopJanitor(p) \/ JanitorWaited(p) \/ Unlock(p) \/ Exit(p)

Sweeps(p) ==
    \/ JanitorLooks(p) \/ JanitorRests(p) \/ JanitorTicks(p)
    \/ \E b \in Blob : JanitorRemoves(p, b)

HandlerNext == \E b \in Blob :
    \/ \E p \in Process : Arrive(p, b)
    \/ Create(b) \/ Commit(b) \/ Drop(b) \/ Age(b)

ProcessesNext ==
    \/ HandlerNext
    \/ \E p \in Process :
        \/ Start(p) \/ Signal(p) \/ ServeFails(p) \/ Die(p)
        \/ Run(p) \/ Sweeps(p) \/ JanitorEnds(p)

\* The code runs on, time passes, and select chooses at random among what is
\* ready.  No handler, no signal and no restart is assumed.
ProcessesFairness ==
    /\ \A p \in Process :
        WF_procVars(Run(p)) /\ WF_procVars(Sweeps(p)) /\ SF_procVars(JanitorEnds(p))
    /\ \A b \in Blob : WF_procVars(Age(b))

ProcessesSpec == ProcessesInit /\ [][ProcessesNext]_procVars /\ ProcessesFairness

-----------------------------------------------------------------------------
(* Properties *)

\* The comment in Run, and what the lock is for: while a process holds the
\* lock, nobody removes a file that it writes or keeps, by a wipe or a sweep.
NeededOnDisk ==
    \A b \in Blob :
        stage[b] \in {"writing", "stored"} /\ owner[b] = lock => disk[b] # "absent"

\* A process that was told to stop ends: no handler, no sweep and no deferred
\* call keeps it (Run).
StoppingEnds == \A p \in Process : asked[p] ~> pc[p] = "down"

\* Where a process serves on, no file of another remains, not even one that a
\* handler wrote after its process had given up the lock (janitor, Cleanup).
Orphans == {b \in Blob : disk[b] # "absent" /\ stage[b] = "over"}
OrphansGo == <>[](\E p \in Process : pc[p] = "serving") => <>[](Orphans = {})
=============================================================================
