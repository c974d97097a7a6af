--------------------------- MODULE ProcessesProofs ---------------------------
(***************************************************************************)
(* For any number of processes on one data directory, in any order of      *)
(* crashes, stops and starts: one process at a time is between its lock    *)
(* and its unlock, and the audio it needs is removed by no other.          *)
(*                                                                         *)
(* The lock alone does not show that.  A wipe runs before any handler of   *)
(* its process, a janitor only while its process has the lock, and what a  *)
(* janitor dooms was old when it looked, hence neither being written nor   *)
(* stored since.                                                           *)
(***************************************************************************)
EXTENDS Processes, TLAPS

Locked == {"locked", "wiped", "serving", "draining", "leaving", "waiting", "unlocking"}
Sweeping == {"serving", "draining", "leaving", "waiting"}
Serves == Sweeping \cup {"unlocking", "returned"}
Active == {"arrived", "writing", "stored"}

ProcTypeOK ==
    /\ pc \in [Process -> Locked \cup {"down", "starting", "returned"}]
    /\ asked \in [Process -> BOOLEAN]
    /\ conns \in [Process -> {"none", "open", "cut"}]
    /\ janitor \in [Process -> {"off", "due", "sweeping", "resting", "ended"}]
    /\ doomed \in [Process -> SUBSET Blob]
    /\ lock \in Process \cup {Nobody}
    /\ owner \in [Blob -> Process \cup {Nobody}]
    /\ stage \in [Blob -> Active \cup {"unused", "over"}]
    /\ disk \in [Blob -> {"absent", "new", "old"}]
    /\ starts \in 0..MaxStarts

\* The lock is held from Lock to Unlock.
LockHeld == \A p \in Process : pc[p] \in Locked <=> lock = p

\* A janitor runs while its process has the lock.
JanitorLocked ==
    \A p \in Process :
        /\ janitor[p] \in {"due", "sweeping", "resting"} => pc[p] \in Sweeping
        /\ doomed[p] # {} => janitor[p] = "sweeping"

\* A handler runs after its process has wiped the directory.
HandlersServed ==
    /\ \A p \in Process : conns[p] # "none" => pc[p] \in Serves
    /\ \A b \in Blob :
        stage[b] \in Active => owner[b] \in Process /\ pc[owner[b]] \in Serves

\* A file appears with its Save and is not old before that has ended.
FilesHeld ==
    \A b \in Blob :
        /\ stage[b] \in {"unused", "arrived"} => disk[b] = "absent"
        /\ stage[b] = "writing" => disk[b] # "old"

\* A sweep spares what its process needs.
DoomedSpares ==
    \A p \in Process : \A b \in doomed[p] :
        stage[b] \notin {"unused", "arrived"} /\ (owner[b] = p => stage[b] = "over")

ProcIInv ==
    /\ ProcTypeOK /\ LockHeld /\ JanitorLocked /\ HandlersServed
    /\ FilesHeld /\ DoomedSpares /\ NeededOnDisk

\* At the start every process is down and the directory is empty.
LEMMA ProcInitial == ProcessesInit => ProcIInv
  BY ProcessesAssumption DEF ProcessesInit, ProcIInv, ProcTypeOK, LockHeld, JanitorLocked, HandlersServed, FilesHeld, DoomedSpares, NeededOnDisk, Locked, Sweeping, Serves, Active, janitorVars, handlerVars, Goes

\* Each step of a process, of a handler and of a janitor keeps the invariant.
LEMMA ProcStep ==
  ASSUME ProcIInv, [ProcessesNext]_procVars
  PROVE  ProcIInv'
  <1> USE ProcessesAssumption DEF ProcIInv, ProcTypeOK, LockHeld, JanitorLocked, HandlersServed, FilesHeld, DoomedSpares, NeededOnDisk, Locked, Sweeping, Serves, Active, janitorVars, handlerVars, Goes
  <1>1. ASSUME NEW p \in Process, Start(p) PROVE ProcIInv'
    BY <1>1 DEF Start
  <1>2. ASSUME NEW p \in Process, Signal(p) PROVE ProcIInv'
    BY <1>2 DEF Signal
  <1>3. ASSUME NEW p \in Process, Refused(p) PROVE ProcIInv'
    BY <1>3 DEF Refused
  <1>4. ASSUME NEW p \in Process, Lock(p) PROVE ProcIInv'
    BY <1>4 DEF Lock
  <1>5. ASSUME NEW p \in Process, Wipe(p) PROVE ProcIInv'
    BY <1>5 DEF Wipe
  <1>6. ASSUME NEW p \in Process, WipeFails(p) PROVE ProcIInv'
    BY <1>6 DEF WipeFails
  <1>7. ASSUME NEW p \in Process, Listen(p) PROVE ProcIInv'
    BY <1>7 DEF Listen
  <1>8. ASSUME NEW p \in Process, ListenFails(p) PROVE ProcIInv'
    BY <1>8 DEF ListenFails
  <1>9. ASSUME NEW p \in Process, ServeFails(p) PROVE ProcIInv'
    BY <1>9 DEF ServeFails
  <1>10. ASSUME NEW p \in Process, Stop(p) PROVE ProcIInv'
    BY <1>10 DEF Stop
  <1>11. ASSUME NEW p \in Process, Drained(p) PROVE ProcIInv'
    BY <1>11 DEF Drained, InHand
  <1>12. ASSUME NEW p \in Process, DrainTimesOut(p) PROVE ProcIInv'
    BY <1>12 DEF DrainTimesOut
  <1>13. ASSUME NEW p \in Process, StopJanitor(p) PROVE ProcIInv'
    BY <1>13 DEF StopJanitor
  <1>14. ASSUME NEW p \in Process, JanitorWaited(p) PROVE ProcIInv'
    BY <1>14 DEF JanitorWaited
  <1>15. ASSUME NEW p \in Process, Unlock(p) PROVE ProcIInv'
    BY <1>15 DEF Unlock
  <1>16. ASSUME NEW p \in Process, Exit(p) PROVE ProcIInv'
    BY <1>16 DEF Exit, Gone
  <1>17. ASSUME NEW p \in Process, Die(p) PROVE ProcIInv'
    BY <1>17 DEF Die, Gone
  <1>18. ASSUME NEW p \in Process, JanitorLooks(p) PROVE ProcIInv'
    BY <1>18 DEF JanitorLooks, Stale, Known
  <1>19. ASSUME NEW p \in Process, JanitorRests(p) PROVE ProcIInv'
    BY <1>19 DEF JanitorRests
  <1>20. ASSUME NEW p \in Process, JanitorTicks(p) PROVE ProcIInv'
    BY <1>20 DEF JanitorTicks
  <1>21. ASSUME NEW p \in Process, JanitorEnds(p) PROVE ProcIInv'
    BY <1>21 DEF JanitorEnds
  <1>22. ASSUME NEW p \in Process, NEW b \in Blob, Arrive(p, b) PROVE ProcIInv'
    BY <1>22 DEF Arrive
  <1>23. ASSUME NEW b \in Blob, Create(b) PROVE ProcIInv'
    BY <1>23 DEF Create
  <1>24. ASSUME NEW b \in Blob, Commit(b) PROVE ProcIInv'
    BY <1>24 DEF Commit
  <1>25. ASSUME NEW b \in Blob, Drop(b) PROVE ProcIInv'
    BY <1>25 DEF Drop
  <1>26. ASSUME NEW b \in Blob, Age(b) PROVE ProcIInv'
    BY <1>26 DEF Age
  <1>27. ASSUME NEW p \in Process, NEW b \in Blob, JanitorRemoves(p, b) PROVE ProcIInv'
    BY <1>27 DEF JanitorRemoves
  <1>28. CASE UNCHANGED procVars
    BY <1>28 DEF procVars, Known, InHand
  <1> QED
    BY <1>1, <1>2, <1>3, <1>4, <1>5, <1>6, <1>7, <1>8, <1>9, <1>10, <1>11, <1>12, <1>13, <1>14, <1>15, <1>16, <1>17, <1>18, <1>19, <1>20, <1>21, <1>22, <1>23, <1>24, <1>25, <1>26, <1>27, <1>28 DEF ProcessesNext, HandlerNext, Run, Sweeps

\* The specification keeps the invariant.
LEMMA ProcInvariant == ProcessesSpec => []ProcIInv
  BY ProcInitial, ProcStep, PTL DEF ProcessesSpec

\* The audio that the process with the lock writes or keeps is removed neither
\* by the wipe nor by the sweep of another.
THEOREM AudioIsProtected == ProcessesSpec => []NeededOnDisk
  <1>1. ProcIInv => NeededOnDisk  BY DEF ProcIInv
  <1> QED  BY <1>1, ProcInvariant, PTL

\* At most one process at a time is between its lock and its unlock; so only
\* one wipes, sweeps or serves new requests.
OneAtATime ==
    \A p, q \in Process : pc[p] \in Locked /\ pc[q] \in Locked => p = q

THEOREM OneProcessServes == ProcessesSpec => []OneAtATime
  <1>1. ProcIInv => OneAtATime  BY DEF ProcIInv, LockHeld, OneAtATime
  <1> QED  BY <1>1, ProcInvariant, PTL
=============================================================================
