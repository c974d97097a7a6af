---------------------------- MODULE JobLifecycle ----------------------------
(***************************************************************************)
(* What the queue promises about a job, without clocks, leases, uploads or *)
(* storage: a job waits, is held by one attempt at a time, and ends once.  *)
(* An attempt may lose the job at any moment; a job is attempted at most   *)
(* MaxAttempts times; one step hands out at most one job, the oldest.      *)
(***************************************************************************)
EXTENDS Integers, FiniteSets

CONSTANTS Job, MaxAttempts, MaxPendingJobs

VARIABLES
    phase,     \* of each job
    attempt,   \* the attempts a job has had
    outcome,   \* the attempt whose result a completed job has
    place      \* its place in the queue

lifecycleVars == <<phase, attempt, outcome, place>>

Waits(j) == phase[j] = "queued"
Held(j) == phase[j] = "processing"
Open(j) == Waits(j) \/ Held(j)
Exists(j) == phase[j] \notin {"unborn", "gone"}

Init ==
    /\ phase = [j \in Job |-> "unborn"]
    /\ attempt = [j \in Job |-> 0]
    /\ outcome = [j \in Job |-> 0]
    /\ place = [j \in Job |-> 0]

Keeps(j) == UNCHANGED <<phase[j], attempt[j], outcome[j], place[j]>>

Enqueue(j) ==
    /\ phase[j] = "unborn" /\ phase'[j] = "queued"
    /\ attempt'[j] = 0 /\ outcome'[j] = 0
    /\ \A i \in Job \ {j} : Exists(i) => place[i] < place'[j]

\* A waiting job, or one its attempt has lost, is handed to a new attempt.
Take(j) ==
    /\ Open(j) /\ attempt[j] < MaxAttempts /\ phase'[j] = "processing"
    /\ attempt'[j] = attempt[j] + 1
    /\ UNCHANGED <<outcome[j], place[j]>>

\* An attempt gives its job back, or loses it, with attempts left.
Return(j) ==
    /\ Held(j) /\ attempt[j] < MaxAttempts /\ phase'[j] = "queued"
    /\ UNCHANGED <<attempt[j], outcome[j], place[j]>>

\* The attempt that holds a job completes it.
Complete(j) ==
    /\ Held(j) /\ phase'[j] = "completed"
    /\ outcome'[j] = attempt[j]
    /\ UNCHANGED <<attempt[j], place[j]>>

GiveUp(j) ==
    /\ Open(j) /\ phase'[j] = "error"
    /\ UNCHANGED <<attempt[j], outcome[j], place[j]>>

Remove(j) == Exists(j) /\ phase'[j] = "gone" /\ attempt'[j] = 0
             /\ outcome'[j] = 0 /\ place'[j] = 0

JobStep(j) ==
    \/ Enqueue(j) \/ Take(j) \/ Return(j) \/ Complete(j) \/ GiveUp(j)
    \/ Remove(j)

\* Jobs move independently, except that one step takes at most one job, that
\* it leaves no older job waiting, and that the open jobs are limited.
Next ==
    /\ \A j \in Job : Keeps(j) \/ JobStep(j)
    /\ \A j, i \in Job : attempt'[j] > attempt[j] =>
          /\ i # j => attempt'[i] <= attempt[i]
          /\ phase'[i] = "queued" => place[j] < place[i]
    /\ Cardinality({j \in Job : phase'[j] \in {"queued", "processing"}})
         <= MaxPendingJobs

Spec == Init /\ [][Next]_lifecycleVars
=============================================================================
