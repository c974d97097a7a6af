----------------------------- MODULE MCWorkers -----------------------------
(* Small instances of Workers for TLC. *)
EXTENDS Workers, TLC

\* Workers are interchangeable.
WorkerSymmetry == Permutations(Worker)

\* The pauses of post, with BACKOFF_SECONDS as the unit.
MCPause == [n \in 1 .. Attempts |-> 2 ^ (n - 1)]
=============================================================================
