----------------------------- MODULE MCRequests -----------------------------
(* Small instances of Requests for TLC. *)
EXTENDS Requests, TLC

\* Identifiers are interchangeable; used where liveness is not checked.
RequestSymmetry ==
    Permutations(Request) \cup Permutations(Upload) \cup Permutations(Job)
=============================================================================
