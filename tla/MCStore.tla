------------------------------ MODULE MCStore ------------------------------
(* Small instances of Store for TLC. *)
EXTENDS Store, TLC

\* Identifiers are interchangeable.
IdSymmetry == Permutations(Upload) \cup Permutations(Job)
=============================================================================
