----------------------------- MODULE MCProcesses -----------------------------
(* A small instance of Processes for TLC; no symmetry, for liveness. *)
EXTENDS Processes
=============================================================================
