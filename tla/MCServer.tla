------------------------------ MODULE MCServer ------------------------------
(* A small instance of Server for TLC; no symmetry, for liveness. *)
EXTENDS Server
=============================================================================
