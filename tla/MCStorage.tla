------------------------------ MODULE MCStorage ------------------------------
(* A small instance of Storage for TLC. *)
EXTENDS Storage

CONSTANTS r1, r2, r3

MCRequests == {r1, r2, r3}
=============================================================================
