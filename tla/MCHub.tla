------------------------------- MODULE MCHub --------------------------------
(* Small instances of Hub for TLC. *)
EXTENDS Hub, TLC

CONSTANTS c1, c2

MCClients == {c1, c2}
=============================================================================
