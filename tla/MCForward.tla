------------------------------ MODULE MCForward ------------------------------
(* A small instance of Forward for TLC: up to three chunks in each          *)
(* direction, and on a datagram tunnel two, for two sessions of the client. *)
EXTENDS Forward
=============================================================================
