---------------------------- MODULE MCRawDispatch ----------------------------
(* Small instances of RawDispatch for TLC: up to two servers and two       *)
(* clients on one host, and ids few enough to be drawn again after a reap. *)
EXTENDS RawDispatch, TLC

CONSTANTS s1, s2, c1, c2
OneClient == c1 :> 1
TwoClients == c1 :> 1 @@ c2 :> 2
=============================================================================
