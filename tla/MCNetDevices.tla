---------------------------- MODULE MCNetDevices ----------------------------
(* Two clients of each device protocol: enough for one to take the other's *)
(* place, and for an exchange to fail after another.                       *)
EXTENDS NetDevices
=============================================================================
