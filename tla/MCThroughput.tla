---------------------------- MODULE MCThroughput ----------------------------
(* Small instances of Throughput for TLC: a blast of two or three frames    *)
(* over buffers of one, with deadlines a few ticks apart.                   *)
EXTENDS Throughput
=============================================================================
