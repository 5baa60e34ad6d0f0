------------------------------- MODULE MCProbe -------------------------------
(* Small instances of Probe for TLC: two or three probes per phase are      *)
(* enough for a stale pong of either phase to meet a later probe.           *)
EXTENDS Probe
=============================================================================
