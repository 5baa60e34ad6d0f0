---------------------------- MODULE MCUDPDispatch ----------------------------
(* Small instances of UDPDispatch for TLC: two clients, channels of one or  *)
(* two slots, and the kinds of datagram each mode tells apart.              *)
EXTENDS UDPDispatch

EchoKinds == {"ping", "empty", "junk"}
StrayKinds == {"junk"}
RelayKinds == {"dial", "data", "empty", "junk"}
=============================================================================
