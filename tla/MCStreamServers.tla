-------------------------- MODULE MCStreamServers --------------------------
(* Every stream protocol with two clients, one of them honest, and a channel *)
(* of accepted tunnels that holds one.                                       *)
EXTENDS StreamServers

MCProtocols == StreamProtocols
=============================================================================
