--------------------------- MODULE MCCommandLine ---------------------------
(* Argument lists of up to four; a server of three protocols, one of TCP,  *)
(* one of raw IP and one with a device, on ports that may clash; a client  *)
(* with the server's base port or another, which also asks for a protocol  *)
(* the server does not have but answers; two units.                        *)
EXTENDS CommandLine

MCNames == {"tcp", "sit", "6to4", "wireguard"}
MCTexts == MCNames \cup {"bogus", "wg", "false", "blind", "password", "throughput", "throughput-only"}
MCTokens ==
  {Word("tcp"), Word("bogus")}
    \cup {Flag(d, n) : d \in {1, 2}, n \in {"blind", "password", "throughput", "throughput-only"}}
    \cup {FlagIs(1, "throughput-only", <<Word("wg")>>), FlagIs(2, "throughput-only", <<Word("false")>>)}
MCServerConfs ==
  {[requested |-> {"tcp", "sit", "wg"}, control |-> c] : c \in {0, 10 + 1}}
    \cup {[requested |-> {"wg"}, control |-> 20], [requested |-> {"bogus"}, control |-> 0]}
MCProtocols == {{}, {"tcp", "6to4"}}
MCBases == {10, 11}
MCForwards ==
  {[mode |-> m, missing |-> FALSE, protocol |-> p, base |-> b, control |-> c] :
     m \in {"forward", "socks"}, p \in {"tcp", "wg"}, b \in MCBases, c \in {0, 10}}
    \cup {[mode |-> "forward", missing |-> TRUE, protocol |-> "tcp", base |-> 10, control |-> 0]}
=============================================================================
