------------------------------- MODULE Suite -------------------------------
(***************************************************************************)
(* The two roles of the program between a parsed command line and an exit  *)
(* code: the server that opens a listener per protocol, then the control   *)
(* listener that hands out the manifest, and closes them again; the client *)
(* that fetches the manifest (or goes blind), tests every protocol asked   *)
(* for and writes a report; and the forwarding client that learns the port *)
(* of its tunnel and serves local connections, as a SOCKS5 proxy or with a *)
(* fixed target.  What happens in a test or a relay is Probe's,            *)
(* Throughput's and Forward's; here it ends well or not.                   *)
(*                                                                         *)
(* Ports are numbers relative to 10000.  Protocols still to be gone through *)
(* are a set, taken in the registry's order.                               *)
(***************************************************************************)
EXTENDS Naturals, Sequences, FiniteSets, SequencesExt, TLC

CONSTANTS Names,  \* a part of the registry
          Texts   \* what may be typed for a name

All ==
  <<"tcp", "udp", "tls", "quic", "http3", "kcp", "shadowsocks", "gre", "ipip", "sit", "icmpv6",
    "wireguard", "amnezia", "amnezia2", "tap", "http", "https", "ws", "wss", "anytls", "naive",
    "smtp", "icmp", "6to4", "geneve", "vxlan", "vxlan-gpe", "gue", "ipsec", "l2tp", "noise",
    "shadowtls", "trojan", "hysteria2">>

(* WireGuard and AmneziaWG take two ports each: key exchange and data. *)
PortOffset ==
  LET pairs(i) == Cardinality({j \in 1 .. i - 1 : All[j] \in {"wireguard", "amnezia", "amnezia2"}}) IN
  [n \in ToSet(All) |-> LET i == CHOOSE j \in 1 .. Len(All) : All[j] = n IN i + pairs(i)]

ASSUME NamesAssumption == Names \subseteq ToSet(All)

(* The one that the registry lists before the others. *)
First(S) == {n \in S : \A m \in S : PortOffset[n] <= PortOffset[m]}

NameAliases ==
  [w \in {"bip"} |-> "sit"] @@ [w \in {"icmp6"} |-> "icmpv6"] @@ [w \in {"h3"} |-> "http3"]
  @@ [w \in {"ss"} |-> "shadowsocks"] @@ [w \in {"wg"} |-> "wireguard"]
  @@ [w \in {"awg", "amneziawg", "amnesia", "amensia"} |-> "amnezia"]
  @@ [w \in {"awg2", "amnesia2", "amensia2"} |-> "amnezia2"] @@ [w \in {"l2tap", "l2", "tapvpn"} |-> "tap"]
  @@ [w \in {"http-connect", "httptunnel"} |-> "http"] @@ [w \in {"secure-http"} |-> "https"]
  @@ [w \in {"websocket", "wstunnel"} |-> "ws"] @@ [w \in {"secure-websocket", "wss-tunnel"} |-> "wss"]
  @@ [w \in {"any-tls"} |-> "anytls"] @@ [w \in {"naiveproxy", "naive-proxy"} |-> "naive"]
  @@ [w \in {"smtptunnel", "smtp-tunnel", "smtps"} |-> "smtp"] @@ [w \in {"icmp4", "icmpv4", "ping"} |-> "icmp"]
  @@ [w \in {"six-to-four", "sixfour", "six2four", "rfc3056"} |-> "6to4"]
  @@ [w \in {"vxlangpe", "vxgpe", "gpe"} |-> "vxlan-gpe"] @@ [w \in {"l2tpv3", "l2tp-v3"} |-> "l2tp"]
  @@ [w \in {"nnpsk0", "nn-psk0", "noisepsk"} |-> "noise"] @@ [w \in {"shadow-tls", "shad0wtls"} |-> "shadowtls"]
  @@ [w \in {"trojangfw"} |-> "trojan"] @@ [w \in {"hy2", "hysteria", "hy-hysteria", "hysteria-2"} |-> "hysteria2"]
NormalizeName(w) == IF w \in DOMAIN NameAliases THEN NameAliases[w] ELSE w

EffectiveControlPort(control, base) == IF control # 0 THEN control ELSE base

Unknown(requested) == \E w \in requested : NormalizeName(w) \notin Names
Wanted(requested) == {NormalizeName(w) : w \in requested} \cap Names

-----------------------------------------------------------------------------
VARIABLES
  sconf, srv,           \* server: its configuration and state
  todo, entries,        \* protocols still to listen; name -> Available
  open, loops, ctl,     \* open listeners, running accept loops, control listener
  cconf, cli,           \* client: its configuration and state
  known,                \* the manifest's, or blind mode's, entries
  left, results,        \* protocols still to test; <<name, status>>
  toSpeed, speeds,      \* the same of the throughput tests
  written, exit,        \* report written; exit code
  port, conn            \* forwarding: tunnel port; the local connection

server == <<sconf, srv, todo, entries, open, loops, ctl>>
tests == <<known, left, results, toSpeed, speeds, written>>
client == <<cconf, cli, tests, exit, port, conn>>
suite == <<server, client>>

NoConn == [st |-> "none", asked |-> FALSE, tun |-> "none", replies |-> << >>]
NoEntries == [n \in {} |-> FALSE]
ServerBase == 10

SuiteTypeOK ==
  /\ sconf \in [requested : SUBSET Texts, control : Nat]
  /\ srv \in {"off", "listening", "opened", "ready", "closing", "failing", "stopped", "failed", "killed"}
  /\ {todo, open, loops, left, toSpeed} \subseteq SUBSET Names
  /\ entries \in UNION {[S -> BOOLEAN] : S \in SUBSET Names}
  /\ known \in UNION {[S -> BOOLEAN] : S \in SUBSET Names}
  /\ {ctl, written} \subseteq BOOLEAN
  /\ cli \in {"off", "entries", "select", "testing", "port", "listen", "forwarding", "done"}
  /\ {results, speeds} \subseteq Seq(Names \X {"ok", "failed", "skipped"})
  /\ exit \in {"none", "0", "1"} /\ port \in Nat
  /\ conn.st \in {"none", "socks", "dial", "relay", "closed"} /\ conn.tun \in {"none", "open", "closed"}

SuiteInit ==
  /\ sconf = [requested |-> {}, control |-> 0] /\ srv = "off" /\ todo = {} /\ entries = NoEntries
  /\ open = {} /\ loops = {} /\ ctl = FALSE
  /\ cconf = [mode |-> "none"] /\ cli = "off" /\ known = NoEntries /\ left = {} /\ results = << >>
  /\ toSpeed = {} /\ speeds = << >> /\ written = FALSE /\ exit = "none" /\ port = 0 /\ conn = NoConn

-----------------------------------------------------------------------------
(* The server. *)

(* Protocols whose Listen opens a TCP listener at their offset. *)
BindsTCP == {"tcp", "tls", "shadowsocks", "http", "https", "ws", "wss", "anytls", "naive", "smtp",
             "noise", "shadowtls", "trojan", "wireguard", "amnezia", "amnezia2"}

(* The list in server.go that has to agree with it. *)
UsedTCPPorts(protos) ==
  {ServerBase + PortOffset[n] : n \in protos \cap
     {"tcp", "tls", "shadowsocks", "http", "https", "ws", "wss", "anytls", "naive", "smtp", "noise",
      "shadowtls", "trojan", "wireguard", "amnezia", "amnezia2"}}

ControlPort == EffectiveControlPort(sconf.control, ServerBase)

ServerSelect(requested) == IF requested = {} THEN Names ELSE Wanted(requested)

ServerStart(conf) ==
  /\ srv = "off" /\ sconf' = conf
  /\ LET protos == ServerSelect(conf.requested) IN
     IF \/ Unknown(conf.requested)
        \/ EffectiveControlPort(conf.control, ServerBase) \in UsedTCPPorts(protos)
     THEN srv' = "failed" /\ UNCHANGED todo
     ELSE srv' = "listening" /\ todo' = protos
  /\ UNCHANGED <<entries, open, loops, ctl, client>>

(* A protocol that cannot listen is offered as unavailable. *)
ListenNext ==
  /\ srv = "listening"
  /\ \E n \in First(todo), works \in BOOLEAN :
       /\ todo' = todo \ {n}
       /\ entries' = [m \in DOMAIN entries \cup {n} |-> IF m = n THEN works ELSE entries[m]]
       /\ open' = IF works THEN open \cup {n} ELSE open
       /\ loops' = IF works THEN loops \cup {n} ELSE loops
  /\ UNCHANGED <<sconf, srv, ctl, client>>

(* Which the kernel refuses when one of our own listeners has the port. *)
ControlClash == \E n \in open \cap BindsTCP : ServerBase + PortOffset[n] = ControlPort

\* Mutant of OpenControl: a control listener that fails just returns.
OpenControlLeaks ==
  /\ srv = "listening" /\ todo = {}
  /\ \E works \in BOOLEAN :
       /\ works => ~ControlClash
       /\ ctl' = works /\ srv' = IF works THEN "opened" ELSE "failed"
  /\ UNCHANGED <<sconf, todo, entries, open, loops, client>>

OpenControl ==
  /\ srv = "listening" /\ todo = {}
  /\ \E works \in BOOLEAN :
       /\ works => ~ControlClash
       /\ ctl' = works /\ srv' = IF works THEN "opened" ELSE "failing"
  /\ UNCHANGED <<sconf, todo, entries, open, loops, client>>

Notify ==
  /\ srv = "opened" /\ srv' = "ready"
  /\ UNCHANGED <<sconf, todo, entries, open, loops, ctl, client>>

(* Before signal.Notify a signal kills: sockets go with the process, the   *)
(* kernel's WireGuard interface does not.                                  *)
Signal ==
  /\ \/ srv = "ready" /\ srv' = "closing" /\ UNCHANGED <<open, loops, ctl>>
     \/ /\ srv \in {"listening", "opened", "failing"} /\ srv' = "killed"
        /\ open' = open \cap {"wireguard"} /\ loops' = {} /\ ctl' = FALSE
  /\ UNCHANGED <<sconf, todo, entries, client>>

CloseNext ==
  /\ srv \in {"closing", "failing"}
  /\ \/ /\ \E n \in open : open' = open \ {n}
        /\ UNCHANGED <<srv, ctl>>
     \/ /\ open = {} /\ ctl' = FALSE /\ srv' = (IF srv = "closing" THEN "stopped" ELSE "failed")
        /\ UNCHANGED open
  /\ UNCHANGED <<sconf, todo, entries, loops, client>>

(* Accept fails: the listener was closed, or any other reason, and the loop *)
(* is over while the manifest goes on offering the protocol.                *)
LoopEnds ==
  /\ \E n \in loops : loops' = loops \ {n}
  /\ UNCHANGED <<sconf, srv, todo, entries, open, ctl, client>>

(* handleControl: entries no longer change once the control listener is up. *)
Manifest(p) == ctl /\ p = ControlPort

ServerNext(confs) ==
  \/ \E conf \in confs : ServerStart(conf)
  \/ ListenNext \/ OpenControl \/ Notify \/ Signal \/ CloseNext \/ LoopEnds

-----------------------------------------------------------------------------
(* The benchmarking client. *)

Leaves(code) == cli' = "done" /\ exit' = code

(* A command line that pflag refuses. *)
UsageError ==
  /\ cli = "off" /\ Leaves("1")
  /\ UNCHANGED <<server, cconf, tests, port, conn>>

ClientStart(conf) ==
  /\ cli = "off" /\ cconf' = conf
  /\ cli' = "entries"
  /\ UNCHANGED <<server, tests, exit, port, conn>>

(* Five seconds bound the dial and the answer, whoever has the port. *)
FetchManifest ==
  /\ cli = "entries" /\ ~cconf.blind
  /\ \/ /\ Manifest(EffectiveControlPort(cconf.control, cconf.base))
        /\ known' = entries /\ cli' = "select" /\ UNCHANGED exit
     \/ Leaves("1") /\ UNCHANGED known
  /\ UNCHANGED <<server, cconf, left, results, toSpeed, speeds, written, port, conn>>

BlindEntries ==
  /\ cli = "entries" /\ cconf.blind
  /\ known' = [n \in Names |-> TRUE] /\ cli' = "select"
  /\ UNCHANGED <<server, cconf, left, results, toSpeed, speeds, written, exit, port, conn>>

ClientSelect(requested) ==
  IF requested = {} THEN Names \cap DOMAIN known ELSE Wanted(requested)

SelectTests ==
  /\ cli = "select"
  /\ IF Unknown(cconf.requested) \/ Unknown(cconf.throughput)
     THEN Leaves("1") /\ UNCHANGED <<left, toSpeed>>
     ELSE /\ cli' = "testing" /\ UNCHANGED exit
          /\ left' = IF cconf.only THEN {} ELSE ClientSelect(cconf.requested)
          /\ toSpeed' = Wanted(cconf.throughput)
  /\ UNCHANGED <<server, cconf, known, results, speeds, written, port, conn>>

(* A protocol the manifest does not name has the zero entry: unavailable. *)
Available(n) == n \in DOMAIN known /\ known[n]

(* Raw sockets know no ports, and sit and 6to4 are both IP protocol 41.     *)
RawIP == {"gre", "ipip", "sit", "icmpv6", "icmp", "6to4"}
Wire(n) == IF n = "6to4" THEN "sit" ELSE n

(* Who answers a client of n at port p: an accept loop at that port, or any *)
(* server of the same raw protocol, whose answers to others are heard too.  *)
(* Nobody but this server speaks the suite's protocols on its host.         *)
Served(n, p) ==
  IF n \in RawIP THEN \E m \in open : Wire(m) = Wire(n)
  ELSE n \in open \cap loops /\ p = ServerBase + PortOffset[n]

(* A dial that fails is "skipped"; one that works and finds no echo "failed". *)
Outcomes(n) ==
  IF ~Available(n) THEN {"skipped"}
  ELSE {"skipped", "failed"} \cup (IF Served(n, cconf.base + PortOffset[n]) THEN {"ok"} ELSE {})

TestNext ==
  /\ cli = "testing"
  /\ \E n \in First(left) : \E o \in Outcomes(n) :
       left' = left \ {n} /\ results' = Append(results, <<n, o>>)
  /\ UNCHANGED <<server, cconf, cli, known, toSpeed, speeds, written, exit, port, conn>>

SpeedNext ==
  /\ cli = "testing" /\ left = {}
  /\ \E n \in First(toSpeed) : \E o \in Outcomes(n) :
       toSpeed' = toSpeed \ {n} /\ speeds' = Append(speeds, <<n, o>>)
  /\ UNCHANGED <<server, cconf, cli, known, left, results, written, exit, port, conn>>

Failed(rs) == \E i \in DOMAIN rs : rs[i][2] = "failed"

\* Mutant of Report: the throughput tests do not count.
ReportBenchOnly ==
  /\ cli = "testing" /\ left = {} /\ toSpeed = {}
  /\ written' \in BOOLEAN
  /\ Leaves(IF ~written' \/ Failed(results) THEN "1" ELSE "0")
  /\ UNCHANGED <<server, cconf, known, left, results, toSpeed, speeds, port, conn>>

(* The report is written, if it can be, whatever failed. *)
Report ==
  /\ cli = "testing" /\ left = {} /\ toSpeed = {}
  /\ written' \in BOOLEAN
  /\ Leaves(IF ~written' \/ Failed(results) \/ Failed(speeds) THEN "1" ELSE "0")
  /\ UNCHANGED <<server, cconf, known, left, results, toSpeed, speeds, port, conn>>

-----------------------------------------------------------------------------
(* The forwarding client. *)

ForwardStart(conf) ==
  /\ cli = "off" /\ cconf' = conf
  /\ IF \/ conf.mode \notin {"forward", "socks"} \/ conf.missing
        \/ Unknown({conf.protocol})
     THEN Leaves("1") ELSE cli' = "port" /\ UNCHANGED exit
  /\ UNCHANGED <<server, tests, port, conn>>

Tunnel == NormalizeName(cconf.protocol)

\* Mutant of ForwardDialPort: the manifest's port is not the one dialed.
ForwardDialPortByBase ==
  /\ cli = "port"
  /\ \/ /\ cconf.control # 0 => Manifest(cconf.control) /\ Tunnel \in DOMAIN entries /\ entries[Tunnel]
        /\ port' = cconf.base + PortOffset[Tunnel] /\ cli' = "listen" /\ UNCHANGED exit
     \/ cconf.control # 0 /\ Leaves("1") /\ UNCHANGED port
  /\ UNCHANGED <<server, cconf, tests, conn>>

(* The manifest is asked only if a control port is given. *)
ForwardDialPort ==
  /\ cli = "port"
  /\ \/ /\ cconf.control = 0
        /\ port' = cconf.base + PortOffset[Tunnel] /\ cli' = "listen" /\ UNCHANGED exit
     \/ /\ cconf.control # 0 /\ Manifest(cconf.control)
        /\ Tunnel \in DOMAIN entries /\ entries[Tunnel]
        /\ port' = ServerBase + PortOffset[Tunnel] /\ cli' = "listen" /\ UNCHANGED exit
     \/ cconf.control # 0 /\ Leaves("1") /\ UNCHANGED port
  /\ UNCHANGED <<server, cconf, tests, conn>>

ForwardListen ==
  /\ cli = "listen"
  /\ \/ cli' = "forwarding" /\ UNCHANGED exit
     \/ Leaves("1")
  /\ UNCHANGED <<server, cconf, tests, port, conn>>

AcceptLocal ==
  /\ cli = "forwarding" /\ conn.st = "none"
  /\ conn' = [conn EXCEPT !.st = IF cconf.mode = "socks" THEN "socks" ELSE "dial"]
  /\ UNCHANGED <<server, cconf, cli, tests, exit, port>>

(* The greeting and a CONNECT; anything else, or the end of the            *)
(* connection, closes it without a reply.  No deadline: a silent           *)
(* application may stay here.                                              *)
Socks5Target ==
  /\ conn.st = "socks"
  /\ \/ conn' = [conn EXCEPT !.st = "dial", !.asked = TRUE]
     \/ conn' = [conn EXCEPT !.st = "closed"]
  /\ UNCHANGED <<server, cconf, cli, tests, exit, port>>

Socks5Reply(c, ok) == IF cconf.mode = "socks" THEN [c EXCEPT !.replies = Append(@, ok)] ELSE c

(* The answer is that of the tunnel's Dial, which may work with nobody      *)
(* there: a UDP or raw socket asks no one, and a TCP connection is made     *)
(* with the backlog of a listener nobody accepts from, or another service.  *)
HandleForwardConn ==
  /\ conn.st = "dial"
  /\ \/ conn' = Socks5Reply([conn EXCEPT !.st = "relay", !.tun = "open"], TRUE)
     \/ conn' = Socks5Reply([conn EXCEPT !.st = "closed"], FALSE)
  /\ UNCHANGED <<server, cconf, cli, tests, exit, port>>

(* DialAndRelay returns, and the deferred Closes run. *)
RelayEnds ==
  /\ conn.st = "relay" /\ conn' = [conn EXCEPT !.st = "closed", !.tun = "closed"]
  /\ UNCHANGED <<server, cconf, cli, tests, exit, port>>

ClientNext ==
  \/ FetchManifest \/ BlindEntries \/ SelectTests \/ TestNext \/ SpeedNext \/ Report
  \/ ForwardDialPort \/ ForwardListen \/ AcceptLocal \/ Socks5Target \/ HandleForwardConn \/ RelayEnds

(* The suite by itself, with any configurations; CommandLine runs it with  *)
(* those that command lines stand for.                                     *)
ServerConf == [requested : SUBSET Texts, control : Nat]
TestConf == [mode : {"test"}, requested : SUBSET Texts, blind : BOOLEAN, only : BOOLEAN,
             throughput : SUBSET Texts, base : Nat, control : Nat]
ForwardConf == [mode : STRING, missing : BOOLEAN, protocol : Texts, base : Nat, control : Nat]

SuiteStep ==
  \/ ServerNext(ServerConf) \/ UsageError \/ ClientNext
  \/ \E conf \in TestConf : ClientStart(conf)
  \/ \E conf \in ForwardConf : ForwardStart(conf)

SuiteSpec == SuiteInit /\ [][SuiteStep]_suite

-----------------------------------------------------------------------------
(* Properties. *)

(* A server that returns, whatever listener failed before, has closed every *)
(* listener; and its control port is never refused because of one of its    *)
(* own listeners, which is what the check before the start is for.          *)
NothingLeftOpen ==
  /\ srv \in {"stopped", "failed"} => open = {} /\ ~ctl
  /\ srv = "listening" => ~ControlClash

NamesOf(rs) == {rs[i][1] : i \in DOMAIN rs}
InOrder(rs) ==
  \A i, j \in DOMAIN rs : i < j => rs[i][1] # rs[j][1] /\ PortOffset[rs[i][1]] <= PortOffset[rs[j][1]]

Offered(n) == n \in DOMAIN entries /\ entries[n]

(* A server that answers tests of n is offered. *)
Answering(n) == IF n \in RawIP THEN \E m \in DOMAIN entries : Wire(m) = Wire(n) /\ Offered(m) ELSE Offered(n)

(* The exit code tells the truth about a run: 0 only with a report and no   *)
(* failed test of either kind, 1 with a report only if one failed.  Every   *)
(* protocol asked for is in the report once, in registry order; it is ok    *)
(* only if this server offers it at the port the client looks at (a raw one *)
(* has no port, and 6to4 may be answered by sit), a client that is not      *)
(* blind finds ok only what the manifest names, and what the server could   *)
(* not offer counts as a failure only to a blind one.                       *)
VerdictHonest ==
  /\ exit = "0" => written /\ ~Failed(results) /\ ~Failed(speeds)
  /\ exit = "1" /\ written => Failed(results) \/ Failed(speeds)
  /\ written =>
       /\ NamesOf(results) = IF cconf.only THEN {} ELSE ClientSelect(cconf.requested)
       /\ NamesOf(speeds) = Wanted(cconf.throughput)
  /\ InOrder(results) /\ InOrder(speeds)
  /\ \A r \in ToSet(results) \cup ToSet(speeds) :
       /\ r[2] = "ok" => Answering(r[1]) /\ (r[1] \in RawIP \/ cconf.base = ServerBase)
       /\ r[2] = "ok" => Offered(r[1]) \/ cconf.blind
       /\ r[2] = "failed" => Offered(r[1]) \/ cconf.blind

(* A forwarding client that was given a control port dials the port the     *)
(* server listens on, whatever its own base port, and only a protocol the   *)
(* server offers.  A SOCKS client that asked for a target is told once, and *)
(* "succeeded" exactly if a tunnel was dialed; that somebody serves the     *)
(* tunnel or reached the target it is not told.  No tunnel outlives its     *)
(* local connection.                                                        *)
ForwardHonest ==
  /\ cli = "forwarding" /\ cconf.control # 0 =>
       port = ServerBase + PortOffset[Tunnel] /\ Offered(Tunnel)
  /\ conn.st = "closed" => conn.tun # "open" /\ Len(conn.replies) = (IF conn.asked THEN 1 ELSE 0)
  /\ conn.replies = <<TRUE>> => conn.tun # "none"
  /\ conn.replies = <<FALSE>> => conn.tun = "none"
=============================================================================
