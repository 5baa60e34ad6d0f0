# Tunneling-Suite in TLA+

Specifications of Tunneling-Suite (the Go program in `src/`): models that TLC
checks on small instances, and theorems that TLAPS proves for every value of
their constants. Definitions keep
the names of the source; `PROJECT.json` maps each to its lines.

## The system

Tunneling-Suite measures about forty tunnel protocols, and with `--forward`
carries real TCP connections through them. A server listens with every
protocol at `base port + offset` and offers a manifest on a TCP control port.
A client fetches the manifest, and for each protocol dials a tunnel, sends
test frames, gets them echoed and reports. A tunnel (`protocol.Tunnel`) has
`WriteFrame`, `ReadFrame`, `SetReadDeadline` and `Close`; a protocol has
`Listen`, giving a server with `Accept`, and `Dial`.

| Component | State | Operations | Hard behaviour | What makes it correct |
|---|---|---|---|---|
| UDP dispatcher (`udpdispatch.go`; udp, vxlan, vxlan-gpe, geneve, gue, ipsec, l2tp) | table address -> session, one channel per session, `newSessions`, `done` | `dispatchLoop`, `Accept`, `Close`, session `ReadFrame`/`Close` | deletion by address, full channels, idle timer, shutdown in any state | a late `Close` evicts nobody else's session; order kept; all sessions reaped; shutdown ends every goroutine |
| Server sessions (`EchoLoop`, `forward.Serve`, `relay`) | one or two goroutines per session | echo, dial, relay in both directions | the two goroutines end each other by closing things | both end, nothing leaks |
| Forwarding (`forward.go`, `client/forward.go`) | client relay, tunnel, server relay, two TCP connections | `DialAndRelay`, `Serve`, `serveForward`, `relay` | half-finished closes, resets, back-pressure without deadlines, lost datagrams, sessions made again | bytes arrive in order; closing either end unwinds both sides unless an end does not read |
| Latency and loss (`benchmark.Run`) | phase, counters, samples, budget | send, wait for the pong of this number, skip stale ones | late and duplicated pongs, budget, broken tunnels | samples belong to their probes; loss is not made up; the run ends |
| Throughput (`RunThroughput`) | writer, reader goroutine, one shared deadline | warm-up, blast, drain | the deadline the reader sets also hits the writer; emulated deadlines close the tunnel | the blast lasts its time; a normal end is no failure; it returns |
| Raw protocols (`rawip.go`, gre, ipip, sit, 6to4, icmp; `icmp6.go`) | ids in use, sessions, socket buffers | dispatcher, `Accept`, echo, reap, client filter | sockets without ports: everybody on the host hears everything | no echo is taken for a client; the id filter is exact |
| Stream protocols (smtp, noise, shadowtls, trojan, anytls, naive, http, https, ws, wss, http3, quic, hysteria2, tcp, tls, kcp, shadowsocks) | pending handshakes, a channel to `Accept`, deadlines | `Dial`, `acceptLoop`, `handleConn`, `Accept`, `Close` | silent clients, wrong keys, other services on the port, `Close` during hand-over | nobody without the key is echoed; one client does not block others; handshakes, dials and abandoned connections end |
| WireGuard, AmneziaWG (`wireguard.go`, `amneziawg.go`) | a device and its peers, sockets, key exchanges | `Listen`, `acceptClient`, `Dial`, `Close` | steps that fail half-way, deletions that fail, two clients at once | nothing is left behind but what could not be deleted; one dynamic peer beside the well-known one; the newest client is served |
| TAP (`tap.go`) | device, last client address, relays | `Listen`, `Dial`, the relays | last one wins; relays that return | answers reach the client that is alone |
| Server (`server.go`), registry | listeners, entries, control listener, accept loops | start, manifest, signal, shutdown | partial start, ports that clash, listeners that die | what it opened it closes; the ports it checks are the ports it opens |
| Client (`main.go`, `client.go`, `client/forward.go`) | manifest, results, local connections | fetch, select, test, report; port, listen, SOCKS5, dial | some protocols fail, others must go on | the exit code and the report are true; the right port is dialed; one reply per SOCKS request |
| Command line (`main.go`) | argument list | two rewritings, pflag | values that look like flags | the rewriting keeps the meaning |
| systemd (`install.go`), completion (`completion.go`) | units, systemd's state; rc file | install, uninstall; install and remove the block | any step fails or is interrupted | no service without its unit; the user's text stays |
| Framings, reports, static keys | - | length prefixes, tables | 16-bit lengths | see "Not modelled" |

Components meet in three ways: the dispatcher hands tunnels to `acceptLoop`,
which starts a goroutine for each (channel); the goroutines of a relay share a
tunnel and a connection and communicate only by closing them (shared state);
client and server share nothing but frames, which datagram tunnels lose, delay
and reorder (messages). `PROJECT.json` lists the hazards at their lines.

## The modules

| Module | Models | Lines it rests on |
|---|---|---|
| `PeerService` | the abstract promise of a datagram server: at most one session per client at a time, datagrams handled in arrival order, each at most once | comments of `udpdispatch.go` |
| `UDPDispatch` | dispatcher, accept loop, sessions with `EchoLoop` or `forward.Serve` and `relay`, the server's shutdown | `protocol/udpdispatch.go`, `server/server.go`, `forward/forward.go`, `protocol/l2tp.go` |
| `Forward` | one TCP connection through a tunnel: client relay, tunnel, server sessions, both ends | `forward/forward.go`, `client/forward.go` |
| `Probe` | `benchmark.Run` and `readSeq` | `benchmark/benchmark.go` |
| `Throughput` | `benchmark.RunThroughput` | `benchmark/benchmark.go`, `protocol/naive.go` |
| `RawDispatch` | raw sockets of one host or two: servers, clients, ids | `protocol/rawip.go`, `icmp.go`, `icmp6.go` |
| `StreamServers` | seventeen stream protocols from `Dial` to the first echo, as two scripts each, run by common actions | `protocol/smtp.go`, `noise.go`, `shadowtls.go`, `trojan.go`, `anytls.go`, `http.go`, `ws.go`, `naive.go`, `h3.go`, `quic.go`, `hysteria2.go`, `kcp.go`, `shadowsocks.go`, `tcp.go`, `tls.go` |
| `NetDevices` | devices: `Listen` and `Dial` step by step, key exchanges, peers, the TAP relay | `protocol/wireguard.go`, `amneziawg.go`, `tap.go` |
| `Suite` | server and client from a parsed command line to the exit code; forwarding client and SOCKS5 | `server/server.go`, `client/client.go`, `client/forward.go`, `cmd/tunnel-suite/main.go`, `protocol/registry.go` |
| `HostSetup` | systemd units, and the managed block of the rc file | `cmd/tunnel-suite/install.go`, `completion.go` |
| `CommandLine` | composes `Suite` and `HostSetup` under `main`, and rewrites and parses the arguments | `cmd/tunnel-suite/main.go` |
| `MC*` | the instances TLC checks | - |
| `*Proofs` | the theorems about the module they are named after (`CommandProofs`: `Suite`, `HostSetup` and `CommandLine`; `StreamProofs`: `StreamServers`; `NetProofs`: `NetDevices`) | - |

`CommandLine` EXTENDS `Suite` and `HostSetup`: their steps are the steps of the
commands. `Probe`, `Throughput` and `Forward` say what happens inside what
`Suite` takes as one step (a test, a relay); `StreamServers`, `NetDevices`,
`UDPDispatch` and `RawDispatch` what happens inside one of its listeners.

How state and actions correspond to the code:

* **UDPDispatch.** `sessions`, `in`, `newq` are the map and channels of the
  same names. `dispatchLoop` is a process with a program counter `dpc` whose
  steps are the code between two points where other goroutines can intervene:
  the socket read, the locked look-up, the locked insert, the send to
  `newSessions`, the send to the session. `hs[s]` and `up[s]` are the program
  counters of the goroutine that owns session `s` and of the relay's second
  goroutine. A relay in `write` is inside `c.Write` to its target, which has no
  deadline: the goroutine stays there for as long as the target does not read
  and does not close. `select` with several ready cases is a choice. The idle timer may
  fire whenever a reader waits on an empty channel.
* **Forward.** One client connection. `kind` is the tunnel's kind, chosen once.
  A stream's `Close` is seen by the peer after what was sent before, but closing
  with unread bytes resets the connection and may cost the peer bytes in flight;
  writing to a closed stream may fail or be swallowed. A datagram session's
  `Close` only forgets the session. The model has TCP's close; KCP, whose close
  sends nothing, and the half-closes of QUIC and HTTP/3 streams are not modelled.
  The idle timer is abstracted: it may fire whenever no datagram waits.
  No call of the relay has a deadline. `cm` and `hs[s]` in `write` wait inside
  `c.Write` until the local end has taken the bytes or has closed (an end that
  never reads keeps them there), `su[s]` in `send` and a client that reads on
  wait in `WriteFrame` until a stream has room: `Window` is its capacity in
  frames, all buffers on the way together. Socket buffers of the two ends are
  part of "has taken", since a full buffer is what makes the call wait. Calls on
  datagram sockets may fail at any time (a refused port), which ends the relay.
  The ends close; an end that only shuts its sending side down is taken as closed.
* **Probe.** Frames are (phase, number, ping or pong), for the two phases use
  disjoint sequence spaces. The whole budget is one bit, since every read waits
  for what is left of it. Samples keep the probe and the pong they were taken from.
  `oversize` are the phases whose frames `EncodeFrame` or the tunnel refuses.
* **Throughput.** Time is in ticks, because the properties are about which
  deadline applies when. A goroutine notices an expired deadline before the
  next tick. `kind` picks what `SetReadDeadline` does: reads and writes
  (streams, connected datagrams), reads only (raw sockets), closing the tunnel
  (naive). The drain of the server's echo is `EchoBlast`. `Surplus` brings what
  was not sent: a doubled datagram or, on a raw socket, an echo for another client
  of the host (`extra` counts both). `kind.fits` is false for a frame that
  `EncodeFrame` refuses.
* **RawDispatch.** Each socket has a buffer; a packet goes to all sockets of its
  destination host. Ids are drawn from `Ids`; `Collide` says whether a server may
  draw a client's id. A packet's way through `dispatchLoop` is one step: there
  is one dispatcher, and a reap between look-up and delivery loses the frame
  as the network may. `hops` counts echoes, to state that nothing is echoed twice.
* **StreamServers.** A protocol is a pair of scripts: what `Dial` and what the
  server's handler send, receive and check, where deadlines are armed and
  cleared, and where the tunnel goes to `Accept`. The actions interpret them:
  `AcceptConn`, `ServerRecv`, `ServerSend`, `HandOver` and so on are those of all
  servers, and a protocol that handshakes inside `Accept` differs by one step
  (`Enter`). Each client has the right key, a wrong one, or is of another make
  and may stop anywhere; `squat` is another service on the port. A peer's end
  is seen after what it sent. A client's end of the connection is `closed`, `ended`
  (Close of the tunnel ends its stream, and the HTTP/2 or QUIC connection below
  stays: naive, http3, quic), or `leaked` (a dial that failed and closed nothing);
  the server's is `idle` while only such a connection is left. A QUIC connection
  on which nothing moves ends by its idle timeout, unless its client keeps it alive
  (`KeepsAlive`: clients of another make, other services on the port, and the
  client of a hysteria2 dial given up). One simplification: the session below
  an anytls tunnel is closed with it, where the code's client keeps it for up to
  its idle timer of 30 s. All deadlines are ten seconds, so they fire in
  the order they were armed (`timers`); on a network that is not `slow` only
  when nothing else can move.
* **NetDevices.** `Listen` and `Dial` are sequences of steps, each with what it
  acquires and what the code undoes when it fails (`WGListen`, `TapDial`, ...).
  `AcceptClient` is `acceptClient` whole, under `peerMu`, also one that is under
  way when the server closes; a "garbled" client sends hexadecimal that is no key.
  `ip link del` may fail wherever it is called, and then the interface of
  WireGuard stays (`stuck` remembers at whom); TUNs, TAPs and sockets go with
  their descriptors. A relay goroutine of a TAP may return at any time (`halted`),
  as it does at its first error. Datagrams are named by
  the client that sent them; the server's echo is an answer that leaves by the
  route the device has at that moment.
* **Suite.** `srv` and `cli` are the places in `Run` of `server.go` and in the
  client's `RunE`. A test has the outcomes its code can produce: "skipped" for a
  failed dial, "failed" where a tunnel came up and no echo came, "ok" only if
  something answers where the client looks (`Served`): for a raw protocol (gre,
  ipip, sit, 6to4, icmp, icmpv6), which has no port, any server of the same IP
  protocol, 6to4's being sit's; for the others an accept loop at that port. That
  nobody but this server speaks the suite's protocols on its host is assumed.
  The dial of a forwarded connection may succeed with nobody there, for that is
  what `Dial` does over UDP, raw sockets and a listener's backlog. Ports are relative to
  10000; the server's base is 10. The protocols still to listen or to be tested
  are sets, of which `First` takes the next in the registry's order. `SuiteSpec`
  runs the two roles with any configurations, `CommandLine` with those that
  argument lists stand for.
* **HostSetup.** `stage` is the next step of the command under way, `queue` the
  units it has still to remove. `systemctl` may fail having done half. A unit's
  text is reduced to whether it mentions tunnel-suite, which is what uninstall
  looks for. The rc file is a sequence of lines, newlines and the three parts of
  the block; an interrupted write keeps a part of the new file, cut at one of these. `LinesOf` are the
  user's lines in a file, `UserLines` those outside the block.
* **CommandLine.** An argument has its dashes, a name, and a value that is itself
  a list of arguments joined by commas. `Expand`, `NormalizeSingleDash` and `Parse`
  are `expandThroughputOnlyList`, `normalizeSingleDash` and pflag; `Meaning` is
  the reference they are compared with, a set of outcomes: any error where there
  is one, and any outcome after a value that reads `-throughput-only` itself, which
  the code rewrites (see below). All four are recursive functions, so that they can
  be reasoned about. What may be written in an argument is the constant `Texts`.

### Runs

| Run | Question | Bounds |
|---|---|---|
| `udp_echo` | Does the dispatcher serve two clients in order (refining `PeerService`), keep only served sessions, reap them, and unwind at shutdown? | 2 clients, 3 datagrams, channels of 1 |
| `udp_forward` | The same server with `--forward`: a relay torn down from either side unwinds unless its target stays open without reading | 1 client, 3 datagrams of every kind |
| `udp_forward_leak` | *violated*: stray sessions idle out | as above |
| `forward` | Bytes in order over streams, no foreign or doubled byte over datagrams, complete downloads, teardown from either end, failed dials over streams, with ends that may not read | streams: 3 chunks each way, a tunnel of 1 frame; datagrams: 2 chunks each way, 2 sessions |
| `probe` | Honest round trips, honest loss, streams, budget | 2 probes per phase |
| `throughput` | Counts, end of the blast, termination, for four kinds of tunnels | warm-up 2, blast 2, grace 1 ticks; 3 frames and 2 surplus ones |
| `raw_pair` | Two servers on the client's host: no echo storm, exact id filter | 2 servers, 1 client, 2 probes, 3 ids |
| `raw_icmp` | One icmp server whose kernel answers too, two clients: each probe is answered once | 1 server, 2 clients, 1 probe each, 4 ids |
| `streams` | Nobody without the key is echoed; an up tunnel was accepted; a client with the key is served whatever the other does (not in http, https, quic); the handshakes that the code bounds, the dials, and what our clients leave behind end | 17 protocols, an honest client and one of any kind, channel of 1 |
| `streams_dial_bounded` | `DialBounded`, *violated* by naive: every dial is bounded | naive, https, wss |
| `devices` | Nothing is left when any step of `Listen` or `Dial` fails but what `ip link del` would not delete; one dynamic peer; a client alone at it is answered, whoever came before, unless a refused exchange took its peer away | 3 kinds, 2 clients keyed, blind or garbled, 2 answers in flight |
| `commands` | The rewriting keeps the meaning; nothing stays open; report, exit code, ports and SOCKS replies are true; units and rc file survive failures and interrupts | arguments: up to 4 of 12; 4 protocols; server control ports: the base port, a port of a listener, and for wireguard alone a free one; client control ports: the base port or the server's; 2 units, 3 commands; rc file of up to 10 parts |

Why the bounds are enough: channels of one slot are full after one frame, so
full and not full, blocked and not blocked all occur (`newSessions` blocks the
dispatcher only in `udp_echo`: with the one client of `udp_forward` at most one
session waits for `Accept`); three datagrams make a
session, end it, and make its successor while the first still has something to
do; two probes per phase let a late pong of either phase meet the next probe,
and of the latency phase the loss phase; a tunnel of one frame is full after one, and
three chunks each way fill both directions and both ends' hands, which is how a
relay can be held from either side; two surplus datagrams let one arrive in the
warm-up and one in the blast; two ids beyond the clients' let a server
draw an id again after a reap. `MaxDgrams`, `MaxUp`, `MaxDown`, `MaxGrams`, `MaxSess`,
`Pings`, `MaxSent`, `MaxExtra`, `MaxPings` and `MaxHops` are the bounds of behaviours;
`MaxHops` is 2, one more than the property allows. In `streams` one other client
is enough to fill a channel of one, to hold `Accept` or to be refused, and every
behaviour takes one protocol, so that all seventeen are checked. In `devices`
two clients are the previous and the new one of a key exchange; a third would
only repeat it. In `commands` four arguments hold a flag, its value, another
flag and its value, in every order, with the values that look like flags;
wireguard is the protocol with two ports and an alias, sit and 6to4 have no port
and answer for each other, tcp is at the port the control listener wants; with
two units one fails while the other does not;
three commands are an interrupted one, one that repairs and one that removes.
`MaxArgs`, `MaxCommands` and `MaxRc` bound behaviours too. Deadlock checking is
off since all of these programs may end.

The type invariant is checked in `udp_echo`; elsewhere `TypeOK` documents the
variables (and is proved for `UDPDispatch`, `Probe` and `Forward`): a wrong type there would
break the properties, whose runs cost the same.

### The disagreements

Two are runs:

* *Sessions that never end* (`udp_forward_leak`). With `--forward`, `Serve` returns
  without closing the tunnel when its first read times out. A stray datagram
  thus leaves a table entry nobody reads, and later datagrams from that address
  are dropped, though the comment says that stray sessions idle out.
* *A dial without a bound* (`streams_dial_bounded`). A naive client clears its
  deadline after TLS and waits for the answer to its CONNECT without any, so a
  TLS service that never answers holds `Dial`, and the benchmark, for ever. (An
  http3 client waits for its answer in the same way; the run takes naive.)

Others are stated as definitions that no run claims, since they fail:

* *Downloads cut by the idle timer* (`IdleMeansNoTraffic` of `UDPDispatch`). The timer
  of a server session sees only frames from the client; a relay that sends for
  a minute without hearing any is ended. The comment speaks of "no traffic".
* *A relay that no close ends* (`CloseTearsDown` of `Forward`). `c.Write` to the target has no
  deadline, and only the goroutine inside it closes the target's connection: a
  target that stays open without reading holds that goroutine and, for streams,
  by back-pressure also the client's, though the application closed long ago. The
  comment at `relay` says it tears both down when either side closes. The same holds
  at the client for an application that does not read. So the properties
  of teardown that are checked except what such an end holds, and no fairness
  makes an end read.
* *Failed dials over datagrams* (`DialFailureDrops` of `Forward`). Closing the
  tunnel tells the client nothing, so the local connection stays open,
  contrary to the comment in `serveForward`.
* *One lost latency probe* (`MissedProbeCounted` of `Probe`). `readSeq` gets the
  whole remaining budget, so the first lost datagram uses it up: no loss
  probes are sent and the result is OK with 0 % loss.
* *A lost warm-up* (`WarmLossNotFatal` of `Throughput`). The warm-up's deadline has
  expired when the blast begins; if the writer is faster than the reader
  goroutine, which sets the new one, its first write fails and the blast ends
  with nothing sent, status OK.

The models also show, or modelling showed:

* A datagram session made again in the middle of a connection echoes the
  application its own bytes (`Forward`, `ServePeek`); a raw client counts answers
  meant for other clients of its host, and two answers where sit and 6to4
  servers share a host (`RawDispatch`); a warm-up echo later than its five
  seconds is counted by the blast (`Throughput`), hence the proviso of `CountsMatch`.
* A doubled datagram, or an echo for another raw client of the host, counts as received:
  over datagrams the echoes may outnumber the frames, and the loss that
  `RunThroughput` reports is then below zero (`CountsMatch` bounds the surplus).
* anytls has no deadline on the server's handshake, ws, wss and naive none before
  `Close`, and http3, quic and hysteria2 none but the idle timeout of QUIC, which a
  client that keeps its connection alive never meets (`Bounded` lists them); quic
  waits for a stream inside `Accept`, and http and https handshake there. A refused
  naive dial and the `Close` of a naive tunnel leave the HTTP/2 connection, a
  failed http3 dial its QUIC connection until that idles out, a hysteria2 dial
  that succeeds after its timeout a client. A tunnel that was queued for
  `Accept` when the server closed is closed by nobody (`GhostsEnd` excepts it).
* A key exchange that is refused after the previous peer was removed (a key that
  is none, a `wg set` that fails) leaves the client that had the tunnel without
  a peer: it gets no answer until it dials anew (`Displaced`). A relay goroutine of
  a TAP that met any error never runs again, and the tunnel is not told.
* An interface that `ip link del` would not delete stays, with a warning at most.
* WireGuard's inner echo server outlives a control listener that fails
  (`NothingLeft` allows both); a signal before `signal.Notify` leaves the kernel's
  interface (`killed` in `Suite`).
* Any error ends the accept loop of a protocol, and the manifest goes on offering it: a
  test of it fails, but a SOCKS client is told "succeeded" as soon as `Dial`
  returns, which for TCP the backlog grants and for UDP and raw sockets needs nobody.
  `ForwardHonest` therefore says only that the reply is that of the dial.
* A blind client finds 6to4 "ok" where the server runs sit only, and the other way round.
* A SOCKS request that is no CONNECT is closed without a reply, and a silent
  application is waited for without a deadline.
* A run in which everything is skipped, such as a blind one against a host
  without a server, exits 0; so does `--throughput-only` without any list.
* A password `-throughput-only` is rewritten, which the comment at
  `normalizeSingleDash` means to exclude (`Meaning` excepts it); and the comment at `flagShape` takes
  `throughput-only` for a flag with `NoOptDefVal`, which it is not.
* `install` over a unit that runs does not restart it, so the old command line
  stays in effect; `install --name X` and `install --uninstall --name X` touch a
  unit X of anybody; `uninstall` finds every unit that mentions tunnel-suite.
* A completion block that lost its end marker reaches to the end of the file, and
  what the user wrote after it goes with it; removing the block takes the last
  newline of the file away.
* A comment in `statickeys.go` ends the range of inner networks at offset 33; the
  registry goes to 37.

### Fairness

Only goroutines of the program, its timers and its clock are fair (weakly):
Go's scheduler runs every runnable goroutine, `ReadFrame` at the server ends by
a frame, `done` or the idle timer, `net.Dial` by its own timeout, reads of
closed connections at once. The network, clients, applications, targets, peers
and the operator owe nothing: frames need not arrive, nobody has to read or to
close (`AppTakes`, `TargetTakes` and `RelayWrite` are not fair). In
`Probe` and `Throughput` fairness is that of one sequential caller, its reader
goroutine, the clock and the tunnel's timer, so `Returns` and `BudgetBounds`
hold though the server may never answer. `kind` never changes and is left
out of the fairness subscripts.

In `StreamServers` the clients of this make, the server's goroutines, timers and
QUIC's idle timeout on a connection that nobody keeps alive are fair, by one condition on their union: a client dials
once and scripts are finite, so none of them can starve another. Clients of
another make owe nothing, nor does whoever closes the server. In `NetDevices`
only the relays, the device and a client that goes on pinging are fair, the
network delivering a datagram that is sent often enough; nobody has to dial,
exchanges may fail for ever, and relays may return (`NewestServed` assumes of the
client it speaks of that those on its way do not). `CommandLine` has no liveness property: its
programs do one thing after another, and each step is bounded by what
`Probe`, `Throughput` and `StreamServers` say of it.

## What is proved

| Theorem | Statement | From |
|---|---|---|
| `UDPDispatchProofs!TypeCorrect` | `Spec => []TypeOK` | the `ASSUME`s of `UDPDispatch` |
| `UDPDispatchProofs!OwnEntryAlways` | `Spec => []OwnEntry` | the same |
| `RawDispatchProofs!SessionsServeClients` | `Spec => []OnlyClients` | no server draws a client's id (`~Collide`) |
| `RawDispatchProofs!NoEchoStorm` | `Spec => []NoEchoOfEcho` | the same |
| `RawDispatchProofs!UsedAreLive` | `Spec => []UsedIsLive` | any ids |
| `ProbeProofs!TypeCorrect` | `Spec => []TypeOK` | any number of pings, both kinds |
| `ProbeProofs!RTTsAreHonest` | `Spec => []HonestRTT` | the same |
| `ProbeProofs!StreamsAnswered` | `Spec => []StreamOkMeansAnswered` | the same |
| `UDPDispatchProofs!TableAlwaysServed` | `Spec => []TableServed` | `~Forward` |
| `ThroughputProofs!CountsAlwaysMatch` | `Spec => []CountsMatch` | any lengths of warm-up, blast and grace, any bounds on frames and surplus, all four kinds of tunnels |
| `ThroughputProofs!FailuresAreReal` | `Spec => []NoFalseFailure` | the same |
| `ThroughputProofs!BlastsAreFull` | `Spec => []BlastsToDeadline` | the same |
| `NetProofs!PeersKept` | `Spec => []OneDynamicPeer` | `NameAssumption`: no client has the name of the well-known peer, of the server or of nobody |
| `NetProofs!CleanFailure` | `Spec => []NothingLeft` | the same; any clients, any step and any `ip link del` may fail |
| `CommandProofs!ServicesHaveUnits` | `SetupSpec => []NoServiceWithoutUnit` | any finite set of units, any number of commands |
| `CommandProofs!UninstallIsThorough` | `SetupSpec => []UninstallThorough` | the same |
| `CommandProofs!ServerLeavesNothing` | `SuiteSpec => []NothingLeftOpen` | any part of the registry, any configurations of both roles |
| `CommandProofs!VerdictIsHonest` | `SuiteSpec => []VerdictHonest` | the same |
| `CommandProofs!ForwardingIsHonest` | `SuiteSpec => []ForwardHonest` | the same |
| `UDPDispatchProofs!DispatcherServesPeers` | `Spec => ServesPeers` (refinement of `PeerService`) | `~Forward` |
| `ForwardProofs!ForwardTypes` | `Spec => []TypeOK` | any numbers of chunks and sessions, any window, both kinds of tunnels |
| `ForwardProofs!RelayedInOrder` | `Spec => []InOrder` | the same |
| `ForwardProofs!DeliveredOnce` | `Spec => []TargetBytes` | the same |
| `ProbeProofs!LossIsHonest` | `Spec => []NoMisreportedLoss` | any number of pings, both kinds |
| `StreamProofs!IntrudersAreRefused` | `Spec => []NoIntruder` | any clients, `Protocols \subseteq StreamProtocols`, any capacity |
| `StreamProofs!TunnelsAreAccepted` | `Spec => []UpMeansAccepted` | the same |
| `CommandProofs!MeaningIsKept` | `Spec => []MeaningKept` of `CommandLine` | `CommandAssumption`: argument lists of any length, over any `Texts` |
| `CommandProofs!UserTextIsKept` | `SetupSpec => UserTextKept` | rc files of any length, any number of commands |
| `CommandProofs!CommandsAreParts` | `Spec => SuiteSpec /\ SetupSpec` | the assumptions of the three modules |
| `CommandProofs!CommandsAreSafe` | `Spec =>` all the properties of `SuiteSpec` and `SetupSpec` above | the same |
| `RawDispatchProofs!ProbesAnsweredOnce` | `Spec => []AnsweredOnce` | one server, `~Collide`, any clients, ids and pings |

The arguments:

* **OwnEntry.** `removeSession` deletes by address. That is right only if the
  session that still owes a `Close` is the one its address maps to. To be
  inductive this needs: the dispatcher looks up and inserts alone, and inserts
  only where the table was empty (`HandOK`); sessions not yet created are
  untouched (`UnbornOK`); a session is queued for `Accept` at most once
  (`QueueOK`); the second goroutine of a relay exists only beside a first that
  runs or has returned (`PairOK`), and the first never closes then; the table
  maps an address to a session created for it (`TableOK`).
* **No echo storm.** Everything in flight falls in two classes (`Wire`): packets
  with a client's id hold a ping nobody echoed, all others a pong echoed once.
  A session is opened only by a ping, hence under a client's id, and takes only
  packets of that id, hence only fresh frames (`Serving`); so its echoes are
  echoed once. Without `~Collide`, a one in 65536 chance per session that the
  code accepts, a packet's id would not tell its class.
* **UsedIsLive.** `End` removes the id from the used set: right because two live
  tunnels never share an id, which `FreshId` ensures.
* **HonestRTT.** Samples are of latency probes with strictly growing numbers,
  all before the probe in hand (`SamplesOK`); `Matches` makes the pong that of the
  probe. Types need where the loop stands against the counters (`LoopOK`).
* **TableServed.** Without `--forward` a goroutine returns only by `CloseTunnel`
  (`EchoOnly`), which empties the entry of its address; by `TableOK` no other
  entry leads to its session, and a new entry leads to an untouched one.
* **StreamOkMeansAnswered.** Until a stream fails, what is in flight is exactly
  the probe in hand or its pong, and nothing between two probes (`StreamOK`): so
  the pong read is never a stale one, and only a failure misses a probe.
* **Throughput.** The key is which deadline is set when (`PhaseOK`): the
  warm-up's until the reader, within the tick of the start, sets its own. Hence a
  tunnel that closed though nobody broke it was closed by an expired deadline,
  the warm-up's after its full time or the reader's after the blast's
  (`ClosedOK`), and a write that fails early has one of these causes. A frame is
  in flight, counted or lost, or one of the surplus, which a stream does not have
  (`FramesOK`); the warm-up's echo can still be under way during the blast only
  where its read ran out of time or returned one of the surplus (`WarmPending`),
  so that it is counted in the place of that. The surplus is the weak point of the numbers the code
  reports over datagrams, and the theorem says by how much at most.
* **OneDynamicPeer** is inductive with: before the server is up nobody has the
  address, and the remembered peer is a client or nobody (`PeerNames`); so the
  removal never takes the well-known peer. This is where `NameAssumption` is needed: a
  client that presents the published well-known key over TCP, which
  `acceptClient` does not refuse, is left out.
* **NothingLeft.** A server in `Listen` holds what its steps so far acquired
  (`ServerHeld`, `ClientHeld`); and the scripts are such that each step undoes all
  that the earlier ones acquired (`ListenUndoes`, `DialUndoes`), which is where a
  forgotten `Close` in any error path would show. What may stay is the interface,
  and only where deleting it was tried (`stuck`), which only WireGuard's steps do.
* **NoServiceWithoutUnit.** A file is deleted only after `disable --now` succeeded
  for its unit (`DeleteOK`), and nothing enables a unit between the two.
* **UninstallThorough.** Until the user agrees nothing changes. From then on every
  listed unit is in the queue, gone, or failed (`Cleared`), and no other was touched
  (`Untouched`); the queue is empty when the command ends (`RemovalOK`). That a
  set of units can be queued at all needs `Units` to be finite.
* **ServesPeers.** A datagram is numbered when it arrives; the abstract service
  of a client handles ever newer ones. The refinement holds because every channel
  is in arrival order, and the channel of the session that an address maps to
  holds only what is newer than all that was handled for that address
  (`OrderOK`). This is where `OwnEntry` pays: a session that reads is the one in the
  table (`ReaderIsCurrent`), so a predecessor cannot handle something late. The
  insert maps to `Open`, a `Close` to `End`, a frame taken from a channel to `Handle`,
  every other step to none.
* **InOrder.** For each direction of a stream, what the receiver has and what is on
  the way to it are together a run of chunks without gap (`UpOK`, `DownOK`); a
  close or a reset only cuts the end off. The server's first frame is the dial,
  and until it is read no target exists (`SessionOK`).
* **TargetBytes.** Over datagrams order is lost and sessions are made again; it
  stays true that a chunk is once on its way or once delivered, to one session
  (`OnceOK`), since each is sent once and taking a frame removes it.
* **NoMisreportedLoss.** A probe is owed while it is in hand (`LossOK`). A read fails
  without a broken tunnel only when it has waited for the rest of the budget, and
  then the loop ends: so one probe at most is reported lost, however many frames
  are. This is stronger than what the run used to claim, that the report shows no
  more losses than there were.
* **NothingLeftOpen, VerdictHonest.** A listener is open only if its entry is
  offered, and `CloseNext` runs until none is (`ServerOK`). What the client has
  tested and what it has still to test are together what it was asked for, the
  former before the latter in the registry's order (`Going`, `Covered`); an outcome
  said truly of an entry stays true as the server opens more of them. For raw
  protocols the entry is that of any server on the same IP protocol
  (`Answering`), and 6to4 may be said ok by sit.
* **ForwardHonest.** The state of the local connection fixes whether the tunnel is
  open and which replies were sent (`TunnelOK`), for SOCKS and fixed targets. Nothing
  is assumed of who is behind the tunnel.
* **NoIntruder, UpMeansAccepted.** The argument is about the scripts first. For each
  keyed server, what comes before its first check hands no tunnel over (but in
  shadowsocks, which checks at its first read) and, with the reply of the check
  itself, says only a few words (`Guards`, `Refusals`). For each dial with an answer
  some step waits for a word that is none of these (`Stops`). The invariant (`Held`)
  is then that the server of a client that is barred, by its key or by another
  service on the port, has not passed a check, that only such words are under
  way to the client, and that its dial has not passed such a step. Nothing
  about deadlines, the queue or the other clients is needed, hence any of them.
* **AnsweredOnce.** A probe is in one stage at a time, and once in it: its ping waits in
  the server's buffer, or in the channel of one session, or its echoes are with
  the clients (`Lone`, `Stages`). Copies of pings that the kernel made are in no
  stage, since `clientOK` filters them, nor are the server's own echoes, which no
  session takes (`IInv`). With two servers on a host it is false, see above.
* **MeaningKept.** An argument list keeps its meaning if all shorter ones do
  (`KeptStep`): one case for each kind of first argument, which says what the two
  rewritings, the parser and `Meaning` do with it and its value, and leaves a shorter
  list. Where the rewriting goes wrong the reference allows everything
  (`BareOnly`), and what comes of it is still an option record (`ParseType`).
* **UserTextKept.** Of the rc file it is invariant that it is text of the user, then none
  to three parts of one block, then text again, with the lines apart (`RcOK`). So
  the first marker found is that of the block, the end of the block is its end
  marker or, if a write was cut off, that of the file (`BlockSplits`), and outside
  of it there are only the user's lines (`NoneOutside`). Joining texts at a newline
  joins their lines (`TextsJoin`), and trimming newlines takes none away
  (`TrimLeftIs`, `TrimRightIs`); an install, a removal, a file cut off at any part,
  and the user's own writing leave the file in this form.
* **CommandsAreParts.** The record that the parser leaves is in `Options`
  (`CommandOK`), so what `RunE` starts is a client with one of the
  configurations of `TestConf` or `ForwardConf`; the servers to meet are in
  `ServerConf` by assumption. The rest is a matching of steps.

What a recursive definition computes for every input takes induction, and the
library's induction theorems take an operator as a parameter, which no
installed prover instantiates. `CommandProofs` does without: a set of naturals that
is not empty has a least element (`Least`, from the well-foundedness of `<`), so
a *set* of sequences that holds each one all of whose shorter ones it holds is
the set of all (`ByLength`). From the same comes that a recursive function on
sequences, whose definition asks only for its values at shorter ones
(`Shortens`), satisfies its own definition (`Recursion`), once for each of `Expand`,
`NormalizeSingleDash`, `Parse`, `Meaning` and `LinesOf` (`ExpandDef` and so on).

`Suite`, `HostSetup` and `CommandLine` are checked together, by steps of
`CommandLine`; the theorems about `SuiteSpec` and `SetupSpec` are more general, for
their configurations are any, not only those of arguments, and
`CommandsAreSafe` brings them back to the specification that the run checks.

So every safety property that a passing run checks, the refinement of
`PeerService` among them, is also a theorem: `TableServed` and the refinement
without `--forward`, `OnlyClients`, `NoEchoOfEcho` and `AnsweredOnce` under the condition
on ids that their runs set. Only model-checked is liveness (`IdleReaped`,
`ShutdownUnwinds`, `RelayUnwinds`, `DownloadComplete`, `AppCloseUnwinds`,
`TargetCloseUnwinds`, `BudgetBounds`, `Returns`, `HonestServed`, `HandshakesEnd`,
`DialReturns`, `GhostsEnd`, `NewestServed`), which is beyond the prover.

## Not modelled, and the plan

Left out for good: header layouts, checksums and cryptography (libraries and
pure functions whose effect on a session is to accept or reject), the record
layers of established tunnels, half-closes of the local connection, a client of
WireGuard that presents the well-known key, other servers of the suite on the
same host, `ComputeRTT` and the tables of the reports (floats
and layout), help texts, the choice of the shell.

What could come next, in this order:

1. The 16-bit lengths of the stream, noise, shadowtls and naive framings as
   operators, against a reference over scaled widths: a frame of `MaxFrame`
   (65536) bytes is announced as empty.
2. `--forward` over raw and stream tunnels: `UDPDispatch` and `Forward` have the
   datagram dispatcher and one connection; shutdown of a raw server.
3. ICMPv6's own socket filter; completion requests (`prefixMatch`).
4. Proofs: what is proved of `Forward`, for the connections of 2; the framings of 1.
