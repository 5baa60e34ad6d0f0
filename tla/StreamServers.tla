--------------------------- MODULE StreamServers ---------------------------
(***************************************************************************)
(* The stream protocols: Dial on the client, and on the server Listen,     *)
(* acceptLoop or http.Server, handleConn, Accept and Close, up to the      *)
(* first frame the echo loop answers.  The protocols differ in what they   *)
(* say and in what they do where; each is two scripts, run by the same     *)
(* actions.  A behaviour takes one protocol, and for each client the right *)
(* key, a wrong one, or a client of another make that may stop anywhere.   *)
(*                                                                         *)
(* Every deadline is 10 s, so deadlines fire in the order they were armed. *)
(* On a quick network (slow = FALSE) 10 s only pass when nothing else can  *)
(* move.  Cap is the capacity of the channel of accepted tunnels: 8, and   *)
(* 16 for http3.                                                           *)
(***************************************************************************)
EXTENDS Naturals, Sequences, SequencesExt

CONSTANTS Clients, Honest, Protocols, Cap

StreamProtocols == {"smtp", "noise", "shadowtls", "trojan", "anytls", "http", "https", "ws", "wss",
                    "naive", "http3", "hysteria2", "quic", "tcp", "tls", "kcp", "shadowsocks"}

ASSUME StreamAssumption ==
  Honest \in Clients /\ Protocols \subseteq StreamProtocols /\ Cap \in Nat \ {0}

-----------------------------------------------------------------------------
(* Steps of a script.  A check looks at the peer's key: what follows a    *)
(* wrong one is to close in silence, to answer and close, to answer and   *)
(* wait for the next request, or to drop the datagram.                    *)
S(m) == <<"send", m>>
R(m) == <<"recv", m>>
Check(m, wrong, reply) == <<"check", m, wrong, reply>>
Await(m) == <<"await", m>>       \* m has arrived, and stays unread
Arm == <<"arm">>                 \* SetDeadline(now + timeout)
Clear == <<"clear">>             \* SetDeadline(zero)
Enter == <<"enter">>             \* the single goroutine inside Accept takes the connection
Hand == <<"hand">>               \* the tunnel goes to Accept's caller
Up == <<"up">>                   \* Dial returns the tunnel

(* A TLS handshake, the client's last flight taken as part of what it sends *)
(* next; over QUIC that flight is what lets the listener accept.            *)
TLSDial == <<S("hello"), R("server")>>
TLSServe == <<R("hello"), S("server")>>
QUICHello == TLSDial \o <<S("fin")>>
QUICAnswer == TLSServe \o <<R("fin")>>

(* EchoLoop on a tunnel, and the client's first ping with its deadline. *)
EchoLoop == <<R("frame"), S("frame")>>
FirstPing == <<Up, Arm, S("frame"), R("frame"), Clear>>

-----------------------------------------------------------------------------
(* The protocols. *)

(* Mutant of SMTPServer: Accept itself runs the handshake. *)
SMTPServerInline ==
  <<Enter, Arm, S("220"), R("EHLO"), S("caps"), R("STARTTLS"), S("220")>> \o TLSServe
    \o <<R("EHLO"), S("caps"), Check("AUTH", "close", "535"), S("235"), R("BINARY"), S("299"),
         Clear, Hand>>
SMTPServer ==
  <<Arm, S("220"), R("EHLO"), S("caps"), R("STARTTLS"), S("220")>> \o TLSServe
    \o <<R("EHLO"), S("caps"), Check("AUTH", "close", "535"), S("235"), R("BINARY"), S("299"),
         Clear, Hand>>
SMTPDial ==
  <<Arm, R("220"), S("EHLO"), R("caps"), S("STARTTLS"), R("220")>> \o TLSDial
    \o <<S("EHLO"), R("caps"), S("AUTH"), R("235"), S("BINARY"), R("299"), Clear>>

NoiseHandshake(initiator) ==
  IF initiator THEN <<S("msg1"), Check("msg2", "close", "nothing")>>
               ELSE <<Check("msg1", "close", "nothing"), S("msg2")>>
(* Mutant of NoiseServer: no deadline on the handshake. *)
NoiseServerUnbounded == NoiseHandshake(FALSE) \o <<Hand>>
NoiseServer == <<Arm>> \o NoiseHandshake(FALSE) \o <<Clear, Hand>>
NoiseDial == <<Arm>> \o NoiseHandshake(TRUE) \o <<Clear>>

ShadowTLSServer ==
  <<Arm, S("random")>> \o TLSServe
    \o <<Check("record", "close", "nothing"), S("record"), Clear, Hand>>
ShadowTLSDial ==
  <<Arm, Check("random", "close", "nothing")>> \o TLSDial
    \o <<S("record"), Check("record", "close", "nothing"), Clear>>

(* The first to know of a wrong password is the server, and it is silent. *)
(* Mutant of TrojanServer: the header is read and the hash not compared. *)
TrojanServerOpen == <<Arm>> \o TLSServe \o <<R("header"), Clear, Hand>>
TrojanServer == <<Arm>> \o TLSServe \o <<Check("header", "close", "nothing"), Clear, Hand>>
TrojanDial == <<Arm>> \o TLSDial \o <<S("header"), Clear>>

(* No deadline on the server at all; the session's stream is the tunnel. *)
AnyTLSServer == TLSServe \o <<Check("password", "close", "nothing"), R("address"), Hand>>
AnyTLSDial == <<Arm>> \o TLSDial \o <<Clear, S("password"), S("address")>>

(* Accept itself runs the handshake, one connection at a time. *)
HTTPServer == <<Enter, Arm, R("CONNECT"), S("200"), Clear, Hand>>
(* Mutant of HTTPDial: only the connect is bounded. *)
HTTPDialUnbounded == <<S("CONNECT"), R("200")>>
HTTPDial == <<Arm, S("CONNECT"), R("200"), Clear>>
HTTPSServer == <<Enter, Arm>> \o TLSServe \o <<R("CONNECT"), S("200"), Clear, Hand>>
HTTPSDial == <<Arm>> \o TLSDial \o <<Arm, S("CONNECT"), R("200"), Clear>>

(* An http.Server without timeouts; the dial's context bounds all of it. *)
WSServer(tls) == (IF tls THEN TLSServe ELSE << >>) \o <<R("upgrade"), S("101"), Hand>>
WSDial(tls) ==
  <<Arm>> \o (IF tls THEN TLSDial ELSE << >>) \o <<S("upgrade"), R("101"), Clear>>

(* A 407 leaves the HTTP/2 connection open on both ends; the dial's     *)
(* deadline covers connect and TLS, and RoundTrip has none.             *)
NaiveServer == TLSServe \o <<Check("CONNECT", "retry", "407"), S("200"), Hand>>
NaiveDial == <<Arm>> \o TLSDial \o <<Clear, S("CONNECT"), R("200")>>

H3Server == QUICAnswer \o <<R("CONNECT"), S("200"), Hand>>
(* Mutant of H3Dial: the response to CONNECT is not read. *)
H3DialHasty == <<Arm>> \o QUICHello \o <<Clear, S("CONNECT")>>
(* The context bounds the dial up to OpenRequestStream; ReadResponse has no *)
(* deadline.                                                               *)
H3Dial == <<Arm>> \o QUICHello \o <<Clear, S("CONNECT"), R("200")>>

(* The obfuscation key is made from the password too: a wrong one turns *)
(* every datagram to noise.  TCP hands the tunnel over, then answers.   *)
Hysteria2Server ==
  <<Check("hello", "drop", "nothing"), S("server"), R("fin"), Check("auth", "retry", "404"), S("233"),
    R("request"), Hand, S("ok")>>
Hysteria2Dial ==
  <<Arm>> \o QUICHello \o <<S("auth"), R("233"), Clear, S("request"), R("ok")>>

(* QUIC shows a stream to the peer with its first bytes, and AcceptStream *)
(* waits for them inside Accept with no deadline.                         *)
QUICServer == QUICAnswer \o <<Enter, Await("frame"), Hand>>
QUICDial == <<Arm>> \o QUICHello \o <<Clear>>

(* The listener's Accept returns at once: TLS and the cipher start with *)
(* the first Read, in the echo loop.                                    *)
TCPServer == <<Enter, Hand>>
TCPDial == << >>
TLSServer == <<Enter, Hand>> \o TLSServe
TLSClientDial == <<Arm>> \o TLSDial \o <<Clear>>
KCPServer == <<Await("frame"), Enter, Hand>>
KCPDial == << >>
ShadowsocksServer == <<Enter, Hand, Check("key", "close", "nothing")>>
ShadowsocksDial == <<S("key")>>   \* goes out with the first frame

Serve(p) ==
  CASE p = "smtp" -> SMTPServer           [] p = "noise" -> NoiseServer
    [] p = "shadowtls" -> ShadowTLSServer [] p = "trojan" -> TrojanServer
    [] p = "anytls" -> AnyTLSServer       [] p = "http" -> HTTPServer
    [] p = "https" -> HTTPSServer         [] p = "ws" -> WSServer(FALSE)
    [] p = "wss" -> WSServer(TRUE)        [] p = "naive" -> NaiveServer
    [] p = "http3" -> H3Server            [] p = "hysteria2" -> Hysteria2Server
    [] p = "quic" -> QUICServer           [] p = "tcp" -> TCPServer
    [] p = "tls" -> TLSServer             [] p = "kcp" -> KCPServer
    [] p = "shadowsocks" -> ShadowsocksServer
DialOf(p) ==
  CASE p = "smtp" -> SMTPDial             [] p = "noise" -> NoiseDial
    [] p = "shadowtls" -> ShadowTLSDial   [] p = "trojan" -> TrojanDial
    [] p = "anytls" -> AnyTLSDial         [] p = "http" -> HTTPDial
    [] p = "https" -> HTTPSDial           [] p = "ws" -> WSDial(FALSE)
    [] p = "wss" -> WSDial(TRUE)          [] p = "naive" -> NaiveDial
    [] p = "http3" -> H3Dial              [] p = "hysteria2" -> Hysteria2Dial
    [] p = "quic" -> QUICDial             [] p = "tcp" -> TCPDial
    [] p = "tls" -> TLSClientDial         [] p = "kcp" -> KCPDial
    [] p = "shadowsocks" -> ShadowsocksDial

OverQUIC == {"quic", "http3", "hysteria2"}
OverUDP == OverQUIC \cup {"kcp"}
HTTPServers == {"ws", "wss", "naive"}     \* Close ends the handshakes under way
StreamClosers == {"naive", "http3", "quic"} \* the tunnel's Close leaves the connection under it

-----------------------------------------------------------------------------
VARIABLES
  proto, who, squat, slow,  \* chosen at the start; squat: another service has the port
  cl, cpc, cend,            \* client: state of the dial, place in its script, its end of the
                            \* connection (ended: the tunnel's stream only; leaked: nobody closes it)
  sv, spc,                  \* server: state of the connection (idle: its tunnel is over), and script
  up, down,                 \* the connection's two directions
  listener, looping,        \* the server: open?, acceptLoop running?
  busy, queue,              \* connection inside a handshaking Accept; s.ch
  timers                    \* deadlines armed, oldest first

rigid == <<proto, who, squat, slow>>
server == <<listener, looping, busy, queue>>
state == <<cl, cpc, cend, sv, spc, up, down, server, timers>>
vars == <<rigid, state>>

None == "none"
Kinds == {"honest", "wrong", "silent", "absent"}
TypeOK ==
  /\ proto \in Protocols /\ who \in [Clients -> Kinds]
  /\ squat \in {"none", "mute", "tls"} /\ slow \in BOOLEAN
  /\ cl \in [Clients -> {"idle", "dialing", "up", "echoed", "failed", "lost"}]
  /\ cend \in [Clients -> {"none", "open", "closed", "ended", "leaked"}]
  /\ sv \in [Clients -> {"none", "backlog", "handshake", "queued", "serving", "idle", "closed"}]
  /\ busy \in Clients \cup {None} /\ listener \in {"open", "closed"} /\ looping \in BOOLEAN
  /\ Len(queue) <= Cap /\ \A i \in DOMAIN queue : sv[queue[i]] \in {"queued", "closed"}
  /\ \A i \in DOMAIN timers : timers[i] \in Clients \X {"client", "server"}

ClientScripts == [p \in Protocols |-> DialOf(p) \o FirstPing]
ServerScripts == [p \in Protocols |-> Serve(p) \o EchoLoop]
ClientScript == ClientScripts[proto]
ServerScript == CASE squat = "none" -> ServerScripts[proto]
                  [] squat = "tls"  -> TLSServe
                  [] squat = "mute" -> << >>
StepAt(script, pc) == IF pc <= Len(script) THEN script[pc] ELSE <<"end">>
CStep(c) == StepAt(ClientScript, cpc[c])
SStep(c) == StepAt(ServerScript, spc[c])
Reading(step) == step[1] \in {"recv", "check", "await"}

(* Deadlines that fire early, another service on the port and the server's *)
(* Close are met by a client alone, the company of others by an honest one. *)
Alone == \A c \in Clients \ {Honest} : who[c] = "absent"

Init ==
  /\ proto \in Protocols /\ slow \in BOOLEAN
  /\ squat \in {"none", "mute", "tls"}
  /\ who \in [Clients -> Kinds]
  /\ Alone \/ (who[Honest] = "honest" /\ ~slow /\ squat = "none")
  /\ cl = [c \in Clients |-> "idle"] /\ cend = [c \in Clients |-> "none"]
  /\ sv = [c \in Clients |-> "none"]
  /\ cpc = [c \in Clients |-> 1] /\ spc = cpc
  /\ up = [c \in Clients |-> << >>] /\ down = up
  /\ listener = "open" /\ looping = TRUE /\ busy = None /\ queue = << >>
  /\ timers = << >>

(* KCP has no closing message: neither end learns that the other is gone. *)
ServerGone(c) == sv[c] = "closed" /\ proto # "kcp"
ClientGone(c) == cend[c] \in {"closed", "ended"} /\ proto # "kcp"
Disarm(c, side) == SelectSeq(timers, LAMBDA t : t # <<c, side>>)

-----------------------------------------------------------------------------
(* The client. *)

Dial(c) ==
  /\ cl[c] = "idle" /\ who[c] # "absent"
  /\ IF listener = "closed" /\ proto \notin OverUDP
     THEN cl' = [cl EXCEPT ![c] = "failed"] /\ UNCHANGED <<cend, sv>>
     ELSE /\ cl' = [cl EXCEPT ![c] = "dialing"]
          /\ cend' = [cend EXCEPT ![c] = "open"]
          /\ sv' = [sv EXCEPT ![c] = IF listener = "open" THEN "backlog" ELSE "none"]
  /\ UNCHANGED <<cpc, spc, up, down, server, timers>>

Dialing(c) == cl[c] \in {"dialing", "up"}
NextC(c) == cpc' = [cpc EXCEPT ![c] = @ + 1]
CFrame == UNCHANGED <<sv, spc, server>>

(* What Close leaves of the client's end of the connection. *)
Closed == IF proto \in StreamClosers THEN "ended" ELSE "closed"

(* Dial returns an error, or the tunnel ends. *)
ClientEnds(c, ends) ==
  /\ cl' = [cl EXCEPT ![c] = IF @ = "dialing" THEN "failed" ELSE "lost"]
  /\ \E e \in ends : cend' = [cend EXCEPT ![c] = e]
  /\ timers' = Disarm(c, "client")
  /\ UNCHANGED <<cpc, up, down>> /\ CFrame

ClientSend(c) ==
  /\ Dialing(c) /\ CStep(c)[1] = "send"
  /\ up' = [up EXCEPT ![c] = Append(@, CStep(c)[2])]
  /\ NextC(c) /\ UNCHANGED <<cl, cend, down, timers>> /\ CFrame

ClientPasses(c) == /\ Head(down[c]) = CStep(c)[2]
                   /\ CStep(c)[1] = "check" => who[c] # "wrong"

ClientRecv(c) ==
  /\ Dialing(c) /\ Reading(CStep(c)) /\ down[c] # << >> /\ ClientPasses(c)
  /\ down' = [down EXCEPT ![c] = Tail(@)]
  /\ NextC(c) /\ UNCHANGED <<cl, cend, up, timers>> /\ CFrame

(* A wrong answer, or none will come.  A refused naive dial keeps its       *)
(* HTTP/2 connection, and a failed http3 dial its QUIC connection, once the *)
(* handshake below is over.                                                 *)
LeaksHere(c) ==
  \/ proto = "naive" /\ down[c] # << >>
  \/ proto = "http3" /\ CStep(c) = R("200")
ClientFails(c) ==
  /\ Dialing(c) /\ Reading(CStep(c))
  /\ IF down[c] = << >> THEN ServerGone(c) ELSE ~ClientPasses(c)
  /\ ClientEnds(c, {CASE cl[c] = "up" -> Closed
                       [] cl[c] = "dialing" -> IF LeaksHere(c) THEN "leaked" ELSE "closed"})

(* A client of another make sets no deadline. *)
ClientTimer(c) ==
  /\ Dialing(c) /\ CStep(c)[1] \in {"arm", "clear"}
  /\ timers' = IF CStep(c) = Arm /\ who[c] # "silent"
               THEN Append(Disarm(c, "client"), <<c, "client">>) ELSE Disarm(c, "client")
  /\ NextC(c) /\ UNCHANGED <<cl, cend, up, down>> /\ CFrame

ClientUp(c) ==
  /\ Dialing(c) /\ CStep(c) = Up
  /\ cl' = [cl EXCEPT ![c] = "up"]
  /\ NextC(c) /\ UNCHANGED <<cend, up, down, timers>> /\ CFrame

(* Mutant of ClientDone: the tunnel is not closed. *)
ClientForgets(c) ==
  /\ Dialing(c) /\ CStep(c)[1] = "end"
  /\ cl' = [cl EXCEPT ![c] = "echoed"]
  /\ UNCHANGED <<cend, cpc, up, down, timers>> /\ CFrame

(* The first ping is answered; the client is done with the tunnel. *)
ClientDone(c) ==
  /\ Dialing(c) /\ CStep(c)[1] = "end"
  /\ cl' = [cl EXCEPT ![c] = "echoed"] /\ cend' = [cend EXCEPT ![c] = Closed]
  /\ UNCHANGED <<cpc, up, down, timers>> /\ CFrame

Hangup(c) == who[c] = "silent" /\ Dialing(c) /\ ClientEnds(c, {"closed"})

ClientStep(c) == ClientSend(c) \/ ClientRecv(c) \/ ClientFails(c)
                 \/ ClientTimer(c) \/ ClientUp(c) \/ ClientDone(c)

ClientMoves(c) ==
  /\ Dialing(c) /\ who[c] # "silent"
  /\ Reading(CStep(c)) => down[c] # << >> \/ ServerGone(c)

-----------------------------------------------------------------------------
(* The server. *)

NextS(c) == spc' = [spc EXCEPT ![c] = @ + 1]
SFrame == UNCHANGED <<cl, cpc, cend>>

(* The kernel's or the library's listener gives the connection to a       *)
(* goroutine of its own; a script's Enter is where the single one takes it. *)
AcceptConn(c) ==
  /\ sv[c] = "backlog" /\ listener = "open"
  /\ sv' = [sv EXCEPT ![c] = "handshake"]
  /\ UNCHANGED <<spc, up, down, server, timers>> /\ SFrame

(* Who may run the script: the handshake's goroutine, which after Hand can *)
(* still write, and the echo loop once Accept has returned the tunnel.     *)
Running(c) == \/ sv[c] \in {"handshake", "serving"}
              \/ sv[c] = "queued" /\ SStep(c)[1] = "send" /\ SStep(c)[2] # "frame"

ServerSend(c) ==
  /\ Running(c) /\ SStep(c)[1] = "send"
  /\ down' = [down EXCEPT ![c] = Append(@, SStep(c)[2])]
  /\ spc' = [spc EXCEPT ![c] = IF SStep(c)[2] = "frame" THEN @ - 1 ELSE @ + 1]
  /\ UNCHANGED <<sv, up, server, timers>> /\ SFrame

KeyRight(c) == SStep(c)[1] = "check" => who[c] # "wrong"

ServerRecv(c) ==
  /\ Running(c) /\ Reading(SStep(c)) /\ up[c] # << >>
  /\ Head(up[c]) = SStep(c)[2] /\ KeyRight(c)
  /\ up' = IF SStep(c)[1] = "await" THEN up ELSE [up EXCEPT ![c] = Tail(@)]
  /\ NextS(c) /\ UNCHANGED <<sv, down, server, timers>> /\ SFrame

(* The connection of a client that only ended its tunnel stays. *)
ServerCloses(c) ==
  /\ sv' = [sv EXCEPT ![c] = IF cend[c] = "ended" THEN "idle" ELSE "closed"] /\ timers' = Disarm(c, "server")
  /\ busy' = IF busy = c THEN None ELSE busy
  /\ UNCHANGED <<spc, listener, looping, queue>> /\ SFrame

(* The right message of a wrong key. *)
ServerRefuses(c) ==
  /\ Running(c) /\ up[c] # << >> /\ SStep(c)[1] = "check"
  /\ Head(up[c]) = SStep(c)[2] /\ ~KeyRight(c)
  /\ up' = [up EXCEPT ![c] = Tail(@)]
  /\ down' = IF SStep(c)[4] = "nothing" THEN down ELSE [down EXCEPT ![c] = Append(@, SStep(c)[4])]
  /\ IF SStep(c)[3] = "close" THEN ServerCloses(c)
                              ELSE UNCHANGED <<sv, spc, server, timers>> /\ SFrame

(* EOF, or not the message the script expects. *)
ServerGivesUp(c) ==
  /\ Running(c) /\ Reading(SStep(c))
  /\ IF up[c] = << >> THEN ClientGone(c) ELSE Head(up[c]) # SStep(c)[2]
  /\ ServerCloses(c) /\ UNCHANGED <<up, down>>

ServerTimer(c) ==
  /\ Running(c) /\ SStep(c)[1] \in {"arm", "clear"}
  /\ timers' = Disarm(c, "server") \o (IF SStep(c) = Arm THEN <<<<c, "server">>>> ELSE << >>)
  /\ NextS(c) /\ UNCHANGED <<sv, up, down, server>> /\ SFrame

EnterAccept(c) ==
  /\ Running(c) /\ SStep(c) = Enter /\ busy = None /\ looping /\ listener = "open"
  /\ busy' = c
  /\ NextS(c) /\ UNCHANGED <<sv, up, down, listener, looping, queue, timers>> /\ SFrame

(* Accept returns what it handshook itself; a goroutine's tunnel waits in  *)
(* s.ch, or is closed when s.done is (select may take either).             *)
HandOver(c) ==
  /\ Running(c) /\ SStep(c) = Hand
  /\ \/ /\ busy = c /\ busy' = None
        /\ sv' = [sv EXCEPT ![c] = "serving"] /\ UNCHANGED <<queue, timers>>
     \/ /\ busy # c /\ Len(queue) < Cap /\ queue' = Append(queue, c)
        /\ sv' = [sv EXCEPT ![c] = "queued"] /\ UNCHANGED <<busy, timers>>
     \/ /\ busy # c /\ listener = "closed"
        /\ sv' = [sv EXCEPT ![c] = "closed"] /\ UNCHANGED <<busy, queue, timers>>
  /\ NextS(c) /\ UNCHANGED <<up, down, listener, looping>> /\ SFrame

(* Accept takes a tunnel from s.ch, and acceptLoop starts its echo loop. *)
AcceptTunnel ==
  /\ looping /\ queue # << >>
  /\ queue' = Tail(queue)
  /\ sv' = [sv EXCEPT ![Head(queue)] = IF @ = "queued" THEN "serving" ELSE @]
  /\ UNCHANGED <<spc, up, down, listener, looping, busy, timers>> /\ SFrame

(* Close, any number of times: listeners refuse and reset what they have   *)
(* not accepted, an http.Server drops what is not hijacked, and hysteria2, *)
(* kcp and naive lose their live connections too.                          *)
Unaccepted(c) ==
  \/ sv[c] = "backlog"
  \/ sv[c] = "handshake" /\ \E i \in spc[c] .. Len(ServerScript) : ServerScript[i] = Enter
DropsOnClose(c) == \/ Unaccepted(c)
                   \/ proto \in HTTPServers /\ sv[c] = "handshake"
                   \/ proto \in {"hysteria2", "kcp", "naive"} /\ sv[c] # "none"
Close ==
  /\ Alone /\ squat = "none" /\ listener = "open" /\ listener' = "closed"
  /\ sv' = [c \in Clients |-> IF DropsOnClose(c) THEN "closed" ELSE sv[c]]
  /\ timers' = SelectSeq(timers, LAMBDA t : t[2] = "server" => ~DropsOnClose(t[1]))
  /\ UNCHANGED <<spc, up, down, looping, busy, queue>> /\ SFrame

LoopEnds ==
  /\ listener = "closed" /\ looping /\ busy = None /\ looping' = FALSE
  /\ UNCHANGED <<sv, spc, up, down, listener, busy, queue, timers>> /\ SFrame

ServerStep(c) == ServerSend(c) \/ ServerRecv(c) \/ ServerRefuses(c) \/ ServerGivesUp(c)
                 \/ ServerTimer(c) \/ EnterAccept(c) \/ HandOver(c)

ServerMoves(c) ==
  \/ sv[c] = "backlog" /\ listener = "open"
  \/ /\ Running(c) /\ SStep(c)[1] # "end"
     /\ Reading(SStep(c)) => up[c] # << >> \/ ClientGone(c)
     /\ SStep(c) = Enter => busy = None /\ looping /\ listener = "open"
     /\ SStep(c) = Hand => busy = c \/ Len(queue) < Cap \/ listener = "closed"

-----------------------------------------------------------------------------
(* Time. *)

Quiet == /\ \A c \in Clients : ~ClientMoves(c) /\ ~ServerMoves(c)
         /\ looping => queue = << >> /\ (listener = "open" \/ busy # None)

(* The oldest deadline fires, and the read or write under way fails.  A *)
(* hysteria2 dial gives up on a client that may yet connect and stay.   *)
Expire ==
  /\ timers # << >> /\ (slow \/ Quiet)
  /\ LET c == Head(timers)[1] IN
     IF Head(timers)[2] = "client"
     THEN ClientEnds(c, IF cl[c] = "up" THEN {Closed}
                        ELSE IF proto = "hysteria2" THEN {"closed", "leaked"} ELSE {"closed"})
     ELSE ServerCloses(c) /\ UNCHANGED <<up, down>>

(* A peer of another make may keep an idle connection alive, and so does *)
(* the client of a hysteria2 dial given up.                              *)
KeepsAlive(c) == who[c] = "silent" \/ squat # "none" \/ (proto = "hysteria2" /\ cend[c] = "leaked")

(* A QUIC connection on which nothing moves ends by itself at both ends. *)
IdleOut(c) ==
  /\ proto \in OverQUIC /\ Quiet /\ timers = << >> /\ sv[c] \in {"handshake", "serving", "idle"}
  /\ sv' = [sv EXCEPT ![c] = "closed"] /\ busy' = (IF busy = c THEN None ELSE busy)
  /\ cl' = [cl EXCEPT ![c] = CASE @ = "dialing" -> "failed" [] @ = "up" -> "lost" [] OTHER -> @]
  /\ cend' = [cend EXCEPT ![c] = "closed"]
  /\ UNCHANGED <<cpc, spc, up, down, listener, looping, queue, timers>>

(* Steps nobody else can see are taken as soon as they are reached. *)
CLocal(c) == Dialing(c) /\ CStep(c)[1] \in {"arm", "clear", "up", "end"}
SLocal(c) == sv[c] \in {"handshake", "serving"} /\ SStep(c)[1] \in {"arm", "clear"}

(* What goes on by itself; nobody makes a foreign client speak. *)
Progress ==
  IF \E c \in Clients : CLocal(c) \/ SLocal(c)
  THEN \E c \in Clients : ClientTimer(c) \/ ClientUp(c) \/ ClientDone(c) \/ ServerTimer(c)
  ELSE \/ \E c \in Clients : \/ (who[c] # "silent" /\ ClientStep(c))
                              \/ AcceptConn(c) \/ ServerStep(c) \/ (~KeepsAlive(c) /\ IdleOut(c))
       \/ AcceptTunnel \/ LoopEnds \/ Expire

Next ==
  /\ \/ Progress
     \/ \E c \in Clients : Dial(c) \/ Hangup(c) \/ (who[c] = "silent" /\ ClientStep(c))
                            \/ (KeepsAlive(c) /\ IdleOut(c))
     \/ Close
  /\ UNCHANGED rigid

(* Goroutines run and timers fire: as a client dials once and a script is *)
(* finite, one condition on their union starves none of them.             *)
Spec == Init /\ [][Next]_vars /\ WF_state(Progress)

-----------------------------------------------------------------------------
(* Properties. *)

Keyed == {"smtp", "noise", "shadowtls", "trojan", "anytls", "naive", "hysteria2", "shadowsocks"}
(* Their Dial returns before the server has said anything about the tunnel. *)
Unanswered == {"tcp", "tls", "kcp", "quic", "trojan", "anytls", "shadowsocks"}

(* No frame of a client without the key is ever answered, and but for        *)
(* Shadowsocks, which finds out in its first Read, no such client gets as    *)
(* far as the channel Accept reads.                                          *)
NoIntruder ==
  proto \in Keyed => \A c \in Clients : who[c] = "wrong" =>
    /\ sv[c] \in {"queued", "serving"} => proto = "shadowsocks"
    /\ \A i \in DOMAIN down[c] : down[c][i] # "frame"

(* Where the handshake has an answer, a Dial that returns a tunnel has      *)
(* reached a server of the protocol that accepted its key: a blind probe    *)
(* takes no other service on the port, silent or speaking TLS, for one.     *)
UpMeansAccepted ==
  proto \notin Unanswered => \A c \in Clients : cl[c] \in {"up", "echoed"} =>
    squat = "none" /\ (who[c] = "wrong" => proto \notin Keyed)

(* On a quick network a client with the key gets its first ping back        *)
(* whatever the other client does, but for the protocols whose Accept       *)
(* does the handshake itself: there no other client may fall silent.        *)
HonestServed ==
  (/\ cl[Honest] = "dialing" /\ who[Honest] = "honest" /\ squat = "none" /\ ~slow
   /\ proto \in {"http", "https", "quic"} => \A d \in Clients : who[d] # "silent")
  ~> (cl[Honest] = "echoed" \/ listener = "closed")

(* Where the code bounds a handshake: not in anytls and kcp; in the         *)
(* http.Servers and in hysteria2 (a client of another make keeps it alive,  *)
(* or ours that a dial gave up) by Close only; in quic and http3 by the     *)
(* idle timeout, unless a client of another make keeps it alive.            *)
Bounded(c) ==
  /\ proto \notin {"anytls", "kcp"}
  /\ proto \in HTTPServers \cup {"hysteria2"} => listener = "closed"
  /\ proto \in {"quic", "http3"} => who[c] # "silent"

(* "Bound the handshake so a stalled peer can't leak a goroutine and fd":   *)
(* there, a connection leaves the handshake whatever its client does.       *)
HandshakesEnd ==
  \A c \in Clients :
    (sv[c] = "handshake" /\ squat = "none" /\ Bounded(c)) ~> sv[c] # "handshake"

(* Every Dial of ours returns, whatever has the port (those of naive and    *)
(* http3 may not when another TLS service has it: their wait for the answer *)
(* to CONNECT is unbounded).                                                *)
DialReturns ==
  \A c \in Clients :
    (/\ who[c] # "silent" /\ cl[c] = "dialing"
     /\ proto \in {"naive", "http3"} => squat # "tls")
    ~> cl[c] # "dialing"

(* "connTimeout bounds every client-side dial and handshake read/write"     *)
(* (protocol.go:220).                                                       *)
DialBounded == \A c \in Clients : (who[c] # "silent" /\ cl[c] = "dialing") ~> cl[c] # "dialing"

(* What a client of ours leaves behind, its dial failed or its tunnel       *)
(* closed, the server releases, also when it is closed meanwhile: but for   *)
(* the HTTP/2 connection under a naive tunnel, and a tunnel left in s.ch    *)
(* when the accept loop has ended.  Not with KCP, where it hears nothing,   *)
(* nor after a dial that left its connection behind.                        *)
GhostsEnd ==
  \A c \in Clients :
    (/\ cl[c] \in {"failed", "lost", "echoed"} /\ who[c] # "silent" /\ squat = "none"
     /\ proto # "kcp" /\ (cend[c] = "leaked" => proto = "http3"))
    ~> \/ sv[c] \in {"none", "closed"}
       \/ proto = "naive" /\ sv[c] = "idle"
       \/ ~looping /\ sv[c] = "queued"
=============================================================================
