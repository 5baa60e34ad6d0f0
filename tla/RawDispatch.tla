----------------------------- MODULE RawDispatch -----------------------------
(***************************************************************************)
(* The raw layer-3 protocols (gre, ipip, sit, 6to4, icmp, and icmpv6,      *)
(* whose server mirrors this one): sockets without ports.  Every socket of *)
(* one IP protocol on a host receives every packet sent to that host: the  *)
(* servers' (sit and 6to4 share protocol 41), the clients', and on         *)
(* loopback the sender's own.  Only the 16-bit tunnel ids and the frame    *)
(* types tell what is meant for whom.                                      *)
(*                                                                         *)
(* Packets may be lost.  MaxPings bounds what a client sends; hops counts  *)
(* how often a frame was echoed, up to MaxHops.                            *)
(***************************************************************************)
EXTENDS Naturals, Sequences, FiniteSets

CONSTANTS
  Servers, Clients,
  Ids,          \* tunnel ids (16 bits in the code)
  ClientId,     \* the id each client drew
  Collide,      \* a server may draw an id that a client also drew
  Loopback,     \* clients and servers are on one host
  Directional,  \* requests and replies differ, and the kernel answers requests (icmp)
  RecvCap,      \* packets a socket's receive buffer holds
  InCap,        \* capacity of a session's in channel (64 in the code)
  NewCap,       \* capacity of the newSessions channel (16 in the code)
  MaxPings, MaxHops

ASSUME SocketAssumption == Servers \cap Clients = {}
ASSUME IdAssumption == ClientId \in [Clients -> Ids]
ASSUME RawModeAssumption == Collide \in BOOLEAN /\ Loopback \in BOOLEAN /\ Directional \in BOOLEAN
ASSUME RawCapAssumption ==
  /\ RecvCap \in Nat \ {0} /\ InCap \in Nat \ {0} /\ NewCap \in Nat \ {0}
  /\ MaxPings \in Nat /\ MaxHops \in Nat \ {0, 1}

Sockets == Servers \cup Clients
ClientIds == {ClientId[c] : c \in Clients}
Hosts == {"near", "far"}
Host(y) == IF Loopback \/ y \in Clients THEN "near" ELSE "far"
ServerHost == IF Loopback THEN "near" ELSE "far"

(* A test frame: its type, the probe it is about, and how often it was echoed. *)
Frames == [k : {"ping", "pong"}, c : Clients, n : 1 .. MaxPings, hops : 0 .. MaxHops]
Packets == [src : Hosts, dst : Hosts, id : Ids, reply : BOOLEAN, f : Frames]

(* A client session on the wire: the peer's address and the id it chose. *)
Keys == [peer : Hosts, id : Ids]
None == [st |-> "none"]
Tunnels == [st : {"new", "run"}, tid : Ids, in : Seq(Frames)]

VARIABLES
  socket,       \* socket[y]: packets in y's receive buffer
  sessions,     \* sessions[s][key]: the tunnel serving key at server s, or None
  used,         \* used[s]: the ids s filters as its own
  sent,         \* sent[c]: probes c sent
  answers       \* answers[c]: pongs c took, per client and probe they are about

vars == <<socket, sessions, used, sent, answers>>

Init ==
  /\ socket = [y \in Sockets |-> << >>]
  /\ sessions = [s \in Servers |-> [key \in Keys |-> None]]
  /\ used = [s \in Servers |-> {}]
  /\ sent = [c \in Clients |-> 0]
  /\ answers = [c \in Clients |-> [d \in Clients |-> [n \in 1 .. MaxPings |-> 0]]]

-----------------------------------------------------------------------------
(* The network and the kernel. *)

(* A packet reaches every socket of its destination that has room. *)
Received(b, p) ==
  [y \in Sockets |-> IF Host(y) = p.dst /\ Len(b[y]) < RecvCap THEN Append(b[y], p) ELSE b[y]]

(* The kernel answers an ICMP echo request with a copy of it as a reply. *)
AutoReply(p) == [p EXCEPT !.src = p.dst, !.dst = p.src, !.reply = TRUE]

Transmit(b, p) ==
  IF Directional /\ ~p.reply THEN Received(Received(b, p), AutoReply(p)) ELSE Received(b, p)

Popped(y) == [socket EXCEPT ![y] = Tail(@)]

Lose(y) ==
  /\ socket[y] # << >> /\ socket' = Popped(y)
  /\ UNCHANGED <<sessions, used, sent, answers>>

-----------------------------------------------------------------------------
(* A server: dispatchLoop, Accept, and EchoLoop over a rawTunnel. *)

KeyOf(p) == [peer |-> p.src, id |-> p.id]

(* Mutant of Foreign: clientOK is not consulted. *)
ForeignIgnoresType(s, p) == p.id \in used[s]

(* One of the server's own echoes, or a message no client sends (clientOK). *)
Foreign(s, p) == p.id \in used[s] \/ (Directional /\ p.reply)

(* Mutant of IsClientProbe: any frame opens a session. *)
AnyFrame(f) == TRUE

(* isClientProbe: only a client's own frame opens a session. *)
IsClientProbe(f) == f.k = "ping"

(* The packet is foreign, or a stranger's that opens no session. *)
Ignore(s) ==
  /\ socket[s] # << >>
  /\ LET p == Head(socket[s])
     IN Foreign(s, p) \/ (sessions[s][KeyOf(p)] = None /\ ~IsClientProbe(p.f))
  /\ socket' = Popped(s)
  /\ UNCHANGED <<sessions, used, sent, answers>>

(* The packet of a known session goes to its channel, or is dropped. *)
Route(s) ==
  /\ socket[s] # << >>
  /\ LET p == Head(socket[s])
         t == sessions[s][KeyOf(p)]
     IN /\ ~Foreign(s, p) /\ t # None
        /\ sessions' = IF Len(t.in) < InCap
                       THEN [sessions EXCEPT ![s][KeyOf(p)].in = Append(@, p.f)]
                       ELSE sessions
  /\ socket' = Popped(s)
  /\ UNCHANGED <<used, sent, answers>>

(* rand.Intn, drawn again while the server already uses the id. *)
FreshId(s, tid) == tid \notin used[s] /\ (Collide \/ tid \notin ClientIds)

(* A brand-new session draws an id and is announced to Accept, which the *)
(* dispatcher waits for while newSessions is full.                       *)
Open(s, tid) ==
  /\ socket[s] # << >>
  /\ LET p == Head(socket[s])
     IN /\ ~Foreign(s, p) /\ sessions[s][KeyOf(p)] = None /\ IsClientProbe(p.f)
        /\ sessions' = [sessions EXCEPT ![s][KeyOf(p)] = [st |-> "new", tid |-> tid, in |-> <<p.f>>]]
  /\ Cardinality({key \in Keys : sessions[s][key].st = "new"}) < NewCap
  /\ FreshId(s, tid) /\ used' = [used EXCEPT ![s] = @ \cup {tid}]
  /\ socket' = Popped(s)
  /\ UNCHANGED <<sent, answers>>

Accept(s, key) ==
  /\ sessions[s][key].st = "new"
  /\ sessions' = [sessions EXCEPT ![s][key].st = "run"]
  /\ UNCHANGED <<socket, used, sent, answers>>

(* What EchoLoop sends back for a frame. *)
Echoed(f) ==
  [k |-> "pong", c |-> f.c, n |-> f.n,
   hops |-> IF f.hops < MaxHops THEN f.hops + 1 ELSE f.hops]

Echo(s, key) ==
  /\ sessions[s][key].st = "run"
  /\ LET t == sessions[s][key]
     IN /\ t.in # << >>
        /\ sessions' = [sessions EXCEPT ![s][key].in = Tail(@)]
        /\ socket' = Transmit(socket, [src |-> Host(s), dst |-> key.peer, id |-> t.tid,
                                       reply |-> TRUE, f |-> Echoed(Head(t.in))])
  /\ UNCHANGED <<used, sent, answers>>

(* Mutant of End: the id stays in the used set. *)
EndKeepsId(s, key) ==
  /\ sessions[s][key].st = "run"
  /\ sessions' = [sessions EXCEPT ![s][key] = None]
  /\ UNCHANGED <<socket, used, sent, answers>>

(* EchoLoop ends, by the idle timer or a failed write, and its Close drops *)
(* the session and its id.                                                 *)
End(s, key) ==
  /\ sessions[s][key].st = "run"
  /\ sessions' = [sessions EXCEPT ![s][key] = None]
  /\ used' = [used EXCEPT ![s] = @ \ {sessions[s][key].tid}]
  /\ UNCHANGED <<socket, sent, answers>>

-----------------------------------------------------------------------------
(* A client: WriteFrame and ReadFrame of its rawTunnel. *)

Send(c) ==
  /\ sent[c] < MaxPings
  /\ sent' = [sent EXCEPT ![c] = @ + 1]
  /\ socket' = Transmit(socket,
       [src |-> Host(c), dst |-> ServerHost, id |-> ClientId[c], reply |-> FALSE,
        f |-> [k |-> "ping", c |-> c, n |-> sent[c] + 1, hops |-> 0]])
  /\ UNCHANGED <<sessions, used, answers>>

(* ReadFrame drops what carries its own id or no server sends (serverOK). *)
Skipped(c, p) == p.id = ClientId[c] \/ (Directional /\ ~p.reply)

Read(c) ==
  /\ socket[c] # << >>
  /\ LET p == Head(socket[c])
     IN answers' = IF ~Skipped(c, p) /\ p.f.k = "pong"
                   THEN [answers EXCEPT ![c][p.f.c][p.f.n] = @ + 1]
                   ELSE answers
  /\ socket' = Popped(c)
  /\ UNCHANGED <<sessions, used, sent>>

-----------------------------------------------------------------------------
Server(s) ==
  \/ Ignore(s) \/ Route(s)
  \/ \E tid \in Ids : Open(s, tid)
  \/ \E key \in Keys : Accept(s, key) \/ Echo(s, key) \/ End(s, key)

Next ==
  \/ \E y \in Sockets : Lose(y)
  \/ \E s \in Servers : Server(s)
  \/ \E c \in Clients : Send(c) \/ Read(c)

Spec == Init /\ [][Next]_vars

-----------------------------------------------------------------------------
(* Properties. *)

TypeOK ==
  /\ socket \in [Sockets -> Seq(Packets)]
  /\ \A y \in Sockets : Len(socket[y]) <= RecvCap
  /\ sessions \in [Servers -> [Keys -> Tunnels \cup {None}]]
  /\ \A s \in Servers, key \in Keys : sessions[s][key] # None => Len(sessions[s][key].in) <= InCap
  /\ used \in [Servers -> SUBSET Ids]
  /\ sent \in [Clients -> 0 .. MaxPings]
  /\ answers \in [Clients -> [Clients -> [1 .. MaxPings -> Nat]]]

(* removeSession keeps the used set bounded: a server filters exactly the  *)
(* ids of its live tunnels, and two of them never share one.               *)
Live(s) == {key \in Keys : sessions[s][key] # None}
UsedIsLive ==
  \A s \in Servers :
    /\ used[s] = {sessions[s][key].tid : key \in Live(s)}
    /\ \A key, other \in Live(s) : sessions[s][key].tid = sessions[s][other].tid => key = other

(* Every session serves a client: no echo, of this server or of another on *)
(* the same host, is ever taken for a brand-new client (dispatchLoop).     *)
OnlyClients == \A s \in Servers : \A key \in Live(s) : key.id \in ClientIds

(* Two servers on one host do not echo each other's echoes (isClientProbe). *)
NoEchoOfEcho ==
  \A y \in Sockets : \A i \in DOMAIN socket[y] : socket[y][i].f.hops <= 1

(* A probe is answered once: of the pongs that a client reads, its own or, *)
(* on one host, those meant for another, no two answer the same probe (a   *)
(* host that runs sit and 6to4 echoes twice, which the README calls        *)
(* benign).                                                                *)
AnsweredOnce ==
  \A c \in Clients, d \in Clients, n \in 1 .. MaxPings : answers[c][d][n] <= 1
=============================================================================
