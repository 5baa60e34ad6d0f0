----------------------------- MODULE UDPDispatch -----------------------------
(***************************************************************************)
(* The server side of the UDP-family protocols (udp, vxlan, vxlan-gpe,     *)
(* geneve, gue, ipsec, l2tp): one dispatcher goroutine owns the socket and *)
(* routes every datagram to the session of its source address; an accept   *)
(* loop hands each new session to a goroutine of its own, which runs       *)
(* EchoLoop, or forward.Serve when the server was started with --forward.  *)
(*                                                                         *)
(* The network may lose, duplicate and reorder: a datagram of any client   *)
(* may arrive at any moment.  MaxDgrams bounds the arrivals of a behaviour *)
(* and so the sessions: each datagram creates at most one.                 *)
(***************************************************************************)
EXTENDS Naturals, Sequences

CONSTANTS
  Peers,        \* client source addresses
  Kinds,        \* the kinds of datagram that arrive in this instance
  InCap,        \* capacity of a session's in channel (64 in the code)
  NewCap,       \* capacity of the newSessions channel (16 in the code)
  Forward,      \* the server runs with --forward
  Strict,       \* the protocol's wrap rejects datagrams that fail decap
  MaxDgrams     \* bound on arrivals

ASSUME PeersAssumption == Peers # {}
ASSUME CapAssumption == InCap \in Nat \ {0} /\ NewCap \in Nat \ {0}
ASSUME BoundAssumption == MaxDgrams \in Nat
ASSUME ModeAssumption == Forward \in BOOLEAN /\ Strict \in BOOLEAN

(* ping is echoed as pong; data is any other payload (FrameForwardData and *)
(* throughput frames); empty carries no frame byte; junk fails decap.      *)
ASSUME KindsAssumption == Kinds \subseteq {"ping", "data", "dial", "empty", "junk"}

Nil == 0
Sess == 1 .. MaxDgrams
Frames == [peer : Peers, n : 1 .. MaxDgrams, k : Kinds]

VARIABLES
  sessions,     \* the table: sessions[p] is p's session, or Nil
  owner,        \* owner[s]: the address session s was created for, in creation order
  in,           \* in[s]: the in channel of session s
  newq,         \* the newSessions channel
  dpc,          \* dispatchLoop: where it stands,
  dgram,        \* ... the datagram in hand
  ds,           \* ... and the session it goes to
  arrived,      \* number of datagrams read from the socket
  srv,          \* "up", "done" (done closed), "down" (socket closed too)
  acc,          \* the accept loop is running
  hs,           \* hs[s]: where the goroutine that owns session s stands
  up,           \* up[s]: where its c -> tunnel goroutine stands
  sent,         \* sent[s]: the c -> tunnel goroutine sent during this ReadFrame
  last          \* history: last[p] is the newest datagram of p handled

dispVars == <<dpc, dgram, ds, arrived>>
hostVars == <<srv, acc>>
vars == <<sessions, owner, in, newq, dispVars, hostVars, hs, up, sent, last>>

(* none: not accepted; peek: first ReadFrame of Serve; first: its WriteFrame; *)
(* read, echo: ReadFrame and WriteFrame of EchoLoop; dial: net.Dial;          *)
(* relay, write: ReadFrame of the tunnel -> c loop, and its c.Write to the     *)
(* target, which has no deadline; close: t.Close is next; gone: returned.      *)
HandlerPC == {"none", "peek", "first", "read", "echo", "dial", "relay", "write", "close", "gone"}
UpPC == {"off", "run", "close", "done"}
Reading == {"peek", "read", "relay"}

NoDgram == [peer |-> CHOOSE p \in Peers : TRUE, n |-> 0, k |-> "none"]

Init ==
  /\ sessions = [p \in Peers |-> Nil]
  /\ owner = << >>
  /\ in = [s \in Sess |-> << >>]
  /\ newq = << >>
  /\ dpc = "read" /\ dgram = NoDgram /\ ds = Nil
  /\ arrived = 0
  /\ srv = "up"
  /\ acc = TRUE
  /\ hs = [s \in Sess |-> "none"]
  /\ up = [s \in Sess |-> "off"]
  /\ sent = [s \in Sess |-> FALSE]
  /\ last = [p \in Peers |-> 0]

-----------------------------------------------------------------------------
(* The dispatcher goroutine: dispatchLoop. *)

(* ReadFromUDP returns a datagram of any kind from any client. *)
ReadFromUDP(p, k) ==
  /\ dpc = "read" /\ srv # "down" /\ arrived < MaxDgrams
  /\ arrived' = arrived + 1
  /\ dgram' = [peer |-> p, n |-> arrived + 1, k |-> k]
  /\ dpc' = "lookup"
  /\ UNCHANGED <<sessions, owner, in, newq, ds, hostVars, hs, up, sent, last>>

(* ReadFromUDP fails once the socket is closed: the loop returns. *)
ReadClosed ==
  /\ dpc = "read" /\ srv = "down"
  /\ dpc' = "stop"
  /\ UNCHANGED <<sessions, owner, in, newq, dgram, ds, arrived, hostVars, hs, up, sent, last>>

(* Mutant of Lookup: the table is not consulted. *)
LookupMissesAlways ==
  /\ dpc = "lookup"
  /\ ds' = Nil /\ dpc' = "insert"
  /\ UNCHANGED <<sessions, owner, in, newq, dgram, arrived, hostVars, hs, up, sent, last>>

(* The table is read under mu, and mu released. *)
Lookup ==
  /\ dpc = "lookup"
  /\ ds' = sessions[dgram.peer]
  /\ dpc' = IF ds' = Nil THEN "insert" ELSE "deliver"
  /\ UNCHANGED <<sessions, owner, in, newq, dgram, arrived, hostVars, hs, up, sent, last>>

(* A brand-new session is created, wrapped and stored under mu. *)
Insert ==
  /\ dpc = "insert"
  /\ owner' = Append(owner, dgram.peer)
  /\ ds' = Len(owner) + 1
  /\ sessions' = [sessions EXCEPT ![dgram.peer] = ds']
  /\ dpc' = "announce"
  /\ UNCHANGED <<in, newq, dgram, arrived, hostVars, hs, up, sent, last>>

(* newSessions <- s, which blocks while the channel is full. *)
Announce ==
  /\ dpc = "announce" /\ Len(newq) < NewCap
  /\ newq' = Append(newq, ds)
  /\ dpc' = "deliver"
  /\ UNCHANGED <<sessions, owner, in, dgram, ds, arrived, hostVars, hs, up, sent, last>>

(* Mutant of AnnounceDone: the select has no done arm. *)
AnnounceIgnoresDone == FALSE /\ UNCHANGED vars

(* The other arm of that select: done is closed, the loop returns. *)
AnnounceDone ==
  /\ dpc = "announce" /\ srv # "up"
  /\ dpc' = "stop"
  /\ UNCHANGED <<sessions, owner, in, newq, dgram, ds, arrived, hostVars, hs, up, sent, last>>

(* Mutant of Deliver: the in channel has no capacity. *)
DeliverUnbounded ==
  /\ dpc = "deliver"
  /\ in' = [in EXCEPT ![ds] = Append(@, dgram)]
  /\ dpc' = "read" /\ dgram' = NoDgram /\ ds' = Nil
  /\ UNCHANGED <<sessions, owner, newq, arrived, hostVars, hs, up, sent, last>>

(* s.in <- frame, or the frame is dropped when the channel is full. *)
Deliver ==
  /\ dpc = "deliver"
  /\ in' = IF Len(in[ds]) < InCap THEN [in EXCEPT ![ds] = Append(@, dgram)] ELSE in
  /\ dpc' = "read" /\ dgram' = NoDgram /\ ds' = Nil
  /\ UNCHANGED <<sessions, owner, newq, arrived, hostVars, hs, up, sent, last>>

Dispatch ==
  ReadClosed \/ Lookup \/ Insert \/ Announce \/ AnnounceDone \/ Deliver

-----------------------------------------------------------------------------
(* The accept loop and the shutdown of the server. *)

(* Accept returns a session and acceptLoop starts its goroutine. *)
Accept ==
  /\ acc /\ newq # << >>
  /\ newq' = Tail(newq)
  /\ hs' = [hs EXCEPT ![Head(newq)] = IF Forward THEN "peek" ELSE "read"]
  /\ UNCHANGED <<sessions, owner, in, dispVars, hostVars, up, sent, last>>

(* Accept fails once done is closed: acceptLoop returns. *)
AcceptDone ==
  /\ acc /\ srv # "up"
  /\ acc' = FALSE
  /\ UNCHANGED <<sessions, owner, in, newq, dispVars, srv, hs, up, sent, last>>

(* Close: close(done), then conn.Close. *)
CloseDone ==
  /\ srv = "up" /\ srv' = "done"
  /\ UNCHANGED <<sessions, owner, in, newq, dispVars, acc, hs, up, sent, last>>

CloseConn ==
  /\ srv = "done" /\ srv' = "down"
  /\ UNCHANGED <<sessions, owner, in, newq, dispVars, acc, hs, up, sent, last>>

-----------------------------------------------------------------------------
(* The session transport, used by every goroutine below. *)

(* ReadFrame takes the next frame; the select starts afresh after it. *)
Pop(s) ==
  /\ in[s] # << >>
  /\ in' = [in EXCEPT ![s] = Tail(@)]
  /\ last' = [last EXCEPT ![owner[s]] = Head(in[s]).n]
  /\ sent' = [sent EXCEPT ![s] = FALSE]

Head1(s) == Head(in[s]).k
Rejected(k) == Strict /\ k = "junk"

(* A strict wrap's ReadFrame loops on a datagram that fails decap. *)
Skip(s) ==
  /\ hs[s] \in Reading
  /\ Pop(s) /\ Rejected(Head1(s))
  /\ UNCHANGED <<sessions, owner, newq, dispVars, hostVars, hs, up>>

(* removeSession deletes whatever the table holds for the session's key. *)
Remove(s) == sessions' = [sessions EXCEPT ![owner[s]] = Nil]

(* Mutant of AfterReadError: EchoLoop has no deferred Close. *)
NeverCloses(s) == "gone"

(* Where a ReadFrame error takes the goroutine: EchoLoop runs its deferred *)
(* Close, Serve returns, and so does the tunnel -> c loop of relay.        *)
AfterReadError(s) == IF hs[s] = "read" THEN "close" ELSE "gone"

(* Mutant of IdleTimeout: EchoLoop retries after a timeout. *)
IdleRetries(s) ==
  /\ hs[s] \in Reading /\ in[s] = << >>
  /\ UNCHANGED vars

(* ReadFrame fails: nothing arrived for udpSessionIdle. *)
IdleTimeout(s) ==
  /\ hs[s] \in Reading /\ in[s] = << >>
  /\ hs' = [hs EXCEPT ![s] = AfterReadError(s)]
  /\ UNCHANGED <<sessions, owner, in, newq, dispVars, hostVars, up, sent, last>>

(* ReadFrame fails: done is closed, even if frames are waiting. *)
WokenByDone(s) ==
  /\ hs[s] \in Reading /\ srv # "up"
  /\ hs' = [hs EXCEPT ![s] = AfterReadError(s)]
  /\ UNCHANGED <<sessions, owner, in, newq, dispVars, hostVars, up, sent, last>>

-----------------------------------------------------------------------------
(* EchoLoop. *)

EchoRead(s) ==
  /\ hs[s] = "read"
  /\ Pop(s) /\ ~Rejected(Head1(s))
  /\ hs' = [hs EXCEPT ![s] = IF Head1(s) = "empty" THEN "read" ELSE "echo"]
  /\ UNCHANGED <<sessions, owner, newq, dispVars, hostVars, up>>

(* WriteFrame: WriteTo may fail at any time, and fails on a closed socket. *)
EchoWrite(s) ==
  /\ hs[s] = "echo"
  /\ \/ srv # "down" /\ hs' = [hs EXCEPT ![s] = "read"]
     \/ hs' = [hs EXCEPT ![s] = "close"]
  /\ UNCHANGED <<sessions, owner, in, newq, dispVars, hostVars, up, sent, last>>

(* Mutant of CloseTunnel: a second Close may follow, as if Serve deferred *)
(* one of its own around EchoLoop's.                                      *)
CloseTwice(s) ==
  /\ hs[s] = "close"
  /\ Remove(s)
  /\ \E pc \in {"close", "gone"} : hs' = [hs EXCEPT ![s] = pc]
  /\ UNCHANGED <<owner, in, newq, dispVars, hostVars, up, sent, last>>

(* t.Close: EchoLoop's deferred one, or serveForward's after a failed dial. *)
CloseTunnel(s) ==
  /\ hs[s] = "close"
  /\ Remove(s)
  /\ hs' = [hs EXCEPT ![s] = "gone"]
  /\ UNCHANGED <<owner, in, newq, dispVars, hostVars, up, sent, last>>

-----------------------------------------------------------------------------
(* forward.Serve and relay. *)

(* The first frame decides: empty ends the session, dial starts a relay, *)
(* anything else makes it a benchmark session.                           *)
Peek(s) ==
  /\ hs[s] = "peek"
  /\ Pop(s) /\ ~Rejected(Head1(s))
  /\ hs' = [hs EXCEPT ![s] = CASE Head1(s) = "empty" -> "gone"
                               [] Head1(s) = "dial" -> "dial"
                               [] OTHER -> "first"]
  /\ UNCHANGED <<sessions, owner, newq, dispVars, hostVars, up>>

FirstEcho(s) ==
  /\ hs[s] = "first"
  /\ \/ srv # "down" /\ hs' = [hs EXCEPT ![s] = "read"]
     \/ hs' = [hs EXCEPT ![s] = "gone"]
  /\ UNCHANGED <<sessions, owner, in, newq, dispVars, hostVars, up, sent, last>>

(* net.Dial succeeds: relay starts the c -> tunnel goroutine. *)
DialOk(s) ==
  /\ hs[s] = "dial"
  /\ hs' = [hs EXCEPT ![s] = "relay"]
  /\ up' = [up EXCEPT ![s] = "run"]
  /\ UNCHANGED <<sessions, owner, in, newq, dispVars, hostVars, sent, last>>

DialFail(s) ==
  /\ hs[s] = "dial"
  /\ hs' = [hs EXCEPT ![s] = "close"]
  /\ UNCHANGED <<sessions, owner, in, newq, dispVars, hostVars, up, sent, last>>

(* tunnel -> c: data is written to the target, other frames are ignored. *)
RelayDown(s) ==
  /\ hs[s] = "relay"
  /\ Pop(s) /\ ~Rejected(Head1(s))
  /\ \/ UNCHANGED hs
     \/ Head1(s) \in {"data", "junk"} /\ hs' = [hs EXCEPT ![s] = "write"]
  /\ UNCHANGED <<sessions, owner, newq, dispVars, hostVars, up>>

(* c.Write returns: the target has taken the bytes, or is gone. *)
RelayWrite(s) ==
  /\ hs[s] = "write"
  /\ \E pc \in {"relay", "gone"} : hs' = [hs EXCEPT ![s] = pc]
  /\ UNCHANGED <<sessions, owner, in, newq, dispVars, hostVars, up, sent, last>>

(* c -> tunnel: bytes of the target go to the client. *)
RelayUp(s) ==
  /\ up[s] = "run" /\ hs[s] \in {"relay", "write"} /\ srv # "down"
  /\ sent' = [sent EXCEPT ![s] = TRUE]
  /\ UNCHANGED <<sessions, owner, in, newq, dispVars, hostVars, hs, up, last>>

(* Mutant of RelayUpEnd: the tunnel -> c loop returns without closing c. *)
RelayUpOutlives(s) ==
  /\ up[s] = "run" /\ hs[s] # "gone"
  /\ up' = [up EXCEPT ![s] = "close"]
  /\ UNCHANGED <<sessions, owner, in, newq, dispVars, hostVars, hs, sent, last>>

(* c -> tunnel ends: the target closed, the tunnel -> c loop closed c, or *)
(* WriteFrame failed.  Its deferred t.Close is next.                      *)
RelayUpEnd(s) ==
  /\ up[s] = "run"
  /\ up' = [up EXCEPT ![s] = "close"]
  /\ UNCHANGED <<sessions, owner, in, newq, dispVars, hostVars, hs, sent, last>>

RelayUpClose(s) ==
  /\ up[s] = "close"
  /\ Remove(s)
  /\ up' = [up EXCEPT ![s] = "done"]
  /\ UNCHANGED <<owner, in, newq, dispVars, hostVars, hs, sent, last>>

Handler(s) ==
  \/ Skip(s) \/ IdleTimeout(s) \/ WokenByDone(s)
  \/ EchoRead(s) \/ EchoWrite(s) \/ CloseTunnel(s)
  \/ Peek(s) \/ FirstEcho(s) \/ DialOk(s) \/ DialFail(s) \/ RelayDown(s)

(* What a relay does besides reading the tunnel: no step of a target is owed. *)
Relay(s) == RelayWrite(s) \/ RelayUp(s) \/ RelayUpEnd(s) \/ RelayUpClose(s)

Next ==
  \/ \E p \in Peers, k \in Kinds : ReadFromUDP(p, k)
  \/ Dispatch
  \/ Accept \/ AcceptDone \/ CloseDone \/ CloseConn
  \/ \E s \in Sess : Handler(s) \/ Relay(s)

Spec == Init /\ [][Next]_vars

(* Every goroutine keeps running: ReadFrame ends by a frame, done or the   *)
(* idle timer, net.Dial by its own timeout, Read of a closed connection at *)
(* once.  Clients, targets and the operator owe nothing; a target need not *)
(* even read, so that RelayWrite may never come.                           *)
Fairness ==
  /\ WF_vars(Dispatch) /\ WF_vars(Accept \/ AcceptDone) /\ WF_vars(CloseConn)
  /\ \A s \in Sess :
       /\ WF_vars(Handler(s))
       /\ WF_vars(hs[s] = "gone" /\ RelayUpEnd(s))
       /\ WF_vars(RelayUpClose(s))

FairSpec == Spec /\ Fairness
-----------------------------------------------------------------------------
(* Properties. *)

TypeOK ==
  /\ sessions \in [Peers -> 0 .. MaxDgrams]
  /\ owner \in Seq(Peers) /\ Len(owner) <= arrived
  /\ in \in [Sess -> Seq(Frames)]
  /\ \A s \in Sess : Len(in[s]) <= InCap
  /\ newq \in Seq(Sess) /\ Len(newq) <= NewCap
  /\ dpc \in {"read", "lookup", "insert", "announce", "deliver", "stop"}
  /\ dgram \in Frames \cup {NoDgram}
  /\ ds \in 0 .. MaxDgrams
  /\ arrived \in 0 .. MaxDgrams
  /\ srv \in {"up", "done", "down"}
  /\ acc \in BOOLEAN
  /\ hs \in [Sess -> HandlerPC]
  /\ up \in [Sess -> UpPC]
  /\ sent \in [Sess -> BOOLEAN]
  /\ last \in [Peers -> 0 .. MaxDgrams]

(* A session whose goroutines may still call t.Close. *)
Owes(s) ==
  \/ hs[s] \in {"none", "peek", "first", "read", "echo", "dial", "close"}
  \/ up[s] \in {"run", "close"}

(* removeSession deletes by address, not by session: it is right only      *)
(* because a session that may still close is the one its address maps to,  *)
(* so that no late Close can evict the session that replaced it.           *)
OwnEntry ==
  \A s \in 1 .. Len(owner) : Owes(s) => sessions[owner[s]] = s

(* Without --forward the table holds no session that nobody will ever read. *)
TableServed ==
  \A p \in Peers : sessions[p] # Nil => hs[sessions[p]] # "gone"

(* Without --forward the dispatcher keeps the promise of PeerService. *)
PS == INSTANCE PeerService WITH current <- sessions, opened <- Len(owner)
ServesPeers == PS!PSSpec

(* A session whose client has gone away is reaped, as long as the server   *)
(* runs (the comments at udpSessionIdle and at udpDispatcher).             *)
IdleReaped ==
  \A p \in Peers : sessions[p] # Nil ~> (sessions[p] = Nil \/ srv # "up")

(* Close ends every goroutine: the dispatcher, the accept loop, and both   *)
(* goroutines of every session that was accepted.                          *)
Unwound ==
  /\ dpc = "stop" /\ ~acc
  /\ \A s \in Sess : hs[s] \in {"none", "gone"} /\ up[s] \in {"off", "done"}
ShutdownUnwinds == srv = "done" ~> Unwound

(* When either direction of a relay ends, both do: no goroutine and no     *)
(* target connection outlives the session for ever, but for the write to a *)
(* target that stays open and never reads.                                 *)
RelayUnwinds ==
  \A s \in Sess :
    (up[s] \in {"close", "done"} \/ (up[s] = "run" /\ hs[s] = "gone"))
      ~> ((hs[s] = "gone" /\ up[s] = "done") \/ [](hs[s] = "write"))

(* The idle timer ends only sessions without traffic (the comment at       *)
(* udpSessionIdle): not a relay that is sending to its client.  The code   *)
(* ends such a relay too: no run claims this.                              *)
IdleMeansNoTraffic == [][\A s \in Sess : IdleTimeout(s) => ~sent[s]]_vars
=============================================================================
