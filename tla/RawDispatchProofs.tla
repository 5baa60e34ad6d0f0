-------------------------- MODULE RawDispatchProofs --------------------------
(***************************************************************************)
(* Proofs about RawDispatch, for any sets of servers and clients, any ids, *)
(* on loopback or not, with or without directional messages.               *)
(***************************************************************************)
EXTENDS RawDispatch, SequenceTheorems, TLAPS

(* What is in flight.  A packet that carries a client's id holds a ping    *)
(* nobody echoed (the client's own, or the kernel's copy of it), and any   *)
(* other holds a pong that was echoed once.                                *)
Fresh == {f \in Frames : f.hops = 0}
Wire == {p \in Packets :
           IF p.id \in ClientIds THEN p.f.k = "ping" /\ p.f.hops = 0
                                 ELSE p.f.k = "pong" /\ p.f.hops <= 1}

(* A session serves a client, under an id that is no client's, and no echo *)
(* waits in its channel.                                                   *)
Serving == [st : {"new", "run"}, tid : Ids \ ClientIds, in : Seq(Fresh)]

IInv ==
  /\ socket \in [Sockets -> Seq(Wire)]
  /\ sessions \in [Servers -> [Keys -> Serving \cup {None}]]
  /\ sent \in [Clients -> 0 .. MaxPings]
  /\ OnlyClients

LEMMA HostType == \A y \in Sockets : Host(y) \in Hosts /\ ServerHost \in Hosts
BY DEF Host, Hosts, ServerHost

LEMMA ServingFields ==
  \A t \in Serving : t # None /\ t.tid \in Ids \ ClientIds /\ t.in \in Seq(Fresh)
BY DEF Serving, None

(* Receiving and the kernel's answers put only such packets in the buffers. *)
LEMMA ReceivedType ==
  ASSUME NEW b \in [Sockets -> Seq(Wire)], NEW p \in Wire
  PROVE  Received(b, p) \in [Sockets -> Seq(Wire)]
<1>1. ASSUME NEW y \in Sockets PROVE Append(b[y], p) \in Seq(Wire)
  BY AppendProperties
<1> QED BY <1>1 DEF Received

LEMMA TransmitType ==
  ASSUME NEW b \in [Sockets -> Seq(Wire)], NEW p \in Wire
  PROVE  Transmit(b, p) \in [Sockets -> Seq(Wire)]
<1>1. AutoReply(p) \in Wire
  BY DEF AutoReply, Wire, Packets
<1> QED BY <1>1, ReceivedType DEF Transmit

LEMMA PoppedType ==
  ASSUME IInv, NEW y \in Sockets, socket[y] # << >>
  PROVE  Head(socket[y]) \in Wire /\ Popped(y) \in [Sockets -> Seq(Wire)]
<1>1. socket[y] \in Seq(Wire)
  BY DEF IInv
<1>2. Head(socket[y]) \in Wire /\ Tail(socket[y]) \in Seq(Wire)
  BY <1>1, HeadTailProperties
<1> QED BY <1>2 DEF IInv, Popped

(* Storing a session, or none, under a client's key keeps the table. *)
LEMMA StoreType ==
  ASSUME IInv, NEW s \in Servers, NEW key \in Keys, NEW t \in Serving \cup {None},
         t # None => key.id \in ClientIds,
         sessions' = [sessions EXCEPT ![s] = [sessions[s] EXCEPT ![key] = t]]
  PROVE  sessions' \in [Servers -> [Keys -> Serving \cup {None}]] /\ OnlyClients'
<1>1. sessions' \in [Servers -> [Keys -> Serving \cup {None}]]
  BY DEF IInv
<1>2. ASSUME NEW r \in Servers, NEW k \in Keys, sessions'[r][k] # None
      PROVE  k.id \in ClientIds
  <2>1. CASE r = s /\ k = key
    BY <1>2, <2>1 DEF IInv
  <2>2. CASE ~(r = s /\ k = key)
    <3>1. sessions'[r][k] = sessions[r][k]
      BY <2>2 DEF IInv
    <3> QED BY <3>1, <1>2 DEF IInv, OnlyClients, Live
  <2> QED BY <2>1, <2>2
<1> QED BY <1>1, <1>2 DEF OnlyClients, Live, ClientIds

LEMMA InvInit == Init => IInv
BY RawCapAssumption DEF Init, IInv, OnlyClients, Live

LEMMA OpenStep ==
  ASSUME ~Collide, IInv, NEW s \in Servers, NEW tid \in Ids, Open(s, tid)
  PROVE  IInv'
<1> DEFINE p == Head(socket[s])
           t == [st |-> "new", tid |-> tid, in |-> <<p.f>>]
<1>1. p \in Wire /\ Popped(s) \in [Sockets -> Seq(Wire)]
  BY PoppedType DEF Open, Sockets
<1>2. KeyOf(p) \in Keys /\ p.f \in Frames
  BY <1>1 DEF Wire, Packets, KeyOf, Keys
<1>3. p.id \in ClientIds /\ p.f \in Fresh
  BY <1>1, <1>2 DEF Open, IsClientProbe, Wire, Fresh
<1>4. tid \notin ClientIds
  BY DEF Open, FreshId
<1>5. t \in Serving
  BY <1>3, <1>4 DEF Serving
<1>6. sessions' = [sessions EXCEPT ![s] = [sessions[s] EXCEPT ![KeyOf(p)] = t]]
  BY DEF Open, IInv
<1>7. KeyOf(p).id \in ClientIds
  BY <1>3 DEF KeyOf
<1> HIDE DEF t, p
<1>8. sessions' \in [Servers -> [Keys -> Serving \cup {None}]] /\ OnlyClients'
  BY <1>2, <1>5, <1>6, <1>7, StoreType
<1> QED BY <1>1, <1>8 DEF Open, IInv, p

LEMMA RouteStep ==
  ASSUME IInv, NEW s \in Servers, Route(s)
  PROVE  IInv'
<1> DEFINE p == Head(socket[s])
           key == KeyOf(p)
           t == sessions[s][key]
           u == [t EXCEPT !.in = Append(t.in, p.f)]
<1>1. p \in Wire /\ Popped(s) \in [Sockets -> Seq(Wire)]
  BY PoppedType DEF Route, Sockets
<1>2. key \in Keys /\ p.f \in Frames
  BY <1>1 DEF Wire, Packets, KeyOf, Keys
<1>3. t \in Serving /\ key.id \in ClientIds
  BY <1>2 DEF Route, IInv, OnlyClients, Live
<1>4. p.f \in Fresh
  BY <1>1, <1>2, <1>3 DEF KeyOf, Wire, Fresh
<1>5. Append(t.in, p.f) \in Seq(Fresh)
  BY <1>3, <1>4, ServingFields, AppendProperties
<1>6. u \in Serving
  BY <1>3, <1>5 DEF Serving
<1>7. \/ sessions' = [sessions EXCEPT ![s] = [sessions[s] EXCEPT ![key] = u]]
      \/ sessions' = sessions
  BY DEF Route, IInv
<1> HIDE DEF u, t, key, p
<1>8. sessions' \in [Servers -> [Keys -> Serving \cup {None}]] /\ OnlyClients'
  <2>1. CASE sessions' = sessions
    BY <2>1 DEF IInv, OnlyClients, Live
  <2>2. CASE sessions' = [sessions EXCEPT ![s] = [sessions[s] EXCEPT ![key] = u]]
    BY <1>2, <1>3, <1>6, <2>2, StoreType
  <2> QED BY <1>7, <2>1, <2>2
<1> QED BY <1>1, <1>8 DEF Route, IInv

(* EchoLoop sends a frame back as a pong echoed once more. *)
LEMMA EchoedType ==
  ASSUME NEW f \in Fresh
  PROVE  Echoed(f) \in Frames /\ Echoed(f).k = "pong" /\ Echoed(f).hops <= 1
<1>1. f \in Frames /\ f.hops = 0 /\ 0 < MaxHops /\ 1 \in 0 .. MaxHops
  BY RawCapAssumption DEF Fresh
<1>2. Echoed(f) = [k |-> "pong", c |-> f.c, n |-> f.n, hops |-> 1]
  BY <1>1 DEF Echoed
<1> QED BY <1>1, <1>2 DEF Frames

LEMMA EchoStep ==
  ASSUME IInv, NEW s \in Servers, NEW key \in Keys, Echo(s, key)
  PROVE  IInv'
<1> DEFINE t == sessions[s][key]
           f == Head(t.in)
           u == [t EXCEPT !.in = Tail(t.in)]
           p == [src |-> Host(s), dst |-> key.peer, id |-> t.tid, reply |-> TRUE, f |-> Echoed(f)]
<1>1. t \in Serving /\ key.id \in ClientIds /\ t.in # << >>
  BY DEF Echo, IInv, OnlyClients, Live, None
<1>2. f \in Fresh /\ Tail(t.in) \in Seq(Fresh)
  BY <1>1, ServingFields, HeadTailProperties
<1>3. Echoed(f) \in Frames /\ Echoed(f).k = "pong" /\ Echoed(f).hops <= 1
  BY <1>2, EchoedType
<1>4. Host(s) \in Hosts /\ key.peer \in Hosts
  BY HostType DEF Sockets, Keys
<1>5. p \in Wire
  BY <1>1, <1>3, <1>4, ServingFields DEF Wire, Packets
<1>6. u \in Serving
  BY <1>1, <1>2 DEF Serving
<1>7. /\ sessions' = [sessions EXCEPT ![s] = [sessions[s] EXCEPT ![key] = u]]
      /\ socket' = Transmit(socket, p)
  BY DEF Echo, IInv
<1> HIDE DEF u, p
<1>8. sessions' \in [Servers -> [Keys -> Serving \cup {None}]] /\ OnlyClients'
  BY <1>1, <1>6, <1>7, StoreType
<1>9. socket' \in [Sockets -> Seq(Wire)]
  BY <1>5, <1>7, TransmitType DEF IInv
<1> QED BY <1>8, <1>9 DEF Echo, IInv

LEMMA SendStep ==
  ASSUME IInv, NEW c \in Clients, Send(c)
  PROVE  IInv'
<1> DEFINE p == [src |-> Host(c), dst |-> ServerHost, id |-> ClientId[c], reply |-> FALSE,
                 f |-> [k |-> "ping", c |-> c, n |-> sent[c] + 1, hops |-> 0]]
<1>1. sent[c] + 1 \in 1 .. MaxPings
  BY RawCapAssumption DEF Send, IInv
<1>2. p.f \in Frames
  BY <1>1, RawCapAssumption DEF Frames
<1>3. p \in Wire
  BY <1>2, HostType, IdAssumption DEF Wire, Packets, ClientIds, Sockets
<1>4. socket' = Transmit(socket, p) /\ sent' = [sent EXCEPT ![c] = @ + 1] /\ UNCHANGED sessions
  BY DEF Send
<1> HIDE DEF p
<1>5. socket' \in [Sockets -> Seq(Wire)]
  BY <1>3, <1>4, TransmitType DEF IInv
<1> QED BY <1>1, <1>4, <1>5, RawCapAssumption DEF IInv, OnlyClients, Live

LEMMA InvStep == ~Collide /\ IInv /\ [Next]_vars => IInv'
<1> SUFFICES ASSUME ~Collide, IInv, [Next]_vars PROVE IInv'
  OBVIOUS
<1>1. ASSUME NEW y \in Sockets, Lose(y) PROVE IInv'
  BY <1>1, PoppedType DEF Lose, IInv, OnlyClients, Live
<1>2. ASSUME NEW s \in Servers, Ignore(s) PROVE IInv'
  BY <1>2, PoppedType DEF Ignore, IInv, OnlyClients, Live, Sockets
<1>3. ASSUME NEW s \in Servers, Route(s) PROVE IInv'
  BY <1>3, RouteStep
<1>4. ASSUME NEW s \in Servers, NEW tid \in Ids, Open(s, tid) PROVE IInv'
  BY <1>4, OpenStep
<1>5. ASSUME NEW s \in Servers, NEW key \in Keys, Accept(s, key) PROVE IInv'
  <2> DEFINE t == [sessions[s][key] EXCEPT !.st = "run"]
  <2>1. sessions[s][key] \in Serving /\ key.id \in ClientIds
    BY <1>5 DEF Accept, IInv, OnlyClients, Live, None
  <2>2. t \in Serving
    BY <2>1 DEF Serving
  <2>3. sessions' = [sessions EXCEPT ![s] = [sessions[s] EXCEPT ![key] = t]]
    BY <1>5 DEF Accept, IInv
  <2> HIDE DEF t
  <2> QED BY <1>5, <2>1, <2>2, <2>3, StoreType DEF Accept, IInv
<1>6. ASSUME NEW s \in Servers, NEW key \in Keys, Echo(s, key) PROVE IInv'
  BY <1>6, EchoStep
<1>7. ASSUME NEW s \in Servers, NEW key \in Keys, End(s, key) PROVE IInv'
  <2>1. sessions' = [sessions EXCEPT ![s] = [sessions[s] EXCEPT ![key] = None]]
    BY <1>7 DEF End, IInv
  <2> QED BY <1>7, <2>1, StoreType DEF End, IInv
<1>8. ASSUME NEW c \in Clients, Send(c) PROVE IInv'
  BY <1>8, SendStep
<1>9. ASSUME NEW c \in Clients, Read(c) PROVE IInv'
  BY <1>9, PoppedType DEF Read, IInv, OnlyClients, Live, Sockets
<1>10. CASE UNCHANGED vars
  BY <1>10 DEF vars, IInv, OnlyClients, Live
<1> QED BY <1>1, <1>2, <1>3, <1>4, <1>5, <1>6, <1>7, <1>8, <1>9, <1>10 DEF Next, Server

(* Every session serves a client (OnlyClients), whatever the number of     *)
(* servers that share the host, if no server draws an id of a client.      *)
THEOREM SessionsServeClients == ASSUME ~Collide PROVE Spec => []OnlyClients
<1>1. IInv => OnlyClients
  BY DEF IInv
<1>2. IInv /\ [Next]_vars => IInv'
  BY InvStep
<1> QED BY <1>1, <1>2, InvInit, PTL DEF Spec

(* No number of servers on one host ever echo each other's echoes, if no *)
(* server draws an id of a client (isClientProbe).                       *)
THEOREM NoEchoStorm == ASSUME ~Collide PROVE Spec => []NoEchoOfEcho
<1>1. IInv => NoEchoOfEcho
  <2> SUFFICES ASSUME IInv, NEW y \in Sockets, NEW i \in DOMAIN socket[y]
               PROVE  socket[y][i].f.hops <= 1
    BY DEF NoEchoOfEcho
  <2>1. socket[y] \in Seq(Wire)
    BY DEF IInv
  <2>2. socket[y][i] \in Wire
    BY <2>1, ElementOfSeq, LenProperties
  <2> QED BY <2>2 DEF Wire, Packets, Frames
<1>2. IInv /\ [Next]_vars => IInv'
  BY InvStep
<1> QED BY <1>1, <1>2, InvInit, PTL DEF Spec

-----------------------------------------------------------------------------
(* The ids a server filters; here a server may draw any id. *)

Table ==
  /\ sessions \in [Servers -> [Keys -> Tunnels \cup {None}]]
  /\ used \in [Servers -> SUBSET Ids]
  /\ socket \in [Sockets -> Seq(Packets)]
  /\ sent \in [Clients -> 0 .. MaxPings]

UInv == Table /\ UsedIsLive

LEMMA TunnelFields ==
  \A t \in Tunnels : t # None /\ t.tid \in Ids /\ t.in \in Seq(Frames)
BY DEF Tunnels, None

LEMMA PoppedPackets ==
  ASSUME Table, NEW y \in Sockets, socket[y] # << >>
  PROVE  Head(socket[y]) \in Packets /\ Popped(y) \in [Sockets -> Seq(Packets)]
<1>1. Head(socket[y]) \in Packets /\ Tail(socket[y]) \in Seq(Packets)
  BY HeadTailProperties DEF Table
<1> QED BY <1>1 DEF Table, Popped

LEMMA TransmitPackets ==
  ASSUME NEW b \in [Sockets -> Seq(Packets)], NEW p \in Packets
  PROVE  Transmit(b, p) \in [Sockets -> Seq(Packets)]
<1>1. ASSUME NEW a \in [Sockets -> Seq(Packets)], NEW q \in Packets
      PROVE  Received(a, q) \in [Sockets -> Seq(Packets)]
  <2>1. ASSUME NEW y \in Sockets PROVE Append(a[y], q) \in Seq(Packets)
    BY AppendProperties
  <2> QED BY <2>1 DEF Received
<1>2. AutoReply(p) \in Packets
  BY DEF AutoReply, Packets
<1> QED BY <1>1, <1>2 DEF Transmit

(* Changing a live session without changing its id changes nothing. *)
LEMMA SameIds ==
  ASSUME UInv, NEW s \in Servers, NEW key \in Keys, NEW t \in Tunnels,
         sessions[s][key] # None, t.tid = sessions[s][key].tid,
         sessions' = [sessions EXCEPT ![s] = [sessions[s] EXCEPT ![key] = t]], used' = used
  PROVE  UsedIsLive' /\ sessions' \in [Servers -> [Keys -> Tunnels \cup {None}]]
<1>1. sessions' \in [Servers -> [Keys -> Tunnels \cup {None}]]
  BY DEF UInv, Table, Tunnels
<1>2. ASSUME NEW r \in Servers, NEW k \in Keys
      PROVE  /\ sessions'[r][k] # None <=> sessions[r][k] # None
             /\ sessions[r][k] # None => sessions'[r][k].tid = sessions[r][k].tid
  <2>1. CASE r = s /\ k = key
    BY <2>1, TunnelFields DEF UInv, Table
  <2>2. CASE ~(r = s /\ k = key)
    <3>1. sessions'[r][k] = sessions[r][k]
      BY <2>2 DEF UInv, Table
    <3> QED BY <3>1
  <2> QED BY <2>1, <2>2
<1>3. \A r \in Servers : Live(r)' = Live(r)
  BY <1>2 DEF Live
<1>4. ASSUME NEW r \in Servers
      PROVE {sessions'[r][k].tid : k \in Live(r)'} = {sessions[r][k].tid : k \in Live(r)}
  <2>1. \A k \in Live(r) : sessions'[r][k].tid = sessions[r][k].tid
    BY <1>2 DEF Live
  <2> QED BY <1>3, <2>1
<1>5. ASSUME NEW r \in Servers, NEW k \in Live(r)', NEW l \in Live(r)',
             sessions'[r][k].tid = sessions'[r][l].tid
      PROVE  k = l
  <2>1. k \in Live(r) /\ l \in Live(r)
    BY <1>3
  <2>2. sessions'[r][k].tid = sessions[r][k].tid /\ sessions'[r][l].tid = sessions[r][l].tid
    BY <1>2, <2>1 DEF Live
  <2> QED BY <1>5, <2>1, <2>2 DEF UInv, UsedIsLive
<1>6. UsedIsLive'
  BY <1>4, <1>5 DEF UsedIsLive, UInv
<1> QED BY <1>1, <1>6

(* A new session under a new id. *)
LEMMA NewId ==
  ASSUME UInv, NEW s \in Servers, NEW key \in Keys, NEW t \in Tunnels,
         sessions[s][key] = None, t.tid \notin used[s],
         sessions' = [sessions EXCEPT ![s] = [sessions[s] EXCEPT ![key] = t]],
         used' = [used EXCEPT ![s] = used[s] \cup {t.tid}]
  PROVE  UsedIsLive' /\ sessions' \in [Servers -> [Keys -> Tunnels \cup {None}]]
<1>1. sessions' \in [Servers -> [Keys -> Tunnels \cup {None}]]
  BY DEF UInv, Table, Tunnels
<1>2. \A r \in Servers, k \in Keys :
        sessions'[r][k] = IF r = s /\ k = key THEN t ELSE sessions[r][k]
  BY DEF UInv, Table
<1>3. \A r \in Servers : r # s => Live(r)' = Live(r) /\ used'[r] = used[r]
  BY <1>2 DEF Live, UInv, Table
<1>4. Live(s)' = Live(s) \cup {key} /\ key \notin Live(s) /\ used'[s] = used[s] \cup {t.tid}
  BY <1>2, TunnelFields DEF Live, UInv, Table
<1>5. \A k \in Live(s) : sessions'[s][k] = sessions[s][k] /\ sessions[s][k].tid \in used[s]
  BY <1>2, <1>4 DEF Live, UInv, UsedIsLive
<1>6. ASSUME NEW r \in Servers
      PROVE  /\ used'[r] = {sessions'[r][k].tid : k \in Live(r)'}
             /\ \A k, l \in Live(r)' : sessions'[r][k].tid = sessions'[r][l].tid => k = l
  <2>1. CASE r = s
    <3>1. sessions'[s][key].tid = t.tid
      BY <1>2
    <3>2. used[s] = {sessions[s][k].tid : k \in Live(s)}
      BY DEF UInv, UsedIsLive
    <3>3. {sessions'[s][k].tid : k \in Live(s)'} = {sessions[s][k].tid : k \in Live(s)} \cup {t.tid}
      BY <1>4, <1>5, <3>1
    <3>4. \A k, l \in Live(s) : sessions'[s][k].tid = sessions'[s][l].tid => k = l
      BY <1>5 DEF UInv, UsedIsLive
    <3>5. \A k \in Live(s) : sessions'[s][k].tid # t.tid
      BY <1>5
    <3> QED BY <1>4, <2>1, <3>1, <3>2, <3>3, <3>4, <3>5
  <2>2. CASE r # s
    <3>1. \A k \in Live(r) : sessions'[r][k] = sessions[r][k]
      BY <1>2, <2>2 DEF Live
    <3> QED BY <1>3, <2>2, <3>1 DEF UInv, UsedIsLive
  <2> QED BY <2>1, <2>2
<1> QED BY <1>1, <1>6 DEF UsedIsLive

(* A session and its id go together. *)
LEMMA DropId ==
  ASSUME UInv, NEW s \in Servers, NEW key \in Keys, sessions[s][key] # None,
         sessions' = [sessions EXCEPT ![s] = [sessions[s] EXCEPT ![key] = None]],
         used' = [used EXCEPT ![s] = used[s] \ {sessions[s][key].tid}]
  PROVE  UsedIsLive' /\ sessions' \in [Servers -> [Keys -> Tunnels \cup {None}]]
<1>1. sessions' \in [Servers -> [Keys -> Tunnels \cup {None}]]
  BY DEF UInv, Table, Tunnels
<1>2. \A r \in Servers, k \in Keys :
        sessions'[r][k] = IF r = s /\ k = key THEN None ELSE sessions[r][k]
  BY DEF UInv, Table
<1>3. \A r \in Servers : r # s => Live(r)' = Live(r) /\ used'[r] = used[r]
  BY <1>2 DEF Live, UInv, Table
<1>4. /\ Live(s)' = Live(s) \ {key} /\ key \in Live(s)
      /\ used'[s] = used[s] \ {sessions[s][key].tid}
  BY <1>2 DEF Live, UInv, Table
<1>5. \A k \in Live(s)' : sessions'[s][k] = sessions[s][k]
  BY <1>2, <1>4 DEF Live
<1>6. ASSUME NEW r \in Servers
      PROVE  /\ used'[r] = {sessions'[r][k].tid : k \in Live(r)'}
             /\ \A k, l \in Live(r)' : sessions'[r][k].tid = sessions'[r][l].tid => k = l
  <2>1. CASE r = s
    <3>1. used[s] = {sessions[s][k].tid : k \in Live(s)}
      BY DEF UInv, UsedIsLive
    <3>2. \A k \in Live(s)' : sessions[s][k].tid # sessions[s][key].tid
      BY <1>4 DEF UInv, UsedIsLive
    <3>3. {sessions'[s][k].tid : k \in Live(s)'} = {sessions[s][k].tid : k \in Live(s)'}
      BY <1>5
    <3>4. {sessions[s][k].tid : k \in Live(s)'} = used[s] \ {sessions[s][key].tid}
      BY <1>4, <3>1, <3>2
    <3>5. \A k, l \in Live(s)' : sessions'[s][k].tid = sessions'[s][l].tid => k = l
      BY <1>4, <1>5 DEF UInv, UsedIsLive
    <3> QED BY <1>4, <2>1, <3>3, <3>4, <3>5
  <2>2. CASE r # s
    <3>1. \A k \in Live(r) : sessions'[r][k] = sessions[r][k]
      BY <1>2, <2>2 DEF Live
    <3> QED BY <1>3, <2>2, <3>1 DEF UInv, UsedIsLive
  <2> QED BY <2>1, <2>2
<1> QED BY <1>1, <1>6 DEF UsedIsLive

(* Where neither the table nor the ids change, only the packets matter. *)
LEMMA SameTable ==
  ASSUME UInv, UNCHANGED <<sessions, used>>
  PROVE  UsedIsLive' /\ sessions' \in [Servers -> [Keys -> Tunnels \cup {None}]]
BY DEF UInv, Table, UsedIsLive, Live, Tunnels

LEMMA UStep == UInv /\ [Next]_vars => UInv'
<1> SUFFICES ASSUME UInv, [Next]_vars PROVE UInv'
  OBVIOUS
<1> USE DEF Sockets
<1>1. ASSUME NEW y \in Sockets, Lose(y) PROVE UInv'
  BY <1>1, PoppedPackets, SameTable DEF Lose, UInv, Table, Tunnels
<1>2. ASSUME NEW s \in Servers, Ignore(s) PROVE UInv'
  BY <1>2, PoppedPackets, SameTable DEF Ignore, UInv, Table, Tunnels
<1>3. ASSUME NEW s \in Servers, Route(s) PROVE UInv'
  <2> DEFINE p == Head(socket[s])
             key == KeyOf(p)
             t == sessions[s][key]
             u == [t EXCEPT !.in = Append(t.in, p.f)]
  <2>1. p \in Packets /\ Popped(s) \in [Sockets -> Seq(Packets)]
    BY <1>3, PoppedPackets DEF Route, UInv
  <2>2. key \in Keys /\ p.f \in Frames
    BY <2>1 DEF Packets, KeyOf, Keys
  <2>3. t \in Tunnels /\ t # None
    BY <1>3, <2>2 DEF Route, UInv, Table, Tunnels
  <2>4. Append(t.in, p.f) \in Seq(Frames)
    BY <2>2, <2>3, TunnelFields, AppendProperties
  <2>5. u \in Tunnels /\ u.tid = t.tid
    BY <2>3, <2>4 DEF Tunnels
  <2>6. \/ sessions' = [sessions EXCEPT ![s] = [sessions[s] EXCEPT ![key] = u]]
        \/ sessions' = sessions
    BY <1>3 DEF Route, UInv, Table
  <2>7. used' = used /\ sent' = sent /\ socket' = Popped(s)
    BY <1>3 DEF Route
  <2> HIDE DEF u, key, p
  <2>8. UsedIsLive' /\ sessions' \in [Servers -> [Keys -> Tunnels \cup {None}]]
    BY <2>2, <2>3, <2>5, <2>6, <2>7, SameIds, SameTable
  <2> QED BY <2>1, <2>7, <2>8 DEF UInv, Table, Tunnels
<1>4. ASSUME NEW s \in Servers, NEW tid \in Ids, Open(s, tid) PROVE UInv'
  <2> DEFINE p == Head(socket[s])
             key == KeyOf(p)
             t == [st |-> "new", tid |-> tid, in |-> <<p.f>>]
  <2>1. p \in Packets /\ Popped(s) \in [Sockets -> Seq(Packets)]
    BY <1>4, PoppedPackets DEF Open, UInv
  <2>2. key \in Keys /\ p.f \in Frames
    BY <2>1 DEF Packets, KeyOf, Keys
  <2>3. t \in Tunnels
    BY <2>2 DEF Tunnels
  <2>4. sessions' = [sessions EXCEPT ![s] = [sessions[s] EXCEPT ![key] = t]]
    BY <1>4 DEF Open, UInv, Table
  <2>5. /\ sessions[s][key] = None /\ t.tid \notin used[s]
        /\ used' = [used EXCEPT ![s] = used[s] \cup {t.tid}]
    BY <1>4 DEF Open, FreshId
  <2>6. used' \in [Servers -> SUBSET Ids]
    BY <2>5 DEF UInv, Table
  <2>7. sent' = sent /\ socket' = Popped(s)
    BY <1>4 DEF Open
  <2> HIDE DEF t, key, p
  <2>8. UsedIsLive' /\ sessions' \in [Servers -> [Keys -> Tunnels \cup {None}]]
    BY <2>2, <2>3, <2>4, <2>5, NewId
  <2> QED BY <2>1, <2>6, <2>7, <2>8 DEF UInv, Table, Tunnels
<1>5. ASSUME NEW s \in Servers, NEW key \in Keys, Accept(s, key) PROVE UInv'
  <2> DEFINE t == [sessions[s][key] EXCEPT !.st = "run"]
  <2>1. sessions[s][key] \in Tunnels /\ sessions[s][key] # None
    BY <1>5 DEF Accept, UInv, Table, Tunnels, None
  <2>2. t \in Tunnels /\ t.tid = sessions[s][key].tid
    BY <2>1 DEF Tunnels
  <2>3. sessions' = [sessions EXCEPT ![s] = [sessions[s] EXCEPT ![key] = t]]
    BY <1>5 DEF Accept, UInv, Table
  <2>4. UNCHANGED <<socket, used, sent>>
    BY <1>5 DEF Accept
  <2> HIDE DEF t
  <2>5. UsedIsLive' /\ sessions' \in [Servers -> [Keys -> Tunnels \cup {None}]]
    BY <2>1, <2>2, <2>3, <2>4, SameIds
  <2> QED BY <2>4, <2>5 DEF UInv, Table, Tunnels
<1>6. ASSUME NEW s \in Servers, NEW key \in Keys, Echo(s, key) PROVE UInv'
  <2> DEFINE t == sessions[s][key]
             u == [t EXCEPT !.in = Tail(t.in)]
             p == [src |-> Host(s), dst |-> key.peer, id |-> t.tid, reply |-> TRUE,
                   f |-> Echoed(Head(t.in))]
  <2>1. t \in Tunnels /\ t # None /\ t.in # << >>
    BY <1>6 DEF Echo, UInv, Table, Tunnels, None
  <2>2. Head(t.in) \in Frames /\ Tail(t.in) \in Seq(Frames)
    BY <2>1, TunnelFields, HeadTailProperties
  <2>3. u \in Tunnels /\ u.tid = t.tid
    BY <2>1, <2>2 DEF Tunnels
  <2>4. Echoed(Head(t.in)) \in Frames
    <3>1. ASSUME NEW f \in Frames PROVE Echoed(f) \in Frames
      BY RawCapAssumption DEF Echoed, Frames
    <3> QED BY <2>2, <3>1
  <2>5. p \in Packets
    BY <2>1, <2>4, TunnelFields, HostType DEF Packets, Keys
  <2>6. /\ sessions' = [sessions EXCEPT ![s] = [sessions[s] EXCEPT ![key] = u]]
        /\ socket' = Transmit(socket, p) /\ used' = used /\ sent' = sent
    BY <1>6 DEF Echo, UInv, Table
  <2> HIDE DEF u, p
  <2>7. UsedIsLive' /\ sessions' \in [Servers -> [Keys -> Tunnels \cup {None}]]
    BY <2>1, <2>3, <2>6, SameIds
  <2>8. socket' \in [Sockets -> Seq(Packets)]
    BY <2>5, <2>6, TransmitPackets DEF UInv, Table
  <2> QED BY <2>6, <2>7, <2>8 DEF UInv, Table, Tunnels
<1>7. ASSUME NEW s \in Servers, NEW key \in Keys, End(s, key) PROVE UInv'
  <2>1. /\ sessions[s][key] # None
        /\ sessions' = [sessions EXCEPT ![s] = [sessions[s] EXCEPT ![key] = None]]
        /\ used' = [used EXCEPT ![s] = used[s] \ {sessions[s][key].tid}]
        /\ UNCHANGED <<socket, sent>>
    BY <1>7 DEF End, UInv, Table, None
  <2>2. UsedIsLive' /\ sessions' \in [Servers -> [Keys -> Tunnels \cup {None}]]
    BY <2>1, DropId
  <2>3. used' \in [Servers -> SUBSET Ids]
    BY <2>1 DEF UInv, Table
  <2> QED BY <2>1, <2>2, <2>3 DEF UInv, Table, Tunnels
<1>8. ASSUME NEW c \in Clients, Send(c) PROVE UInv'
  <2> DEFINE p == [src |-> Host(c), dst |-> ServerHost, id |-> ClientId[c], reply |-> FALSE,
                   f |-> [k |-> "ping", c |-> c, n |-> sent[c] + 1, hops |-> 0]]
  <2>1. sent[c] + 1 \in 1 .. MaxPings /\ sent' = [sent EXCEPT ![c] = @ + 1]
    BY <1>8, RawCapAssumption DEF Send, UInv, Table
  <2>2. p.f \in Frames
    BY <2>1, RawCapAssumption DEF Frames
  <2>3. p \in Packets
    BY <2>2, HostType, IdAssumption DEF Packets
  <2>4. socket' = Transmit(socket, p) /\ UNCHANGED <<sessions, used>>
    BY <1>8 DEF Send
  <2> HIDE DEF p
  <2>5. socket' \in [Sockets -> Seq(Packets)]
    BY <2>3, <2>4, TransmitPackets DEF UInv, Table
  <2>6. sent' \in [Clients -> 0 .. MaxPings]
    BY <2>1, RawCapAssumption DEF UInv, Table
  <2> QED BY <2>4, <2>5, <2>6, SameTable DEF UInv, Table, Tunnels
<1>9. ASSUME NEW c \in Clients, Read(c) PROVE UInv'
  BY <1>9, PoppedPackets, SameTable DEF Read, UInv, Table, Tunnels
<1>10. CASE UNCHANGED vars
  BY <1>10, SameTable DEF vars, UInv, Table, Tunnels
<1> QED BY <1>1, <1>2, <1>3, <1>4, <1>5, <1>6, <1>7, <1>8, <1>9, <1>10 DEF Next, Server

(* A server filters exactly the ids of its live tunnels, all different     *)
(* (removeSession), whatever ids are drawn.                                *)
THEOREM UsedAreLive == Spec => []UsedIsLive
<1>1. Init => UInv
  BY RawCapAssumption DEF Init, UInv, Table, UsedIsLive, Live
<1>2. UInv /\ [Next]_vars => UInv'
  BY UStep
<1>3. UInv => UsedIsLive
  BY DEF UInv
<1> QED BY <1>1, <1>2, <1>3, PTL DEF Spec

-----------------------------------------------------------------------------
(* What becomes of a probe, where one server listens. *)

(* A queue holds one of the things in X, or at most one of them. *)
Has(q, X) == \E i \in DOMAIN q : q[i] \in X
Single(q, X) == \A i, j \in DOMAIN q : q[i] \in X /\ q[j] \in X => i = j

LEMMA AppendHas ==
  ASSUME NEW T, NEW q \in Seq(T), NEW e \in T, NEW X
  PROVE  /\ Append(q, e) \in Seq(T)
         /\ Has(Append(q, e), X) => Has(q, X) \/ e \in X
         /\ Single(q, X) /\ (e \in X => ~Has(q, X)) => Single(Append(q, e), X)
<1>1. /\ Append(q, e) \in Seq(T) /\ Len(Append(q, e)) = Len(q) + 1 /\ Len(q) \in Nat
      /\ \A i \in 1 .. Len(q) : Append(q, e)[i] = q[i]
      /\ Append(q, e)[Len(q) + 1] = e
  BY AppendProperties
<1>2. DOMAIN q = 1 .. Len(q) /\ DOMAIN Append(q, e) = 1 .. Len(q) + 1
  BY <1>1
<1>3. \A i \in DOMAIN Append(q, e) : \/ i \in DOMAIN q /\ Append(q, e)[i] = q[i]
                                     \/ i = Len(q) + 1 /\ Append(q, e)[i] = e
  BY <1>1, <1>2
<1>4. Has(Append(q, e), X) => Has(q, X) \/ e \in X
  BY <1>3 DEF Has
<1>5. ASSUME Single(q, X), e \in X => ~Has(q, X),
             NEW i \in DOMAIN Append(q, e), NEW j \in DOMAIN Append(q, e),
             Append(q, e)[i] \in X, Append(q, e)[j] \in X
      PROVE  i = j
  BY <1>3, <1>5 DEF Single, Has
<1> QED BY <1>1, <1>4, <1>5 DEF Single

LEMMA TailHas ==
  ASSUME NEW T, NEW q \in Seq(T), q # << >>, NEW X
  PROVE  /\ Head(q) \in T /\ Tail(q) \in Seq(T)
         /\ Head(q) \in X => Has(q, X)
         /\ Has(Tail(q), X) => Has(q, X)
         /\ Single(q, X) => Single(Tail(q), X)
         /\ Single(q, X) /\ Head(q) \in X => ~Has(Tail(q), X)
<1>1. /\ Head(q) \in T /\ Tail(q) \in Seq(T) /\ Len(Tail(q)) = Len(q) - 1
      /\ \A i \in 1 .. Len(Tail(q)) : Tail(q)[i] = q[i + 1]
  BY HeadTailProperties
<1>2. /\ Len(q) \in Nat /\ DOMAIN q = 1 .. Len(q) /\ DOMAIN Tail(q) = 1 .. Len(Tail(q))
      /\ 1 \in DOMAIN q /\ Head(q) = q[1]
  BY <1>1
<1>3. \A i \in DOMAIN Tail(q) : i \in Nat \ {0} /\ i + 1 \in DOMAIN q /\ Tail(q)[i] = q[i + 1]
  BY <1>1, <1>2
<1>4. (Head(q) \in X => Has(q, X)) /\ (Has(Tail(q), X) => Has(q, X))
  BY <1>2, <1>3 DEF Has
<1>5. ASSUME Single(q, X), NEW i \in DOMAIN Tail(q), Tail(q)[i] \in X
      PROVE  Head(q) \notin X /\ \A j \in DOMAIN Tail(q) : Tail(q)[j] \in X => i = j
  <2>1. q[i + 1] \in X /\ i + 1 \in DOMAIN q /\ i \in Nat \ {0}
    BY <1>3, <1>5
  <2>2. ASSUME Head(q) \in X PROVE FALSE
    <3>1. i + 1 = 1
      BY <1>2, <1>5, <2>1, <2>2 DEF Single
    <3> QED BY <2>1, <3>1
  <2>3. ASSUME NEW j \in DOMAIN Tail(q), Tail(q)[j] \in X PROVE i = j
    <3>1. q[j + 1] \in X /\ j + 1 \in DOMAIN q /\ j \in Nat
      BY <1>3, <2>3
    <3>2. i + 1 = j + 1
      BY <1>5, <2>1, <3>1 DEF Single
    <3> QED BY <2>1, <3>1, <3>2
  <2> QED BY <2>2, <2>3
<1> QED BY <1>1, <1>4, <1>5 DEF Single, Has

LEMMA TransmitHas ==
  ASSUME NEW b \in [Sockets -> Seq(Wire)], NEW p \in Wire, NEW X, NEW y \in Sockets,
         Directional /\ ~p.reply => AutoReply(p) \notin X
  PROVE  /\ Has(Transmit(b, p)[y], X) => Has(b[y], X) \/ p \in X
         /\ Single(b[y], X) /\ (p \in X => ~Has(b[y], X)) => Single(Transmit(b, p)[y], X)
<1>1. ASSUME NEW a \in [Sockets -> Seq(Wire)], NEW q \in Wire
      PROVE  /\ Received(a, q) \in [Sockets -> Seq(Wire)]
             /\ Has(Received(a, q)[y], X) => Has(a[y], X) \/ q \in X
             /\ Single(a[y], X) /\ (q \in X => ~Has(a[y], X)) => Single(Received(a, q)[y], X)
  <2>1. Received(a, q)[y] = a[y] \/ Received(a, q)[y] = Append(a[y], q)
    BY DEF Received
  <2>2. Received(a, q) \in [Sockets -> Seq(Wire)] /\ a[y] \in Seq(Wire)
    BY ReceivedType
  <2>3. CASE Received(a, q)[y] = a[y]
    BY <2>2, <2>3
  <2>4. CASE Received(a, q)[y] = Append(a[y], q)
    <3>1. /\ Has(Append(a[y], q), X) => Has(a[y], X) \/ q \in X
          /\ Single(a[y], X) /\ (q \in X => ~Has(a[y], X)) => Single(Append(a[y], q), X)
      BY <2>2, AppendHas
    <3> QED BY <2>2, <2>4, <3>1
  <2> QED BY <2>1, <2>3, <2>4
<1>2. CASE Directional /\ ~p.reply
  <2>1. AutoReply(p) \in Wire /\ AutoReply(p) \notin X
    BY <1>2 DEF AutoReply, Wire, Packets
  <2>2. Transmit(b, p) = Received(Received(b, p), AutoReply(p))
    BY <1>2 DEF Transmit
  <2> QED BY <1>1, <2>1, <2>2
<1>3. CASE ~(Directional /\ ~p.reply)
  BY <1>1, <1>3 DEF Transmit
<1> QED BY <1>2, <1>3

(* The life of probe n of client d at the server s: its ping waits in the  *)
(* server's buffer, then in the channel of one session, then its echo is   *)
(* heard, that is, waits for clients or was counted by them.  The copies   *)
(* that the kernel made of pings are none: a server does not hear them.    *)
Pings(d, n) == {p \in Wire : p.f.k = "ping" /\ p.f.c = d /\ p.f.n = n /\ ~(Directional /\ p.reply)}
Pongs(d, n) == {p \in Wire : p.f.k = "pong" /\ p.f.c = d /\ p.f.n = n}
Probes(d, n) == {f \in Fresh : f.c = d /\ f.n = n}

Waits(s, d, n) == Has(socket[s], Pings(d, n))
Held(s, key, d, n) == sessions[s][key] # None /\ Has(sessions[s][key].in, Probes(d, n))
Heard(c, d, n) == Has(socket[c], Pongs(d, n)) \/ answers[c][d][n] # 0

(* Nowhere is the probe there twice, and it is in one stage at a time. *)
Lone(s, d, n) ==
  /\ Single(socket[s], Pings(d, n))
  /\ \A key \in Keys : sessions[s][key] # None => Single(sessions[s][key].in, Probes(d, n))
  /\ \A c \in Clients : /\ Single(socket[c], Pongs(d, n)) /\ answers[c][d][n] \in {0, 1}
                        /\ answers[c][d][n] = 1 => ~Has(socket[c], Pongs(d, n))

Stages(s, d, n) ==
  /\ Waits(s, d, n) => /\ n <= sent[d]
                       /\ \A key \in Keys : ~Held(s, key, d, n)
                       /\ \A c \in Clients : ~Heard(c, d, n)
  /\ \A key \in Keys : Held(s, key, d, n) =>
       /\ n <= sent[d]
       /\ \A other \in Keys : Held(s, other, d, n) => other = key
       /\ \A c \in Clients : ~Heard(c, d, n)
  /\ \A c \in Clients : Heard(c, d, n) => n <= sent[d]

Tally == [Clients -> [1 .. MaxPings -> Nat]]
Counts == answers \in [Clients -> Tally]

(* A step that moves the probe to no further stage. *)
LEMMA StagesKept ==
  ASSUME NEW s \in Servers, NEW d \in Clients, NEW n \in 1 .. MaxPings, Stages(s, d, n),
         Waits(s, d, n)' => Waits(s, d, n),
         \A key \in Keys : Held(s, key, d, n)' => Held(s, key, d, n),
         \A c \in Clients : Heard(c, d, n)' => Heard(c, d, n),
         n <= sent[d] => n <= sent'[d]
  PROVE  Stages(s, d, n)'
<1>1. Waits(s, d, n)' => /\ n <= sent'[d]
                         /\ \A key \in Keys : ~Held(s, key, d, n)'
                         /\ \A c \in Clients : ~Heard(c, d, n)'
  BY DEF Stages
<1>2. ASSUME NEW key \in Keys, Held(s, key, d, n)'
      PROVE  /\ n <= sent'[d]
             /\ \A other \in Keys : Held(s, other, d, n)' => other = key
             /\ \A c \in Clients : ~Heard(c, d, n)'
  BY <1>2 DEF Stages
<1>3. \A c \in Clients : Heard(c, d, n)' => n <= sent'[d]
  BY DEF Stages
<1> QED BY <1>1, <1>2, <1>3 DEF Stages

(* What the removal of the first packet of a buffer leaves. *)
LEMMA PoppedHas ==
  ASSUME IInv, NEW y \in Sockets, socket[y] # << >>, socket' = Popped(y), NEW z \in Sockets, NEW X
  PROVE  /\ Has(socket'[z], X) => Has(socket[z], X)
         /\ Single(socket[z], X) => Single(socket'[z], X)
         /\ z = y /\ Head(socket[y]) \in X => Has(socket[y], X)
         /\ z = y /\ Head(socket[y]) \in X /\ Single(socket[y], X) => ~Has(socket'[y], X)
<1>1. socket[y] \in Seq(Wire) /\ socket'[y] = Tail(socket[y]) /\ (z # y => socket'[z] = socket[z])
  BY DEF IInv, Popped
<1>2. /\ Head(socket[y]) \in X => Has(socket[y], X)
      /\ Has(Tail(socket[y]), X) => Has(socket[y], X)
      /\ Single(socket[y], X) => Single(Tail(socket[y]), X)
      /\ Single(socket[y], X) /\ Head(socket[y]) \in X => ~Has(Tail(socket[y]), X)
  BY <1>1, TailHas
<1> QED BY <1>1, <1>2

(* A step that takes a packet out of a buffer, and nothing else. *)
LEMMA DropStep ==
  ASSUME IInv, NEW s \in Servers, NEW d \in Clients, NEW n \in 1 .. MaxPings,
         Lone(s, d, n), Stages(s, d, n), NEW y \in Sockets, socket[y] # << >>, socket' = Popped(y),
         UNCHANGED <<sessions, sent, answers>>
  PROVE  Lone(s, d, n)' /\ Stages(s, d, n)'
<1>1. \A z \in Sockets : /\ Has(socket'[z], Pings(d, n)) => Has(socket[z], Pings(d, n))
                         /\ Has(socket'[z], Pongs(d, n)) => Has(socket[z], Pongs(d, n))
                         /\ Single(socket[z], Pings(d, n)) => Single(socket'[z], Pings(d, n))
                         /\ Single(socket[z], Pongs(d, n)) => Single(socket'[z], Pongs(d, n))
  BY PoppedHas
<1>2. Lone(s, d, n)'
  BY <1>1 DEF Lone, Sockets
<1>3. Waits(s, d, n)' => Waits(s, d, n)
  BY <1>1 DEF Waits, Sockets
<1>4. \A key \in Keys : Held(s, key, d, n)' => Held(s, key, d, n)
  BY DEF Held
<1>5. \A c \in Clients : Heard(c, d, n)' => Heard(c, d, n)
  BY <1>1 DEF Heard, Sockets
<1> QED BY <1>2, <1>3, <1>4, <1>5, StagesKept

(* Accept starts a session, End ends one. *)
LEMMA TableStep ==
  ASSUME IInv, NEW s \in Servers, NEW d \in Clients, NEW n \in 1 .. MaxPings,
         Lone(s, d, n), Stages(s, d, n), NEW key \in Keys, Accept(s, key) \/ End(s, key)
  PROVE  Lone(s, d, n)' /\ Stages(s, d, n)'
<1>1. UNCHANGED <<socket, sent, answers>>
  BY DEF Accept, End
<1>2. ASSUME NEW k \in Keys, sessions'[s][k] # None
      PROVE  sessions[s][k] # None /\ sessions'[s][k].in = sessions[s][k].in
  <2>1. sessions[s] \in [Keys -> Serving \cup {None}] /\ s \in DOMAIN sessions
    BY DEF IInv
  <2>2. CASE k # key
    BY <1>2, <2>1, <2>2 DEF Accept, End
  <2>3. CASE k = key /\ End(s, key)
    BY <1>2, <2>1, <2>3 DEF End
  <2>4. CASE k = key /\ Accept(s, key)
    <3>1. sessions[s][key] \in Serving
      BY <2>1, <2>4 DEF Accept, None
    <3>2. sessions'[s][key] = [sessions[s][key] EXCEPT !.st = "run"]
      BY <2>1, <2>4 DEF Accept
    <3> QED BY <2>4, <3>1, <3>2, ServingFields DEF Serving
  <2> QED BY <2>2, <2>3, <2>4
<1>3. Lone(s, d, n)'
  BY <1>1, <1>2 DEF Lone
<1>4. Waits(s, d, n)' => Waits(s, d, n)
  BY <1>1 DEF Waits
<1>5. \A k \in Keys : Held(s, k, d, n)' => Held(s, k, d, n)
  BY <1>2 DEF Held
<1>6. \A c \in Clients : Heard(c, d, n)' => Heard(c, d, n)
  BY <1>1 DEF Heard
<1> QED BY <1>1, <1>3, <1>4, <1>5, <1>6, StagesKept

(* A client sends its next probe, which nobody knows of yet. *)
LEMMA ProbeStep ==
  ASSUME IInv, NEW s \in Servers, NEW d \in Clients, NEW n \in 1 .. MaxPings,
         Lone(s, d, n), Stages(s, d, n), NEW c \in Clients, Send(c)
  PROVE  Lone(s, d, n)' /\ Stages(s, d, n)'
<1> DEFINE p == [src |-> Host(c), dst |-> ServerHost, id |-> ClientId[c], reply |-> FALSE,
                 f |-> [k |-> "ping", c |-> c, n |-> sent[c] + 1, hops |-> 0]]
<1>1. sent[c] \in Nat /\ sent[c] + 1 \in 1 .. MaxPings /\ sent[d] \in Nat /\ n \in Nat
  BY RawCapAssumption DEF Send, IInv
<1>2. p.f \in Frames
  BY <1>1, RawCapAssumption DEF Frames
<1>3. p \in Wire /\ p \notin Pongs(d, n) /\ (p \in Pings(d, n) => d = c /\ n = sent[c] + 1)
  BY <1>2, HostType, IdAssumption DEF Wire, Packets, ClientIds, Sockets, Pongs, Pings
<1>4. socket' = Transmit(socket, p) /\ UNCHANGED <<sessions, answers>>
  BY DEF Send
<1>5. sent'[d] = (IF c = d THEN sent[d] + 1 ELSE sent[d]) /\ sent'[d] \in Nat /\ sent[d] <= sent'[d]
  BY <1>1 DEF Send, IInv
<1>6. AutoReply(p) \notin Pings(d, n) \cup Pongs(d, n) \/ ~Directional
  BY DEF AutoReply, Pings, Pongs
<1>7. socket \in [Sockets -> Seq(Wire)] /\ s \in Sockets /\ Clients \subseteq Sockets
  BY DEF IInv, Sockets
<1> HIDE DEF p
<1>8. /\ Waits(s, d, n)' => Waits(s, d, n) \/ p \in Pings(d, n)
      /\ Single(socket[s], Pings(d, n)) /\ (p \in Pings(d, n) => ~Waits(s, d, n)) => Single(socket'[s], Pings(d, n))
  BY <1>3, <1>4, <1>6, <1>7, TransmitHas DEF Waits
<1>9. ASSUME NEW e \in Clients
      PROVE  /\ Has(socket'[e], Pongs(d, n)) => Has(socket[e], Pongs(d, n))
             /\ Single(socket[e], Pongs(d, n)) => Single(socket'[e], Pongs(d, n))
  BY <1>3, <1>4, <1>6, <1>7, TransmitHas
<1>10. p \in Pings(d, n) => /\ ~Waits(s, d, n) /\ n <= sent'[d]
                            /\ \A key \in Keys : ~Held(s, key, d, n)
                            /\ \A e \in Clients : ~Heard(e, d, n)
  BY <1>1, <1>3, <1>5 DEF Stages
<1>11. Lone(s, d, n)'
  BY <1>4, <1>8, <1>9, <1>10 DEF Lone
<1>12. \A key \in Keys : Held(s, key, d, n)' => Held(s, key, d, n)
  BY <1>4 DEF Held
<1>13. \A e \in Clients : Heard(e, d, n)' => Heard(e, d, n)
  BY <1>4, <1>9 DEF Heard
<1>14. CASE p \notin Pings(d, n)
  BY <1>1, <1>5, <1>8, <1>11, <1>12, <1>13, <1>14, StagesKept
<1>15. CASE p \in Pings(d, n)
  <2>1. /\ n <= sent'[d]
        /\ \A key \in Keys : ~Held(s, key, d, n)'
        /\ \A e \in Clients : ~Heard(e, d, n)'
    BY <1>10, <1>12, <1>13, <1>15
  <2> QED BY <1>11, <2>1 DEF Stages
<1> QED BY <1>14, <1>15

(* One entry of answers counted up. *)
CountUp(c, d, n) == answers' = [answers EXCEPT ![c][d][n] = @ + 1]

LEMMA CountOne ==
  ASSUME Counts, NEW c \in Clients, NEW d \in Clients, NEW n \in 1 .. MaxPings, CountUp(c, d, n)
  PROVE  /\ Counts'
         /\ \A e \in Clients, o \in Clients, m \in 1 .. MaxPings :
              answers'[e][o][m] = IF e = c /\ o = d /\ m = n THEN answers[e][o][m] + 1 ELSE answers[e][o][m]
<1> DEFINE row == [answers[c][d] EXCEPT ![n] = answers[c][d][n] + 1]
           table == [answers[c] EXCEPT ![d] = row]
<1>1. answers[c] \in Tally /\ answers[c][d] \in [1 .. MaxPings -> Nat]
  BY DEF Counts, Tally
<1>2. answers[c][d][n] \in Nat
  BY <1>1
<1>3. /\ row \in [1 .. MaxPings -> Nat]
      /\ \A m \in 1 .. MaxPings : row[m] = IF m = n THEN answers[c][d][m] + 1 ELSE answers[c][d][m]
  <2> DEFINE a == answers[c][d]
  <2>1. a \in [1 .. MaxPings -> Nat] /\ a[n] \in Nat
    BY <1>1, <1>2
  <2> HIDE DEF a
  <2>2. [a EXCEPT ![n] = a[n] + 1] \in [1 .. MaxPings -> Nat]
    BY <2>1
  <2>3. \A m \in 1 .. MaxPings : [a EXCEPT ![n] = a[n] + 1][m] = IF m = n THEN a[m] + 1 ELSE a[m]
    BY <2>1
  <2> QED BY <2>2, <2>3 DEF a
<1>4. answers' = [answers EXCEPT ![c] = table]
  BY DEF CountUp
<1> HIDE DEF row
<1>5. /\ table \in Tally
      /\ \A o \in Clients : table[o] = IF o = d THEN row ELSE answers[c][o]
  BY <1>1, <1>3 DEF Tally
<1> HIDE DEF table
<1>6. Counts' /\ \A e \in Clients : answers'[e] = IF e = c THEN table ELSE answers[e]
  BY <1>4, <1>5 DEF Counts
<1>7. ASSUME NEW e \in Clients, NEW o \in Clients, NEW m \in 1 .. MaxPings
      PROVE  answers'[e][o][m] = IF e = c /\ o = d /\ m = n THEN answers[e][o][m] + 1 ELSE answers[e][o][m]
  <2>1. CASE e # c
    BY <1>6, <2>1
  <2>2. CASE e = c /\ o # d
    <3>1. answers'[e] = table /\ table[o] = answers[c][o]
      BY <1>5, <1>6, <2>2
    <3> QED BY <2>2, <3>1
  <2>3. CASE e = c /\ o = d
    <3>1. answers'[e] = table /\ table[o] = row
      BY <1>5, <1>6, <2>3
    <3> QED BY <1>3, <2>3, <3>1
  <2> QED BY <2>1, <2>2, <2>3
<1> QED BY <1>6, <1>7

(* A client reads a packet: an echo of the probe is counted, and gone. *)
LEMMA ReadStep ==
  ASSUME IInv, Counts, NEW s \in Servers, NEW d \in Clients, NEW n \in 1 .. MaxPings,
         Lone(s, d, n), Stages(s, d, n), NEW c \in Clients, Read(c)
  PROVE  Lone(s, d, n)' /\ Stages(s, d, n)'
<1> DEFINE p == Head(socket[c])
           counted == ~Skipped(c, p) /\ p.f.k = "pong"
<1>0. p \in Wire
  BY PoppedType DEF Read, Sockets
<1> HIDE DEF p
<1>1. p \in Wire /\ p.f \in Frames /\ p.f.c \in Clients /\ p.f.n \in 1 .. MaxPings
  <2>1. p.f \in Frames
    BY <1>0 DEF Wire, Packets
  <2> QED BY <1>0, <2>1 DEF Frames
<1>2. socket' = Popped(c) /\ socket[c] # << >> /\ UNCHANGED <<sessions, sent>>
  BY DEF Read
<1>3. s \in Sockets /\ Clients \subseteq Sockets /\ Servers \cap Clients = {}
  BY SocketAssumption DEF Sockets
<1>4. ASSUME NEW z \in Sockets
      PROVE  /\ Has(socket'[z], Pings(d, n)) => Has(socket[z], Pings(d, n))
             /\ Has(socket'[z], Pongs(d, n)) => Has(socket[z], Pongs(d, n))
             /\ Single(socket[z], Pings(d, n)) => Single(socket'[z], Pings(d, n))
             /\ Single(socket[z], Pongs(d, n)) => Single(socket'[z], Pongs(d, n))
  <2>1. c \in Sockets
    BY <1>3
  <2>2. /\ Has(socket'[z], Pings(d, n)) => Has(socket[z], Pings(d, n))
        /\ Single(socket[z], Pings(d, n)) => Single(socket'[z], Pings(d, n))
    BY <1>2, <2>1, PoppedHas
  <2>3. /\ Has(socket'[z], Pongs(d, n)) => Has(socket[z], Pongs(d, n))
        /\ Single(socket[z], Pongs(d, n)) => Single(socket'[z], Pongs(d, n))
    BY <1>2, <2>1, PoppedHas
  <2> QED BY <2>2, <2>3
<1>5. p \in Pongs(d, n) => Has(socket[c], Pongs(d, n)) /\ ~Has(socket'[c], Pongs(d, n))
  BY <1>2, <1>3, PoppedHas DEF Lone, p
<1>6. ASSUME NEW e \in Clients
      PROVE  IF counted /\ e = c /\ p \in Pongs(d, n) THEN answers'[e][d][n] = answers[e][d][n] + 1
                                                      ELSE answers'[e][d][n] = answers[e][d][n]
  <2>1. CASE ~counted
    BY <2>1, Zenon DEF Read, p
  <2>2. CASE counted
    <3>1. CountUp(c, p.f.c, p.f.n)
      BY <2>2 DEF Read, CountUp, p
    <3>2. p \in Pongs(d, n) <=> p.f.c = d /\ p.f.n = n
      BY <1>1, <2>2 DEF Pongs
    <3>3. PICK o \in Clients, m \in 1 .. MaxPings : o = p.f.c /\ m = p.f.n
      BY <1>1
    <3>4. CountUp(c, o, m)
      BY <3>1, <3>3
    <3>5. \A b \in Clients, x \in Clients, i \in 1 .. MaxPings :
            answers'[b][x][i] = IF b = c /\ x = o /\ i = m THEN answers[b][x][i] + 1 ELSE answers[b][x][i]
      BY <3>4, CountOne
    <3> QED BY <2>2, <3>2, <3>3, <3>5
  <2> QED BY <2>1, <2>2
<1> HIDE DEF counted
<1>7. \A e \in Clients : Heard(e, d, n)' => Heard(e, d, n)
  BY <1>3, <1>4, <1>5, <1>6 DEF Heard
<1>8. ASSUME NEW e \in Clients
      PROVE  /\ Single(socket'[e], Pongs(d, n)) /\ answers'[e][d][n] \in {0, 1}
             /\ answers'[e][d][n] = 1 => ~Has(socket'[e], Pongs(d, n))
  <2>1. CASE counted /\ e = c /\ p \in Pongs(d, n)
    BY <1>3, <1>4, <1>5, <1>6, <2>1 DEF Lone
  <2>2. CASE ~(counted /\ e = c /\ p \in Pongs(d, n))
    BY <1>3, <1>4, <1>6, <2>2 DEF Lone
  <2> QED BY <2>1, <2>2
<1>9. Lone(s, d, n)'
  BY <1>2, <1>3, <1>4, <1>8 DEF Lone
<1>10. (Waits(s, d, n)' => Waits(s, d, n)) /\ \A key \in Keys : Held(s, key, d, n)' => Held(s, key, d, n)
  BY <1>2, <1>3, <1>4 DEF Waits, Held
<1> QED BY <1>2, <1>7, <1>9, <1>10, StagesKept

LEMMA CountsStep == IInv /\ Counts /\ [Next]_vars => Counts'
<1> SUFFICES ASSUME IInv, Counts, [Next]_vars PROVE Counts'
  OBVIOUS
<1>1. ASSUME NEW c \in Clients, Read(c) PROVE Counts'
  <2> DEFINE p == Head(socket[c])
  <2>1. p.f.c \in Clients /\ p.f.n \in 1 .. MaxPings
    <3>1. p \in Wire
      BY <1>1, PoppedType DEF Read, Sockets
    <3> HIDE DEF p
    <3>2. p.f \in Frames
      BY <3>1 DEF Wire, Packets
    <3> QED BY <3>2 DEF Frames
  <2>2. CASE answers' = answers
    BY <2>2 DEF Counts
  <2>3. CASE CountUp(c, p.f.c, p.f.n)
    <3> HIDE DEF p
    <3> QED BY <2>1, <2>3, CountOne
  <2> QED BY <1>1, <2>2, <2>3, Zenon DEF Read, CountUp
<1>2. CASE UNCHANGED answers
  BY <1>2 DEF Counts
<1>3. CASE \E s \in Servers : Server(s)
  BY <1>2, <1>3, Zenon DEF Server, Ignore, Route, Open, Accept, Echo, End
<1> QED BY <1>1, <1>2, <1>3 DEF Next, vars, Lose, Send

(* The dispatcher takes a packet a session is to get: a ping on its way in *)
(* is Head, a frame that may enter a channel is its.                       *)
LEMMA HeadIsPing ==
  ASSUME IInv, NEW s \in Servers, NEW d \in Clients, NEW n \in 1 .. MaxPings, socket[s] # << >>,
         ~Foreign(s, Head(socket[s])), Head(socket[s]).id \in ClientIds
  PROVE  Head(socket[s]).f \in Probes(d, n) <=> Head(socket[s]) \in Pings(d, n)
<1> DEFINE p == Head(socket[s])
<1>1. p \in Wire
  BY PoppedType DEF Sockets
<1>2. p.f \in Frames /\ p.f.k = "ping" /\ p.f.hops = 0 /\ ~(Directional /\ p.reply)
  BY <1>1 DEF Wire, Packets, Foreign
<1> HIDE DEF p
<1>3. p.f \in Probes(d, n) <=> p.f.c = d /\ p.f.n = n
  BY <1>2 DEF Probes, Fresh
<1>4. p \in Pings(d, n) <=> p.f.c = d /\ p.f.n = n
  BY <1>1, <1>2 DEF Pings
<1> QED BY <1>3, <1>4 DEF p

(* A packet moves from the buffer to the channel of a session: what is     *)
(* there of the probe was there before, or came with the packet.           *)
LEMMA MoveStep ==
  ASSUME IInv, NEW s \in Servers, NEW d \in Clients, NEW n \in 1 .. MaxPings,
         Lone(s, d, n), Stages(s, d, n), socket[s] # << >>, socket' = Popped(s),
         UNCHANGED <<sent, answers>>, NEW key \in Keys,
         \A k \in Keys \ {key} : sessions'[s][k] = sessions[s][k],
         Held(s, key, d, n)' => Held(s, key, d, n) \/ Head(socket[s]) \in Pings(d, n),
         /\ sessions[s][key] # None => Single(sessions[s][key].in, Probes(d, n))
         /\ Head(socket[s]) \in Pings(d, n) => ~Held(s, key, d, n)
         => (sessions'[s][key] # None => Single(sessions'[s][key].in, Probes(d, n)))
  PROVE  Lone(s, d, n)' /\ Stages(s, d, n)'
<1> DEFINE ping == Head(socket[s]) \in Pings(d, n)
<1>1. s \in Sockets /\ Clients \subseteq Sockets
  BY DEF Sockets
<1>2. /\ Waits(s, d, n)' => Waits(s, d, n)
      /\ Single(socket[s], Pings(d, n)) => Single(socket'[s], Pings(d, n))
      /\ ping => Waits(s, d, n)
      /\ ping /\ Single(socket[s], Pings(d, n)) => ~Waits(s, d, n)'
  BY <1>1, PoppedHas DEF Waits
<1>3. ASSUME NEW c \in Clients
      PROVE  /\ Has(socket'[c], Pongs(d, n)) => Has(socket[c], Pongs(d, n))
             /\ Single(socket[c], Pongs(d, n)) => Single(socket'[c], Pongs(d, n))
  BY <1>1, PoppedHas
<1> HIDE DEF ping
<1>4. \A c \in Clients : Heard(c, d, n)' => Heard(c, d, n)
  BY <1>3 DEF Heard
<1>5. ping => /\ n <= sent[d]
              /\ \A k \in Keys : ~Held(s, k, d, n)
              /\ \A c \in Clients : ~Heard(c, d, n)
  BY <1>2 DEF Stages
<1>6. sessions'[s][key] # None => Single(sessions'[s][key].in, Probes(d, n))
  BY <1>5 DEF Lone, ping
<1>7. Lone(s, d, n)'
  BY <1>2, <1>3, <1>6 DEF Lone
<1>8. \A k \in Keys \ {key} : Held(s, k, d, n)' => Held(s, k, d, n)
  BY DEF Held
<1>9. CASE ~ping
  <2>1. \A k \in Keys : Held(s, k, d, n)' => Held(s, k, d, n)
    BY <1>8, <1>9 DEF ping
  <2> QED BY <1>2, <1>4, <1>7, <2>1, StagesKept
<1>10. CASE ping
  <2>1. ~Waits(s, d, n)'
    BY <1>2, <1>10 DEF Lone
  <2>2. \A k \in Keys : Held(s, k, d, n)' => k = key
    BY <1>5, <1>8, <1>10
  <2>3. (\A c \in Clients : ~Heard(c, d, n)') /\ n <= sent'[d]
    BY <1>4, <1>5, <1>10
  <2> QED BY <1>7, <2>1, <2>2, <2>3 DEF Stages
<1> QED BY <1>9, <1>10

LEMMA ArrivalStep ==
  ASSUME ~Collide, IInv, NEW s \in Servers, NEW d \in Clients, NEW n \in 1 .. MaxPings,
         Lone(s, d, n), Stages(s, d, n), Route(s) \/ \E tid \in Ids : Open(s, tid)
  PROVE  Lone(s, d, n)' /\ Stages(s, d, n)'
<1> DEFINE p == Head(socket[s])
<1>1. /\ socket[s] # << >> /\ socket' = Popped(s) /\ UNCHANGED <<sent, answers>>
      /\ ~Foreign(s, p)
  BY DEF Route, Open
<1>2. p \in Wire
  BY <1>1, PoppedType DEF Sockets
<1>0. KeyOf(p) \in Keys /\ p.f \in Frames
  BY <1>2 DEF Wire, Packets, KeyOf, Keys
<1>3. PICK key \in Keys : key = KeyOf(p)
  BY <1>0
<1> DEFINE old == sessions[s][key]
<1>4. p.id \in ClientIds /\ p.f \in Fresh /\ (old # None => old \in Serving)
  <2>1. old # None => key.id \in ClientIds /\ old \in Serving
    BY <1>3 DEF IInv, OnlyClients, Live
  <2>2. p.id \in ClientIds
    BY <1>2, <1>3, <2>1 DEF Route, Open, IsClientProbe, Wire, KeyOf
  <2> QED BY <1>2, <1>0, <2>1, <2>2 DEF Wire, Fresh
<1>5. p.f \in Probes(d, n) <=> p \in Pings(d, n)
  BY <1>1, <1>4, HeadIsPing
<1>6. s \in DOMAIN sessions /\ DOMAIN sessions[s] = Keys
  BY DEF IInv
<1>7. \A k \in Keys \ {key} : sessions'[s][k] = sessions[s][k]
  <2>1. CASE Route(s)
    BY <1>3, <1>6, <2>1 DEF Route
  <2>2. CASE \E tid \in Ids : Open(s, tid)
    BY <1>3, <1>6, <2>2 DEF Open
  <2> QED BY <2>1, <2>2
<1>8. \/ old # None /\ sessions'[s][key] = old
      \/ old # None /\ sessions'[s][key] = [old EXCEPT !.in = Append(old.in, p.f)]
      \/ \E tid \in Ids : sessions'[s][key] = [st |-> "new", tid |-> tid, in |-> <<p.f>>]
  <2>1. CASE Route(s)
    BY <1>3, <1>6, <2>1 DEF Route
  <2>2. CASE \E tid \in Ids : Open(s, tid)
    BY <1>3, <1>6, <2>2 DEF Open
  <2> QED BY <2>1, <2>2
<1> HIDE DEF p
<1>9. /\ Held(s, key, d, n)' => Held(s, key, d, n) \/ p \in Pings(d, n)
      /\ (/\ old # None => Single(old.in, Probes(d, n))
          /\ p \in Pings(d, n) => ~Held(s, key, d, n))
         => (sessions'[s][key] # None => Single(sessions'[s][key].in, Probes(d, n)))
  <2>1. CASE old # None /\ sessions'[s][key] = old
    <3>1. Held(s, key, d, n)' => Held(s, key, d, n)
      BY <2>1 DEF Held
    <3> QED BY <2>1, <3>1
  <2>2. CASE old # None /\ sessions'[s][key] = [old EXCEPT !.in = Append(old.in, p.f)]
    <3>1. old.in \in Seq(Fresh)
      BY <1>4, <2>2, ServingFields
    <3>2. /\ Has(Append(old.in, p.f), Probes(d, n)) => Has(old.in, Probes(d, n)) \/ p.f \in Probes(d, n)
          /\ Single(old.in, Probes(d, n)) /\ (p.f \in Probes(d, n) => ~Has(old.in, Probes(d, n)))
             => Single(Append(old.in, p.f), Probes(d, n))
      BY <1>4, <3>1, AppendHas
    <3>3. sessions'[s][key].in = Append(old.in, p.f)
      BY <1>4, <2>2 DEF Serving
    <3>4. (Has(old.in, Probes(d, n)) => Held(s, key, d, n)) /\ (Held(s, key, d, n)' => Has(sessions'[s][key].in, Probes(d, n)))
      BY <2>2 DEF Held
    <3> QED BY <1>5, <2>2, <3>2, <3>3, <3>4
  <2>3. CASE \E tid \in Ids : sessions'[s][key] = [st |-> "new", tid |-> tid, in |-> <<p.f>>]
    <3>1. sessions'[s][key].in = <<p.f>>
      BY <2>3
    <3>2. Single(<<p.f>>, Probes(d, n)) /\ (Has(<<p.f>>, Probes(d, n)) => p.f \in Probes(d, n))
      BY DEF Single, Has
    <3>3. Held(s, key, d, n)' => Has(sessions'[s][key].in, Probes(d, n))
      BY DEF Held
    <3> QED BY <1>5, <3>1, <3>2, <3>3
  <2> QED BY <1>8, <2>1, <2>2, <2>3
<1> QED BY <1>1, <1>3, <1>7, <1>9, MoveStep DEF p

(* A frame leaves its channel, and its echo goes to the clients. *)
LEMMA AnswerStep ==
  ASSUME IInv, NEW s \in Servers, NEW d \in Clients, NEW n \in 1 .. MaxPings,
         Lone(s, d, n), Stages(s, d, n), NEW key \in Keys, Echo(s, key)
  PROVE  Lone(s, d, n)' /\ Stages(s, d, n)'
<1> DEFINE t == sessions[s][key]
           f == Head(t.in)
           p == [src |-> Host(s), dst |-> key.peer, id |-> t.tid, reply |-> TRUE, f |-> Echoed(f)]
           due == f \in Probes(d, n)
<1>1. t \in Serving /\ t # None /\ t.in # << >> /\ t.in \in Seq(Fresh)
  BY ServingFields DEF Echo, IInv, None
<1>2. f \in Fresh
  BY <1>1, HeadTailProperties
<1>3. p.f \in Frames /\ p.f.k = "pong" /\ p.f.hops <= 1 /\ p.f.c = f.c /\ p.f.n = f.n
  BY <1>2, EchoedType DEF Echoed
<1>4. p \in Wire /\ p.reply
  BY <1>1, <1>3, HostType, ServingFields DEF Wire, Packets, Sockets, Keys
<1>5. p \notin Pings(d, n) /\ (p \in Pongs(d, n) <=> due)
  BY <1>2, <1>3, <1>4 DEF Pings, Pongs, Probes
<1>6. /\ s \in DOMAIN sessions /\ DOMAIN sessions[s] = Keys
      /\ sessions' = [sessions EXCEPT ![s][key].in = Tail(@)] /\ socket' = Transmit(socket, p)
      /\ UNCHANGED <<sent, answers>>
  BY DEF Echo, IInv
<1>7. /\ \A k \in Keys \ {key} : sessions'[s][k] = sessions[s][k]
      /\ sessions'[s][key].in = Tail(t.in)
  BY <1>1, <1>6 DEF Serving
<1> HIDE DEF f, p
<1>8. /\ Has(Tail(t.in), Probes(d, n)) => Has(t.in, Probes(d, n))
      /\ Single(t.in, Probes(d, n)) => Single(Tail(t.in), Probes(d, n))
      /\ due => Has(t.in, Probes(d, n))
      /\ due /\ Single(t.in, Probes(d, n)) => ~Has(Tail(t.in), Probes(d, n))
  BY <1>1, TailHas DEF f
<1> HIDE DEF due
<1>9. socket \in [Sockets -> Seq(Wire)] /\ s \in Sockets /\ Clients \subseteq Sockets
  BY DEF IInv, Sockets
<1>10. /\ Waits(s, d, n)' => Waits(s, d, n)
       /\ Single(socket[s], Pings(d, n)) => Single(socket'[s], Pings(d, n))
  BY <1>4, <1>5, <1>6, <1>9, TransmitHas DEF Waits
<1>11. ASSUME NEW c \in Clients
       PROVE  /\ Has(socket'[c], Pongs(d, n)) => Has(socket[c], Pongs(d, n)) \/ due
              /\ Single(socket[c], Pongs(d, n)) /\ (due => ~Has(socket[c], Pongs(d, n)))
                 => Single(socket'[c], Pongs(d, n))
  BY <1>4, <1>5, <1>6, <1>9, TransmitHas
<1>12. due => /\ n <= sent[d] /\ ~Waits(s, d, n)
              /\ \A k \in Keys : Held(s, k, d, n) => k = key
              /\ \A c \in Clients : ~Heard(c, d, n)
  <2>1. due => Held(s, key, d, n)
    BY <1>1, <1>8 DEF Held
  <2> QED BY <2>1 DEF Stages
<1>13. \A k \in Keys : Held(s, k, d, n)' => Held(s, k, d, n)
  BY <1>1, <1>7, <1>8 DEF Held
<1>14. Lone(s, d, n)'
  <2>1. \A k \in Keys : sessions'[s][k] # None => Single(sessions'[s][k].in, Probes(d, n))
    BY <1>1, <1>7, <1>8 DEF Lone
  <2>2. ASSUME NEW c \in Clients
        PROVE  /\ Single(socket'[c], Pongs(d, n)) /\ answers'[c][d][n] \in {0, 1}
               /\ answers'[c][d][n] = 1 => ~Has(socket'[c], Pongs(d, n))
    BY <1>6, <1>11, <1>12 DEF Lone, Heard
  <2> QED BY <1>10, <2>1, <2>2 DEF Lone
<1>15. CASE ~due
  <2>1. \A c \in Clients : Heard(c, d, n)' => Heard(c, d, n)
    BY <1>6, <1>11, <1>15 DEF Heard
  <2> QED BY <1>6, <1>10, <1>13, <1>14, <2>1, StagesKept
<1>16. CASE due
  <2>1. ~Held(s, key, d, n)'
    BY <1>1, <1>7, <1>8, <1>16 DEF Held, Lone
  <2>2. \A k \in Keys : ~Held(s, k, d, n)'
    BY <1>12, <1>13, <1>16, <2>1
  <2> QED BY <1>6, <1>10, <1>12, <1>14, <1>16, <2>2 DEF Stages
<1> QED BY <1>15, <1>16

OnceInv(s) ==
  /\ IInv /\ Counts
  /\ \A d \in Clients, n \in 1 .. MaxPings : Lone(s, d, n) /\ Stages(s, d, n)

LEMMA OnceInit == ASSUME Init, NEW s \in Servers PROVE OnceInv(s)
<1>1. /\ \A y \in Sockets : socket[y] = << >>
      /\ \A key \in Keys : sessions[s][key] = None
      /\ \A c \in Clients, d \in Clients, n \in 1 .. MaxPings : answers[c][d][n] = 0
  BY DEF Init
<1>2. \A X : ~Has(<< >>, X) /\ Single(<< >>, X)
  BY DEF Has, Single
<1>3. Counts
  BY DEF Init, Counts, Tally
<1>4. s \in Sockets /\ Clients \subseteq Sockets
  BY DEF Sockets
<1>5. ASSUME NEW d \in Clients, NEW n \in 1 .. MaxPings
      PROVE  Lone(s, d, n) /\ Stages(s, d, n)
  <2>1. ~Waits(s, d, n) /\ (\A key \in Keys : ~Held(s, key, d, n)) /\ \A c \in Clients : ~Heard(c, d, n)
    BY <1>1, <1>2, <1>4 DEF Waits, Held, Heard
  <2>2. Stages(s, d, n)
    BY <2>1 DEF Stages
  <2>3. Lone(s, d, n)
    BY <1>1, <1>2, <1>4 DEF Lone
  <2> QED BY <2>2, <2>3
<1> QED BY <1>3, <1>5, InvInit DEF OnceInv

LEMMA OnceStep ==
  ASSUME ~Collide, NEW s, Servers = {s}, OnceInv(s), [Next]_vars
  PROVE  OnceInv(s)'
<1>1. IInv' /\ Counts'
  BY InvStep, CountsStep DEF OnceInv
<1>2. ASSUME NEW d \in Clients, NEW n \in 1 .. MaxPings
      PROVE  Lone(s, d, n)' /\ Stages(s, d, n)'
  <2>1. IInv /\ Counts /\ Lone(s, d, n) /\ Stages(s, d, n) /\ s \in Servers
    BY DEF OnceInv
  <2>2. ASSUME NEW y \in Sockets, Lose(y) PROVE Lone(s, d, n)' /\ Stages(s, d, n)'
    BY <2>1, <2>2, DropStep DEF Lose
  <2>3. CASE Ignore(s)
    BY <2>1, <2>3, DropStep DEF Ignore, Sockets
  <2>4. CASE Route(s) \/ \E tid \in Ids : Open(s, tid)
    BY <2>1, <2>4, ArrivalStep
  <2>5. ASSUME NEW key \in Keys, Accept(s, key) \/ Echo(s, key) \/ End(s, key)
        PROVE  Lone(s, d, n)' /\ Stages(s, d, n)'
    BY <2>1, <2>5, TableStep, AnswerStep
  <2>6. ASSUME NEW c \in Clients, Send(c) \/ Read(c) PROVE Lone(s, d, n)' /\ Stages(s, d, n)'
    BY <2>1, <2>6, ProbeStep, ReadStep
  <2>7. CASE UNCHANGED vars
    BY <2>1, <2>7 DEF vars, Lone, Stages, Waits, Held, Heard
  <2>8. ASSUME NEW r \in Servers, Server(r) PROVE Server(s)
    BY <2>8
  <2> QED BY <2>2, <2>3, <2>4, <2>5, <2>6, <2>7, <2>8 DEF Next, Server
<1> QED BY <1>1, <1>2 DEF OnceInv

(* One server, whose ids are no client's, answers every probe at most once *)
(* to each client of its host (removeSession, EchoLoop, the used set): for *)
(* any number of clients and pings, on loopback or not, and though the     *)
(* kernel echoes ICMP requests as well.                                    *)
THEOREM ProbesAnsweredOnce ==
  ASSUME ~Collide, NEW s, Servers = {s}
  PROVE  Spec => []AnsweredOnce
<1>1. Init => OnceInv(s)
  BY OnceInit
<1>2. OnceInv(s) /\ [Next]_vars => OnceInv(s)'
  BY OnceStep
<1>3. OnceInv(s) => AnsweredOnce
  BY DEF OnceInv, Lone, AnsweredOnce
<1> QED BY <1>1, <1>2, <1>3, PTL DEF Spec
=============================================================================
